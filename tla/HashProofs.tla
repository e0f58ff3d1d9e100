----------------------------- MODULE HashProofs -----------------------------
(* The rolling hash of pkg/chunk, for every window, base and word: which    *)
(* bytes it covers, with its products wrapped at the word's size.           *)
EXTENDS DataProofs

(* A leaf is for Zenon to prove unless it cites SMT, for arithmetic,        *)
(* sequences and records, or PTL, for temporal logic.                       *)
USE Zenon

-----------------------------------------------------------------------------
(* Remainders and powers.                                                   *)

(* A remainder, by any quotient.                                            *)
LEMMA ModIs ==
  ASSUME NEW a \in Int, NEW m \in Nat \ {0}, NEW r \in 0..(m - 1), NEW q \in Int,
         a = m * q + r
  PROVE  a % m = r
<1> DEFINE d == a \div m
           e == a % m
<1>1. e \in 0..(m - 1) /\ d \in Int /\ a = m * d + e
  BY SMT
<1> HIDE DEF d, e
<1>2. m * (q - d) = e - r
  BY <1>1, SMT
<1>3. q - d = 0
  <2>1. m * (q - d) < m /\ m * (q - d) > -m
    BY <1>1, <1>2, SMT
  <2>2. \A k \in Int : k >= 1 => m * k >= m
    BY SMT
  <2>3. \A k \in Int : k <= -1 => m * k <= -m
    BY SMT
  <2> QED
    BY <1>1, <2>1, <2>2, <2>3, SMT
<1>4. e = r
  BY <1>1, <1>2, <1>3, SMT
<1> QED
  BY <1>4 DEF e

(* A number below the modulus is its own remainder.                         *)
LEMMA ModSmall ==
  ASSUME NEW m \in Nat \ {0}, NEW a \in 0..(m - 1)
  PROVE  a % m = a
<1>1. a = m * 0 + a
  BY SMT
<1> QED
  BY <1>1, ModIs, SMT

(* The powers of the base.                                                  *)
LEMMA PowerIs ==
  Power[0] = 1 /\ \A k \in 1..WordBytes : Power[k] = Base * Power[k - 1]
<1> DEFINE T == {k \in Nat : \E g : g = [i \in 0..k |-> IF i = 0 THEN 1 ELSE Base * g[i - 1]]}
<1>1. 0 \in T
  <2> DEFINE g == [i \in 0..0 |-> 1]
  <2>1. g = [i \in 0..0 |-> IF i = 0 THEN 1 ELSE Base * g[i - 1]]
    BY SMT
  <2> QED
    BY <2>1
<1>2. ASSUME NEW k \in Nat, k \in T PROVE k + 1 \in T
  <2>1. PICK g : g = [i \in 0..k |-> IF i = 0 THEN 1 ELSE Base * g[i - 1]]
    BY <1>2
  <2> DEFINE h == [i \in 0..(k + 1) |-> IF i = 0 THEN 1 ELSE Base * g[i - 1]]
  <2>2. \A i \in 0..k : g[i] = IF i = 0 THEN 1 ELSE Base * g[i - 1]
    BY <2>1
  <2>3. \A i \in 0..k : h[i] = g[i]
    BY <2>2, SMT
  <2>4. ASSUME NEW i \in 0..(k + 1), i # 0 PROVE h[i - 1] = g[i - 1]
    <3>1. i - 1 \in 0..k
      BY <2>4, SMT
    <3> QED
      BY <2>3, <3>1
  <2>5. h = [i \in 0..(k + 1) |-> IF i = 0 THEN 1 ELSE Base * h[i - 1]]
    BY <2>4
  <2> HIDE DEF h
  <2> QED
    BY <2>5, SMT
<1>3. Nat \subseteq T
  <2> HIDE DEF T
  <2> QED
    BY <1>1, <1>2, NatSetInduction
<1>4. Power = [i \in 0..WordBytes |-> IF i = 0 THEN 1 ELSE Base * Power[i - 1]]
  <2>1. \E g : g = [i \in 0..WordBytes |-> IF i = 0 THEN 1 ELSE Base * g[i - 1]]
    BY <1>3, HashAssumption
  <2> QED
    BY <2>1 DEF Power
<1> QED
  BY <1>4, HashAssumption, SMT

(* The powers grow, so that all but the last are below the prime.           *)
LEMMA PowerGrows ==
  /\ \A i \in 0..WordBytes : Power[i] \in Nat \ {0}
  /\ \A i \in 0..(WordBytes - 1) : Power[i] <= Power[i + 1]
<1> DEFINE T == {i \in 0..WordBytes : Power[i] \in Nat \ {0}}
<1>1. WordBytes \in Nat \ {0} /\ Base \in Nat /\ Base > 1
  BY HashAssumption
<1>2. 0 \in T
  BY <1>1, PowerIs, SMT
<1>3. ASSUME NEW i \in 0..(WordBytes - 1), i \in T PROVE i + 1 \in T
  <2>1. i + 1 \in 1..WordBytes /\ i + 1 \in 0..WordBytes /\ (i + 1) - 1 = i
    BY <1>1, SMT
  <2>2. Power[i + 1] = Base * Power[i]
    BY <2>1, PowerIs
  <2>3. \A x \in Nat \ {0} : Base * x \in Nat \ {0}
    BY <1>1, SMT
  <2> QED
    BY <1>3, <2>1, <2>2, <2>3
<1>4. 0..WordBytes \subseteq T
  <2> HIDE DEF T
  <2> QED
    BY <1>1, <1>2, <1>3, IntervalInduction
<1>5. ASSUME NEW i \in 0..(WordBytes - 1) PROVE Power[i] <= Power[i + 1]
  <2>1. i + 1 \in 1..WordBytes /\ i \in 0..WordBytes /\ (i + 1) - 1 = i
    BY <1>1, SMT
  <2>2. Power[i + 1] = Base * Power[i] /\ Power[i] \in Nat
    BY <1>4, <2>1, PowerIs
  <2>3. \A x \in Nat : x <= Base * x
    BY <1>1, SMT
  <2> QED
    BY <2>2, <2>3
<1> QED
  BY <1>4, <1>5

(* A power is at most any later one.                                        *)
LEMMA PowerMonotone ==
  ASSUME NEW m \in 0..WordBytes, NEW i \in 0..m
  PROVE  Power[i] <= Power[m]
<1> DEFINE T == {j \in 0..m : Power[m - j] <= Power[m]}
<1>1. WordBytes \in Nat
  BY HashAssumption
<1>2. 0 \in T
  <2>1. m - 0 = m /\ 0 \in 0..m /\ m \in 0..WordBytes
    BY <1>1, SMT
  <2>2. Power[m] \in Nat
    BY <2>1, PowerGrows
  <2> QED
    BY <2>1, <2>2, SMT
<1>3. ASSUME NEW j \in 0..(m - 1), j \in T PROVE j + 1 \in T
  <2> DEFINE k == m - (j + 1)
  <2>1. /\ k \in 0..(WordBytes - 1) /\ k + 1 = m - j /\ j + 1 \in 0..m
        /\ k \in 0..WordBytes /\ k + 1 \in 0..WordBytes
    BY <1>1, SMT
  <2>2. Power[k] <= Power[k + 1]
    BY <2>1, PowerGrows
  <2>3. Power[k] \in Nat /\ Power[k + 1] \in Nat /\ Power[m] \in Nat
    BY <2>1, PowerGrows
  <2>4. Power[k + 1] <= Power[m]
    BY <1>3, <2>1
  <2> HIDE DEF k
  <2>5. Power[k] <= Power[m]
    BY <2>2, <2>3, <2>4, SMT
  <2> QED
    BY <2>1, <2>5 DEF k
<1>4. 0..m \subseteq T
  <2>1. m \in Nat
    BY <1>1, SMT
  <2> HIDE DEF T
  <2> QED
    BY <1>2, <1>3, <2>1, IntervalInduction
<1>5. m - i \in 0..m /\ m - (m - i) = i
  BY <1>1, SMT
<1> QED
  BY <1>4, <1>5

(* What fits where: a power but the last below the prime, and a hash in a   *)
(* word.                                                                    *)
LEMMA WordFacts ==
  /\ Mod \in Nat \ {0} /\ Power[WordBytes] \in Nat \ {0} /\ 2 * Mod <= Power[WordBytes]
  /\ WordBytes \in Nat \ {0} /\ Base \in Nat /\ Base > 1
  /\ \A b \in CkBytes : b \in Nat /\ b < Base
  /\ \A i \in 0..(WordBytes - 1) :
       /\ Power[i] \in Nat \ {0} /\ Power[i] < Mod
       /\ Power[i + 1] = Base * Power[i] /\ Power[i + 1] <= Power[WordBytes]
<1>1. /\ WordBytes \in Nat \ {0} /\ Base \in Nat /\ Base > 1 /\ Mod \in Nat
      /\ Power[WordBytes - 1] < Mod /\ 2 * Mod <= Power[WordBytes]
      /\ \A b \in CkBytes : b \in Nat /\ b < Base
  BY HashAssumption, SMT
<1>2. WordBytes - 1 \in 0..WordBytes /\ WordBytes \in 0..WordBytes
  BY <1>1, SMT
<1>3. Power[WordBytes - 1] \in Nat \ {0} /\ Power[WordBytes] \in Nat \ {0}
  BY <1>2, PowerGrows
<1>4. ASSUME NEW i \in 0..(WordBytes - 1)
      PROVE  /\ Power[i] \in Nat \ {0} /\ Power[i] < Mod
             /\ Power[i + 1] = Base * Power[i] /\ Power[i + 1] <= Power[WordBytes]
  <2>1. i + 1 \in 0..WordBytes /\ i \in 0..WordBytes /\ i + 1 \in 1..WordBytes /\ (i + 1) - 1 = i
    BY <1>1, SMT
  <2>2. Power[i] \in Nat \ {0} /\ Power[i + 1] = Base * Power[i]
    BY <2>1, PowerIs, PowerGrows
  <2>3. Power[i] <= Power[WordBytes - 1] /\ Power[i + 1] <= Power[WordBytes]
    BY <1>2, <2>1, PowerMonotone
  <2>4. Power[i] < Mod
    BY <1>1, <1>3, <2>2, <2>3, SMT
  <2> QED
    BY <2>2, <2>3, <2>4
<1> QED
  BY <1>1, <1>3, <1>4, SMT

-----------------------------------------------------------------------------
(* The power of the byte that leaves.                                       *)

(* The loop of newRollingHash, turn by turn.                                *)
LEMMA PowTurns ==
  ASSUME NEW w \in Nat \ {0}
  PROVE  \E h : /\ Pow(w) = h[w - 1] /\ h[0] = 1
                /\ \A k \in 1..(w - 1) : h[k] = Word(h[k - 1] * Base) % Mod
<1> DEFINE T == {k \in Nat : \E g : g = [i \in 0..k |-> IF i = 0 THEN 1 ELSE Word(g[i - 1] * Base) % Mod]}
<1>1. 0 \in T
  <2> DEFINE g == [i \in 0..0 |-> 1]
  <2>1. g = [i \in 0..0 |-> IF i = 0 THEN 1 ELSE Word(g[i - 1] * Base) % Mod]
    BY SMT
  <2> QED
    BY <2>1
<1>2. ASSUME NEW k \in Nat, k \in T PROVE k + 1 \in T
  <2>1. PICK g : g = [i \in 0..k |-> IF i = 0 THEN 1 ELSE Word(g[i - 1] * Base) % Mod]
    BY <1>2
  <2> DEFINE h == [i \in 0..(k + 1) |-> IF i = 0 THEN 1 ELSE Word(g[i - 1] * Base) % Mod]
  <2>2. \A i \in 0..k : g[i] = IF i = 0 THEN 1 ELSE Word(g[i - 1] * Base) % Mod
    BY <2>1
  <2>3. \A i \in 0..k : h[i] = g[i]
    BY <2>2, SMT
  <2>4. ASSUME NEW i \in 0..(k + 1), i # 0 PROVE h[i - 1] = g[i - 1]
    <3>1. i - 1 \in 0..k
      BY <2>4, SMT
    <3> QED
      BY <2>3, <3>1
  <2>5. h = [i \in 0..(k + 1) |-> IF i = 0 THEN 1 ELSE Word(h[i - 1] * Base) % Mod]
    BY <2>4
  <2> HIDE DEF h
  <2> QED
    BY <2>5, SMT
<1>3. Nat \subseteq T
  <2> HIDE DEF T
  <2> QED
    BY <1>1, <1>2, NatSetInduction
<1> DEFINE f == CHOOSE g : g = [i \in 0..(w - 1) |-> IF i = 0 THEN 1 ELSE Word(g[i - 1] * Base) % Mod]
<1>4. Pow(w) = f[w - 1]
  BY DEF Pow
<1>5. f = [i \in 0..(w - 1) |-> IF i = 0 THEN 1 ELSE Word(f[i - 1] * Base) % Mod]
  <2>0. w - 1 \in Nat
    BY SMT
  <2>1. w - 1 \in T
    BY <1>3, <2>0
  <2>2. \E g : g = [i \in 0..(w - 1) |-> IF i = 0 THEN 1 ELSE Word(g[i - 1] * Base) % Mod]
    BY <2>1
  <2> QED
    BY <2>2
<1> HIDE DEF f
<1>6. f[0] = 1 /\ \A k \in 1..(w - 1) : f[k] = Word(f[k - 1] * Base) % Mod
  BY <1>5, SMT
<1> QED
  BY <1>4, <1>6

(* base^(window-1) as computed: exact while the window fits a word, 0 from  *)
(* then on.                                                                 *)
LEMMA PowIs ==
  ASSUME NEW w \in Nat \ {0}
  PROVE  Pow(w) = IF w <= WordBytes THEN Power[w - 1] ELSE 0
<1>1. PICK h : /\ Pow(w) = h[w - 1] /\ h[0] = 1
               /\ \A k \in 1..(w - 1) : h[k] = Word(h[k - 1] * Base) % Mod
  BY PowTurns
<1> DEFINE size == Power[WordBytes]
           Is(k) == IF k < WordBytes THEN Power[k] ELSE 0
           T == {k \in 0..(w - 1) : h[k] = Is(k)}
<1>2. /\ Mod \in Nat \ {0} /\ size \in Nat \ {0} /\ 2 * Mod <= size
      /\ WordBytes \in Nat \ {0} /\ Base \in Nat /\ w \in Nat \ {0}
  BY WordFacts
<1>3. \A x \in 0..(Mod - 1) : x % Mod = x
  BY <1>2, ModSmall
<1>4. \A x \in 0..(size - 1) : Word(x) = x
  BY <1>2, ModSmall DEF Word
<1>5. Word(size) = 0
  <2>1. size = size * 1 + 0 /\ 0 \in 0..(size - 1)
    BY <1>2, SMT
  <2> QED
    BY <1>2, <2>1, ModIs, SMT DEF Word
<1> HIDE DEF size
<1>6. 0 \in T
  BY <1>1, <1>2, PowerIs, SMT
<1>7. ASSUME NEW k \in 0..((w - 1) - 1), k \in T PROVE k + 1 \in T
  <2>1. k + 1 \in 1..(w - 1) /\ k + 1 \in 0..(w - 1) /\ (k + 1) - 1 = k /\ k \in Nat
    BY <1>2, SMT
  <2>2. h[k + 1] = Word(Is(k) * Base) % Mod
    BY <1>1, <1>7, <2>1
  <2>3. CASE k + 1 < WordBytes
    <3>1. k \in 0..(WordBytes - 1) /\ k + 1 \in 0..(WordBytes - 1) /\ k < WordBytes
      BY <1>2, <2>1, <2>3, SMT
    <3>2. /\ Power[k] \in Nat /\ Power[k + 1] \in Nat /\ Power[k + 1] = Base * Power[k]
          /\ Power[k + 1] < Mod
      BY <3>1, WordFacts
    <3>3. Power[k] * Base = Power[k + 1]
      BY <1>2, <3>2, SMT
    <3>4. Power[k + 1] \in 0..(Mod - 1) /\ Power[k + 1] \in 0..(size - 1)
      BY <1>2, <3>2, SMT
    <3>5. h[k + 1] = Power[k + 1]
      BY <1>3, <1>4, <2>2, <3>1, <3>3, <3>4
    <3> QED
      BY <2>1, <2>3, <3>5
  <2>4. CASE k + 1 = WordBytes
    <3>1. k \in 0..(WordBytes - 1) /\ k < WordBytes
      BY <1>2, <2>1, <2>4, SMT
    <3>2. Power[k] \in Nat /\ Power[k + 1] = Base * Power[k]
      BY <3>1, WordFacts
    <3>3. Power[k] * Base = size
      BY <1>2, <2>4, <3>2, SMT DEF size
    <3>4. Word(Is(k) * Base) = 0
      BY <1>5, <3>1, <3>3
    <3>5. 0 % Mod = 0
      BY <1>2, <1>3, SMT
    <3> QED
      BY <1>2, <2>1, <2>2, <2>4, <3>4, <3>5, SMT
  <2>5. CASE k + 1 > WordBytes
    <3>1. Is(k) = 0 /\ Is(k + 1) = 0
      BY <1>2, <2>1, <2>5, SMT
    <3>2. 0 * Base = 0 /\ 0 \in 0..(size - 1) /\ 0 \in 0..(Mod - 1)
      BY <1>2, SMT
    <3>3. h[k + 1] = 0
      BY <1>3, <1>4, <2>2, <3>1, <3>2
    <3> QED
      BY <2>1, <3>1, <3>3
  <2> QED
    BY <1>2, <2>1, <2>3, <2>4, <2>5, SMT
<1>8. 0..(w - 1) \subseteq T
  <2>1. w - 1 \in Nat
    BY <1>2, SMT
  <2> HIDE DEF T
  <2> QED
    BY <1>6, <1>7, <2>1, IntervalInduction
<1>9. h[w - 1] = Is(w - 1)
  BY <1>2, <1>8, SMT
<1>10. w - 1 < WordBytes <=> w <= WordBytes
  BY <1>2, SMT
<1> QED
  BY <1>1, <1>9, <1>10

-----------------------------------------------------------------------------
(* The hash of some bytes, and of those that fit a word.                    *)

(* The hash of some bytes, byte by byte.                                    *)
LEMMA HashTurns ==
  ASSUME NEW s, NEW n \in Nat, Len(s) = n
  PROVE  \E h : /\ HashOf(s) = h[n] /\ h[0] = 0
                /\ \A k \in 1..n : h[k] = Append1(h[k - 1], s[k])
<1> DEFINE T == {k \in Nat : \E g : g = [i \in 0..k |-> IF i = 0 THEN 0 ELSE Append1(g[i - 1], s[i])]}
<1>1. 0 \in T
  <2> DEFINE g == [i \in 0..0 |-> 0]
  <2>1. g = [i \in 0..0 |-> IF i = 0 THEN 0 ELSE Append1(g[i - 1], s[i])]
    BY SMT
  <2> QED
    BY <2>1
<1>2. ASSUME NEW k \in Nat, k \in T PROVE k + 1 \in T
  <2>1. PICK g : g = [i \in 0..k |-> IF i = 0 THEN 0 ELSE Append1(g[i - 1], s[i])]
    BY <1>2
  <2> DEFINE h == [i \in 0..(k + 1) |-> IF i = 0 THEN 0 ELSE Append1(g[i - 1], s[i])]
  <2>2. \A i \in 0..k : g[i] = IF i = 0 THEN 0 ELSE Append1(g[i - 1], s[i])
    BY <2>1
  <2>3. \A i \in 0..k : h[i] = g[i]
    BY <2>2, SMT
  <2>4. ASSUME NEW i \in 0..(k + 1), i # 0 PROVE h[i - 1] = g[i - 1]
    <3>1. i - 1 \in 0..k
      BY <2>4, SMT
    <3> QED
      BY <2>3, <3>1
  <2>5. h = [i \in 0..(k + 1) |-> IF i = 0 THEN 0 ELSE Append1(h[i - 1], s[i])]
    BY <2>4
  <2> HIDE DEF h
  <2> QED
    BY <2>5, SMT
<1>3. Nat \subseteq T
  <2> HIDE DEF T
  <2> QED
    BY <1>1, <1>2, NatSetInduction
<1> DEFINE f == CHOOSE g : g = [i \in 0..n |-> IF i = 0 THEN 0 ELSE Append1(g[i - 1], s[i])]
<1>4. HashOf(s) = f[n]
  BY DEF HashOf
<1>5. f = [i \in 0..n |-> IF i = 0 THEN 0 ELSE Append1(f[i - 1], s[i])]
  <2>1. \E g : g = [i \in 0..n |-> IF i = 0 THEN 0 ELSE Append1(g[i - 1], s[i])]
    BY <1>3
  <2> QED
    BY <2>1
<1> HIDE DEF f
<1>6. f[0] = 0 /\ \A k \in 1..n : f[k] = Append1(f[k - 1], s[k])
  BY <1>5, SMT
<1> QED
  BY <1>4, <1>6

(* The bytes of a window as one number.                                     *)
ValueOf(s) ==
  LET value[n \in 0..Len(s)] == IF n = 0 THEN 0 ELSE value[n - 1] * Base + s[n]
  IN  value[Len(s)]

(* The number, byte by byte.                                                *)
LEMMA ValueTurns ==
  ASSUME NEW s, NEW n \in Nat, Len(s) = n
  PROVE  \E h : /\ ValueOf(s) = h[n] /\ h[0] = 0
                /\ \A k \in 1..n : h[k] = h[k - 1] * Base + s[k]
<1> DEFINE T == {k \in Nat : \E g : g = [i \in 0..k |-> IF i = 0 THEN 0 ELSE g[i - 1] * Base + s[i]]}
<1>1. 0 \in T
  <2> DEFINE g == [i \in 0..0 |-> 0]
  <2>1. g = [i \in 0..0 |-> IF i = 0 THEN 0 ELSE g[i - 1] * Base + s[i]]
    BY SMT
  <2> QED
    BY <2>1
<1>2. ASSUME NEW k \in Nat, k \in T PROVE k + 1 \in T
  <2>1. PICK g : g = [i \in 0..k |-> IF i = 0 THEN 0 ELSE g[i - 1] * Base + s[i]]
    BY <1>2
  <2> DEFINE h == [i \in 0..(k + 1) |-> IF i = 0 THEN 0 ELSE g[i - 1] * Base + s[i]]
  <2>2. \A i \in 0..k : g[i] = IF i = 0 THEN 0 ELSE g[i - 1] * Base + s[i]
    BY <2>1
  <2>3. \A i \in 0..k : h[i] = g[i]
    BY <2>2, SMT
  <2>4. ASSUME NEW i \in 0..(k + 1), i # 0 PROVE h[i - 1] = g[i - 1]
    <3>1. i - 1 \in 0..k
      BY <2>4, SMT
    <3> QED
      BY <2>3, <3>1
  <2>5. h = [i \in 0..(k + 1) |-> IF i = 0 THEN 0 ELSE h[i - 1] * Base + s[i]]
    BY <2>4
  <2> HIDE DEF h
  <2> QED
    BY <2>5, SMT
<1>3. Nat \subseteq T
  <2> HIDE DEF T
  <2> QED
    BY <1>1, <1>2, NatSetInduction
<1> DEFINE f == CHOOSE g : g = [i \in 0..n |-> IF i = 0 THEN 0 ELSE g[i - 1] * Base + s[i]]
<1>4. ValueOf(s) = f[n]
  BY DEF ValueOf
<1>5. f = [i \in 0..n |-> IF i = 0 THEN 0 ELSE f[i - 1] * Base + s[i]]
  <2>1. \E g : g = [i \in 0..n |-> IF i = 0 THEN 0 ELSE g[i - 1] * Base + s[i]]
    BY <1>3
  <2> QED
    BY <2>1
<1> HIDE DEF f
<1>6. f[0] = 0 /\ \A k \in 1..n : f[k] = f[k - 1] * Base + s[k]
  BY <1>5, SMT
<1> QED
  BY <1>4, <1>6

(* One byte more.                                                           *)
LEMMA HashAppend ==
  ASSUME NEW s \in Seq(CkBytes), NEW b \in CkBytes
  PROVE  HashOf(Append(s, b)) = Append1(HashOf(s), b)
<1> DEFINE n == Len(s)
           t == Append(s, b)
<1>1. n \in Nat /\ Len(t) = n + 1 /\ t[n + 1] = b /\ \A k \in 1..n : t[k] = s[k]
  BY SMT
<1>2. PICK h : /\ HashOf(s) = h[n] /\ h[0] = 0 /\ \A k \in 1..n : h[k] = Append1(h[k - 1], s[k])
  BY <1>1, HashTurns
<1> HIDE DEF n, t
<1> DEFINE m == n + 1
<1>3. PICK g : /\ HashOf(t) = g[m] /\ g[0] = 0 /\ \A k \in 1..m : g[k] = Append1(g[k - 1], t[k])
  <2>1. m \in Nat /\ Len(t) = m
    BY <1>1, SMT
  <2> HIDE DEF m
  <2> QED
    BY <2>1, HashTurns
<1> DEFINE T == {k \in 0..n : g[k] = h[k]}
<1>4. 0 \in T
  BY <1>1, <1>2, <1>3, SMT
<1>5. ASSUME NEW k \in 0..(n - 1), k \in T PROVE k + 1 \in T
  <2>1. k + 1 \in 1..n /\ k + 1 \in 1..m /\ k + 1 \in 0..n /\ (k + 1) - 1 = k
    BY <1>1, SMT
  <2>2. g[k + 1] = Append1(g[k], t[k + 1]) /\ h[k + 1] = Append1(h[k], s[k + 1])
    BY <1>2, <1>3, <2>1
  <2>3. g[k] = h[k] /\ t[k + 1] = s[k + 1]
    BY <1>1, <1>5, <2>1
  <2> QED
    BY <2>1, <2>2, <2>3
<1>6. 0..n \subseteq T
  <2> HIDE DEF T
  <2> QED
    BY <1>1, <1>4, <1>5, IntervalInduction
<1>7. g[n] = h[n]
  BY <1>1, <1>6, SMT
<1>8. g[m] = Append1(g[n], b)
  <2>1. m \in 1..m /\ m - 1 = n
    BY <1>1, SMT
  <2> QED
    BY <1>1, <1>3, <2>1
<1> QED
  BY <1>2, <1>3, <1>7, <1>8 DEF t

(* The same for the number.                                                 *)
LEMMA ValueAppend ==
  ASSUME NEW s \in Seq(CkBytes), NEW b \in CkBytes
  PROVE  ValueOf(Append(s, b)) = ValueOf(s) * Base + b
<1> DEFINE n == Len(s)
           t == Append(s, b)
<1>1. n \in Nat /\ Len(t) = n + 1 /\ t[n + 1] = b /\ \A k \in 1..n : t[k] = s[k]
  BY SMT
<1>2. PICK h : /\ ValueOf(s) = h[n] /\ h[0] = 0 /\ \A k \in 1..n : h[k] = h[k - 1] * Base + s[k]
  BY <1>1, ValueTurns
<1> HIDE DEF n, t
<1> DEFINE m == n + 1
<1>3. PICK g : /\ ValueOf(t) = g[m] /\ g[0] = 0 /\ \A k \in 1..m : g[k] = g[k - 1] * Base + t[k]
  <2>1. m \in Nat /\ Len(t) = m
    BY <1>1, SMT
  <2> HIDE DEF m
  <2> QED
    BY <2>1, ValueTurns
<1> DEFINE T == {k \in 0..n : g[k] = h[k]}
<1>4. 0 \in T
  BY <1>1, <1>2, <1>3, SMT
<1>5. ASSUME NEW k \in 0..(n - 1), k \in T PROVE k + 1 \in T
  <2>1. k + 1 \in 1..n /\ k + 1 \in 1..m /\ k + 1 \in 0..n /\ (k + 1) - 1 = k
    BY <1>1, SMT
  <2>2. g[k + 1] = g[k] * Base + t[k + 1] /\ h[k + 1] = h[k] * Base + s[k + 1]
    BY <1>2, <1>3, <2>1
  <2>3. g[k] = h[k] /\ t[k + 1] = s[k + 1]
    BY <1>1, <1>5, <2>1
  <2> QED
    BY <2>1, <2>2, <2>3
<1>6. 0..n \subseteq T
  <2> HIDE DEF T
  <2> QED
    BY <1>1, <1>4, <1>5, IntervalInduction
<1>7. g[n] = h[n]
  BY <1>1, <1>6, SMT
<1>8. g[m] = g[n] * Base + b
  <2>1. m \in 1..m /\ m - 1 = n
    BY <1>1, SMT
  <2> QED
    BY <1>1, <1>3, <2>1
<1> QED
  BY <1>2, <1>3, <1>7, <1>8 DEF t

(* Of no bytes.                                                             *)
LEMMA OfNothing == HashOf(<<>>) = 0 /\ ValueOf(<<>>) = 0
<1> DEFINE e == <<>>
           n == Len(e)
<1>1. n = 0 /\ n \in Nat
  OBVIOUS
<1>2. (\E h : HashOf(e) = h[n] /\ h[0] = 0) /\ (\E h : ValueOf(e) = h[n] /\ h[0] = 0)
  <2>1. Len(e) = n
    OBVIOUS
  <2> HIDE DEF e, n
  <2> QED
    BY <1>1, <2>1, HashTurns, ValueTurns, SMT
<1> QED
  BY <1>1, <1>2

(* A sequence that is not empty is one that was appended to.                *)
LEMMA LastByte ==
  ASSUME NEW n \in Nat, NEW s \in Seq(CkBytes), Len(s) = n + 1
  PROVE  \E f \in Seq(CkBytes) : \E b \in CkBytes : s = Append(f, b) /\ Len(f) = n
<1> DEFINE f == SubSeq(s, 1, n)
           b == s[n + 1]
<1>1. f \in Seq(CkBytes) /\ b \in CkBytes /\ Len(f) = n /\ \A i \in 1..n : f[i] = s[i]
  BY SMT
<1> HIDE DEF f
<1>2. Append(f, b) \in Seq(CkBytes) /\ Len(Append(f, b)) = Len(s)
  BY <1>1, SMT
<1>3. \A i \in 1..Len(s) : Append(f, b)[i] = s[i]
  BY <1>1, SMT
<1>4. Append(f, b) = s
  BY <1>2, <1>3, SMT
<1> QED
  BY <1>1, <1>4

(* A hash is below the prime.                                               *)
LEMMA HashRange ==
  ASSUME NEW s \in Seq(CkBytes)
  PROVE  HashOf(s) \in 0..(Mod - 1)
<1> DEFINE T == {n \in Nat : \A t \in Seq(CkBytes) : Len(t) = n => HashOf(t) \in 0..(Mod - 1)}
<1>1. Mod \in Nat \ {0} /\ Power[WordBytes] \in Nat \ {0} /\ Base \in Nat
  BY WordFacts
<1>2. 0 \in T
  <2>1. \A t \in Seq(CkBytes) : Len(t) = 0 => t = <<>>
    BY SMT
  <2> QED
    BY <1>1, <2>1, OfNothing, SMT
<1>3. ASSUME NEW n \in Nat, n \in T PROVE n + 1 \in T
  <2> SUFFICES ASSUME NEW t \in Seq(CkBytes), Len(t) = n + 1 PROVE HashOf(t) \in 0..(Mod - 1)
    BY SMT
  <2>1. PICK f \in Seq(CkBytes) : \E b \in CkBytes : t = Append(f, b) /\ Len(f) = n
    BY LastByte
  <2>2. PICK b \in CkBytes : t = Append(f, b)
    BY <2>1
  <2>3. HashOf(t) = Append1(HashOf(f), b)
    BY <2>2, HashAppend
  <2> DEFINE x == HashOf(f)
  <2>4. x \in Int /\ b \in Int
    <3>1. x \in 0..(Mod - 1)
      BY <1>3, <2>1
    <3>2. b \in Nat
      BY WordFacts
    <3> HIDE DEF x
    <3> QED
      BY <1>1, <3>1, <3>2, SMT
  <2>5. \A y \in Int : Word(y) \in Int /\ y % Mod \in 0..(Mod - 1)
    <3>1. \A m \in Nat \ {0} : \A y \in Int : y % m \in 0..(m - 1)
      BY SMT
    <3>2. \A m \in Nat \ {0} : \A y \in Int : y % m \in Int
      BY SMT
    <3> QED
      BY <1>1, <3>1, <3>2 DEF Word
  <2> HIDE DEF x
  <2>6. x * Base \in Int
    BY <1>1, <2>4, SMT
  <2>7. Word(x * Base) + b \in Int
    <3>1. Word(x * Base) \in Int
      BY <2>5, <2>6
    <3> QED
      BY <2>4, <3>1, SMT
  <2>8. Word(Word(x * Base) + b) \in Int
    BY <2>5, <2>7
  <2>9. HashOf(t) = Word(Word(x * Base) + b) % Mod
    BY <2>3 DEF Append1, x
  <2> QED
    BY <2>5, <2>8, <2>9
<1>4. Nat \subseteq T
  <2> HIDE DEF T
  <2> QED
    BY <1>2, <1>3, NatSetInduction
<1> QED
  BY <1>4, SMT

(* The number of bytes that fit a word, and their hash, its remainder.      *)
LEMMA HashOfWord ==
  ASSUME NEW s \in Seq(CkBytes), Len(s) <= WordBytes
  PROVE  ValueOf(s) \in 0..(Power[Len(s)] - 1) /\ HashOf(s) = ValueOf(s) % Mod
<1> DEFINE size == Power[WordBytes]
           T == {n \in 0..WordBytes : \A t \in Seq(CkBytes) :
                   Len(t) = n => ValueOf(t) \in 0..(Power[n] - 1) /\ HashOf(t) = ValueOf(t) % Mod}
<1>1. /\ Mod \in Nat \ {0} /\ size \in Nat \ {0} /\ 2 * Mod <= size
      /\ WordBytes \in Nat \ {0} /\ Base \in Nat /\ Base > 1
  BY WordFacts
<1>2. 0 \in T
  <2>1. \A t \in Seq(CkBytes) : Len(t) = 0 => t = <<>>
    BY SMT
  <2>2. 0 \in 0..(Power[0] - 1) /\ 0 % Mod = 0 /\ 0 \in 0..WordBytes
    BY <1>1, PowerIs, ModSmall, SMT
  <2> QED
    BY <2>1, <2>2, OfNothing
<1>3. ASSUME NEW n \in 0..(WordBytes - 1), n \in T PROVE n + 1 \in T
  <2>1. n \in Nat /\ n + 1 \in 0..WordBytes
    BY <1>1, SMT
  <2>2. ASSUME NEW t \in Seq(CkBytes), Len(t) = n + 1
        PROVE  ValueOf(t) \in 0..(Power[n + 1] - 1) /\ HashOf(t) = ValueOf(t) % Mod
    <3>1. PICK f \in Seq(CkBytes) : \E b \in CkBytes : t = Append(f, b) /\ Len(f) = n
      BY <2>1, <2>2, LastByte
    <3>2. PICK b \in CkBytes : t = Append(f, b)
      BY <3>1
    <3> DEFINE v == ValueOf(f)
               p == Power[n]
    <3>3. HashOf(t) = Append1(HashOf(f), b) /\ ValueOf(t) = v * Base + b
      BY <3>2, HashAppend, ValueAppend
    <3>4. /\ p \in Nat \ {0} /\ p < Mod /\ Power[n + 1] = Base * p /\ Power[n + 1] <= size
          /\ b \in Nat /\ b < Base
      BY WordFacts
    <3>5. v \in 0..(p - 1) /\ HashOf(f) = v % Mod
      BY <1>3, <3>1
    <3> HIDE DEF v, p, size
    <3>6. HashOf(f) = v
      <4>1. v \in 0..(Mod - 1)
        BY <1>1, <3>4, <3>5, SMT
      <4> QED
        BY <1>1, <3>5, <4>1, ModSmall
    <3>7. v * Base \in Nat /\ v * Base + b < Base * p
      <4>1. v \in Nat /\ p \in Nat /\ v + 1 <= p
        BY <3>4, <3>5, SMT
      <4>2. Base * (v + 1) <= Base * p
        BY <1>1, <4>1, SMT
      <4>3. Base * (v + 1) = v * Base + Base /\ v * Base \in Nat
        BY <1>1, <4>1, SMT
      <4> QED
        BY <1>1, <3>4, <4>1, <4>2, <4>3, SMT
    <3> DEFINE x == v * Base
               y == x + b
    <3>8. x \in 0..(size - 1) /\ y \in 0..(size - 1) /\ y \in 0..(Power[n + 1] - 1)
      <4>1. x \in Nat /\ y < Power[n + 1] /\ y = x + b
        BY <3>4, <3>7
      <4>2. Power[n + 1] \in Nat
        BY <2>1, PowerGrows
      <4> HIDE DEF x, y
      <4> QED
        BY <1>1, <3>4, <4>1, <4>2, SMT
    <3>9. Word(x) = x /\ Word(y) = y
      BY <1>1, <3>8, ModSmall DEF Word, size
    <3>10. Append1(v, b) = y % Mod
      BY <3>9 DEF Append1
    <3> QED
      BY <3>3, <3>6, <3>8, <3>10
  <2> QED
    BY <2>1, <2>2
<1>4. 0..WordBytes \subseteq T
  <2> HIDE DEF T
  <2> QED
    BY <1>1, <1>2, <1>3, IntervalInduction
<1>5. Len(s) \in 0..WordBytes
  BY <1>1, SMT
<1> QED
  BY <1>4, <1>5

(* A sequence of one byte.                                                  *)
LEMMA OneByte ==
  ASSUME NEW t \in Seq(CkBytes), Len(t) = 1
  PROVE  t = Append(<<>>, t[1]) /\ t[1] \in CkBytes /\ Tail(t) = <<>> /\ <<>> \in Seq(CkBytes)
<1> DEFINE c == t[1]
<1>1. c \in CkBytes /\ Tail(t) \in Seq(CkBytes) /\ Len(Tail(t)) = 0
  BY SMT
<1>2. \A e \in Seq(CkBytes) : Len(e) = 0 => e = <<>>
  BY SMT
<1>3. Tail(t) = <<>> /\ <<>> \in Seq(CkBytes)
  BY <1>1, <1>2
<1> HIDE DEF c
<1>4. /\ Append(<<>>, c) \in Seq(CkBytes) /\ Len(Append(<<>>, c)) = 1
      /\ Append(<<>>, c)[1] = c
  BY <1>1, SMT
<1>5. t = Append(<<>>, c)
  BY <1>4, SMT DEF c
<1> QED
  BY <1>1, <1>3, <1>5 DEF c

(* The first byte's share of the number.                                    *)
LEMMA ValueTail ==
  ASSUME NEW s \in Seq(CkBytes), Len(s) \in 1..WordBytes
  PROVE  ValueOf(s) = s[1] * Power[Len(s) - 1] + ValueOf(Tail(s))
<1> DEFINE T == {n \in 0..(WordBytes - 1) : \A t \in Seq(CkBytes) :
                   Len(t) = n + 1 => ValueOf(t) = t[1] * Power[n] + ValueOf(Tail(t))}
<1>1. WordBytes \in Nat \ {0} /\ Base \in Nat /\ \A b \in CkBytes : b \in Nat
  BY WordFacts
<1>2. 0 \in T
  <2>1. ASSUME NEW t \in Seq(CkBytes), Len(t) = 1
        PROVE  ValueOf(t) = t[1] * Power[0] + ValueOf(Tail(t))
    <3>1. t = Append(<<>>, t[1]) /\ t[1] \in CkBytes /\ Tail(t) = <<>> /\ <<>> \in Seq(CkBytes)
      BY <2>1, OneByte
    <3>2. ValueOf(t) = ValueOf(<<>>) * Base + t[1]
      BY <3>1, ValueAppend
    <3>3. ValueOf(t) = t[1]
      BY <1>1, <3>1, <3>2, OfNothing, SMT
    <3>4. ValueOf(Tail(t)) = 0 /\ Power[0] = 1 /\ t[1] \in Nat
      BY <1>1, <3>1, OfNothing, PowerIs
    <3> DEFINE c == t[1]
    <3> HIDE DEF c
    <3>5. c = c * 1 + 0
      BY <3>4, SMT DEF c
    <3> QED
      BY <3>3, <3>4, <3>5 DEF c
  <2> QED
    BY <1>1, <2>1, SMT
<1>3. ASSUME NEW n \in 0..((WordBytes - 1) - 1), n \in T PROVE n + 1 \in T
  <2>1. n \in Nat /\ n + 1 \in 0..(WordBytes - 1) /\ n + 1 \in Nat /\ n \in 0..(WordBytes - 1)
    BY <1>1, SMT
  <2>2. ASSUME NEW t \in Seq(CkBytes), Len(t) = (n + 1) + 1
        PROVE  ValueOf(t) = t[1] * Power[n + 1] + ValueOf(Tail(t))
    <3>1. PICK f \in Seq(CkBytes) : \E b \in CkBytes : t = Append(f, b) /\ Len(f) = n + 1
      BY <2>1, <2>2, LastByte
    <3>2. PICK b \in CkBytes : t = Append(f, b)
      BY <3>1
    <3>3. /\ Tail(f) \in Seq(CkBytes) /\ Len(Tail(f)) = n /\ f[1] \in CkBytes /\ t[1] = f[1]
          /\ Tail(t) \in Seq(CkBytes) /\ Append(Tail(f), b) \in Seq(CkBytes)
          /\ Len(Tail(t)) = n + 1 /\ Len(Append(Tail(f), b)) = n + 1
      BY <2>1, <3>1, <3>2, SMT
    <3>4. \A i \in 1..(n + 1) : Tail(t)[i] = Append(Tail(f), b)[i]
      BY <2>1, <3>1, <3>2, <3>3, SMT
    <3>5. Tail(t) = Append(Tail(f), b)
      BY <3>3, <3>4, SMT
    <3> DEFINE a == f[1]
               u == ValueOf(Tail(f))
               p == Power[n]
    <3>6. ValueOf(t) = ValueOf(f) * Base + b /\ ValueOf(Tail(t)) = u * Base + b
      BY <3>2, <3>3, <3>5, ValueAppend
    <3>7. ValueOf(f) = a * p + u
      BY <1>3, <3>1
    <3>8. Power[n + 1] = Base * p /\ p \in Nat
      BY <2>1, WordFacts
    <3>9. a \in Nat /\ b \in Nat /\ Base \in Nat
      BY <1>1, <3>3
    <3>10. u \in Nat
      <4>1. n <= WordBytes /\ Power[n] \in Nat
        BY <1>1, <2>1, <3>8, SMT
      <4>2. u \in 0..(Power[n] - 1)
        BY <3>3, <4>1, HashOfWord
      <4> QED
        BY <4>1, <4>2, SMT
    <3> HIDE DEF a, u, p
    <3>11. (a * p + u) * Base + b = a * (Base * p) + (u * Base + b)
      BY <3>8, <3>9, <3>10, SMT
    <3> QED
      BY <3>3, <3>6, <3>7, <3>8, <3>11 DEF a
  <2> QED
    BY <2>1, <2>2
<1>4. 0..(WordBytes - 1) \subseteq T
  <2>1. WordBytes - 1 \in Nat
    BY <1>1, SMT
  <2> HIDE DEF T
  <2> QED
    BY <1>2, <1>3, <2>1, IntervalInduction
<1>5. Len(s) - 1 \in 0..(WordBytes - 1) /\ Len(s) = (Len(s) - 1) + 1
  BY <1>1, SMT
<1> QED
  BY <1>4, <1>5

-----------------------------------------------------------------------------
(* push, and the invariant.                                                 *)

(* push takes the first byte of a full window that fits a word out of the   *)
(* hash, and nothing else.                                                  *)
LEMMA EvictIs ==
  ASSUME NEW s \in Seq(CkBytes), Len(s) \in 1..WordBytes
  PROVE  Evict(HashOf(s), s[1], Len(s)) = HashOf(Tail(s))
<1> DEFINE n == Len(s)
           b == s[1]
           p == Power[n - 1]
           u == ValueOf(Tail(s))
           v == ValueOf(s)
           c == b * p
           e == c % Mod
           h == v % Mod
           size == Power[WordBytes]
<1>1. /\ Mod \in Nat \ {0} /\ size \in Nat \ {0} /\ 2 * Mod <= size
      /\ WordBytes \in Nat \ {0} /\ Base \in Nat /\ Base > 1
  BY WordFacts
<1>2. n \in Nat \ {0} /\ n - 1 \in 0..(WordBytes - 1) /\ (n - 1) + 1 = n /\ n <= WordBytes
  BY <1>1, SMT
<1>3. b \in CkBytes /\ Tail(s) \in Seq(CkBytes) /\ Len(Tail(s)) = n - 1
  BY <1>2, SMT
<1>4. b \in Nat /\ b < Base
  BY <1>3, WordFacts
<1>5. p \in Nat \ {0} /\ p < Mod /\ Base * p <= size
  BY <1>2, WordFacts
<1>6. u \in 0..(p - 1) /\ HashOf(Tail(s)) = u % Mod
  <2> DEFINE r == Tail(s)
  <2>1. r \in Seq(CkBytes) /\ Len(r) = n - 1 /\ Len(r) <= WordBytes
    BY <1>1, <1>2, <1>3, SMT
  <2> HIDE DEF r, n
  <2>2. ValueOf(r) \in 0..(Power[Len(r)] - 1) /\ HashOf(r) = ValueOf(r) % Mod
    BY <2>1, HashOfWord
  <2> QED
    BY <2>1, <2>2 DEF r
<1>7. v = c + u /\ HashOf(s) = h
  BY <1>2, ValueTail, HashOfWord
<1>8. Pow(n) = p
  BY <1>2, PowIs
<1>9. Evict(HashOf(s), s[1], Len(s)) = Word(h + Mod - (Word(c) % Mod)) % Mod
  BY <1>7, <1>8 DEF Evict
<1> HIDE DEF n, b, p, u, v, size
<1>10. c \in Nat /\ c < size
  <2>1. b * p <= (Base - 1) * p
    BY <1>1, <1>4, <1>5, SMT
  <2>2. (Base - 1) * p = Base * p - p /\ b * p \in Nat
    BY <1>1, <1>4, <1>5, SMT
  <2> QED
    BY <1>1, <1>5, <2>1, <2>2, SMT
<1> HIDE DEF c
<1>11. Word(c) = c
  <2>1. c \in 0..(size - 1)
    BY <1>1, <1>10, SMT
  <2> QED
    BY <1>1, <2>1, ModSmall DEF Word, size
<1> DEFINE q1 == v \div Mod
           q2 == c \div Mod
<1>12. h \in 0..(Mod - 1) /\ q1 \in Int /\ v = Mod * q1 + h
  <2>1. v \in Int
    BY <1>5, <1>6, <1>7, <1>10, SMT
  <2> QED
    BY <1>1, <2>1, SMT
<1>13. e \in 0..(Mod - 1) /\ q2 \in Int /\ c = Mod * q2 + e
  BY <1>1, <1>10, SMT
<1> HIDE DEF h, e, q1, q2
<1> DEFINE x == h + Mod - e
<1>14. x \in 0..(size - 1) /\ x \in Int
  BY <1>1, <1>12, <1>13, SMT
<1>15. x = Mod * ((q2 - q1) + 1) + u
  <2>1. x = (v - Mod * q1) + Mod - (c - Mod * q2)
    BY <1>1, <1>10, <1>12, <1>13, SMT
  <2>2. u \in Int /\ v = c + u
    BY <1>5, <1>6, <1>7, SMT
  <2>3. Mod * ((q2 - q1) + 1) = Mod * q2 - Mod * q1 + Mod
    BY <1>1, <1>12, <1>13, SMT
  <2> QED
    BY <1>1, <1>10, <1>12, <1>13, <2>1, <2>2, <2>3, SMT
<1>16. Word(x) = x
  BY <1>1, <1>14, ModSmall DEF Word, size
<1>17. u \in 0..(Mod - 1)
  BY <1>1, <1>5, <1>6, SMT
<1>18. x % Mod = u
  <2> DEFINE q == (q2 - q1) + 1
  <2>1. q \in Int
    BY <1>12, <1>13, SMT
  <2> HIDE DEF x, q
  <2>2. x = Mod * q + u
    BY <1>15 DEF q
  <2> QED
    BY <1>1, <1>14, <1>17, <2>1, <2>2, ModIs
<1>19. HashOf(Tail(s)) = u
  BY <1>1, <1>6, <1>17, ModSmall
<1> QED
  BY <1>9, <1>11, <1>16, <1>18, <1>19 DEF e

(* Of a window beyond a word push takes nothing out.                        *)
LEMMA EvictsNothing ==
  ASSUME NEW w \in Nat, w > WordBytes, NEW h \in 0..(Mod - 1), NEW b \in CkBytes
  PROVE  Evict(h, b, w) = h
<1> DEFINE size == Power[WordBytes]
<1>1. /\ Mod \in Nat \ {0} /\ size \in Nat \ {0} /\ 2 * Mod <= size /\ WordBytes \in Nat
      /\ b \in Nat
  BY WordFacts
<1>2. Pow(w) = 0
  <2>1. w \in Nat \ {0} /\ ~(w <= WordBytes)
    BY <1>1, SMT
  <2> QED
    BY <2>1, PowIs
<1>3. b * Pow(w) = 0
  BY <1>1, <1>2, SMT
<1> HIDE DEF size
<1>4. 0 \in 0..(size - 1) /\ 0 \in 0..(Mod - 1) /\ h + Mod \in 0..(size - 1) /\ h + Mod - 0 = h + Mod
  BY <1>1, SMT
<1>5. Word(0) = 0 /\ 0 % Mod = 0 /\ Word(h + Mod) = h + Mod
  BY <1>1, <1>4, ModSmall DEF Word, size
<1>6. (h + Mod) % Mod = h
  <2> DEFINE x == h + Mod
  <2>1. x \in Int /\ x = Mod * 1 + h
    BY <1>1, SMT
  <2> HIDE DEF x
  <2>2. x % Mod = h
    BY <1>1, <2>1, ModIs, SMT
  <2> QED
    BY <2>2 DEF x
<1> QED
  BY <1>3, <1>4, <1>5, <1>6 DEF Evict

(* normalize leaves no window that is not positive.                         *)
LEMMA NormalizedWindow ==
  ASSUME NEW p \in CkRequests
  PROVE  Normalize(p).window \in Nat \ {0}
<1> DEFINE given == [k \in DOMAIN p |-> IF p[k] <= 0 THEN CkDefaults[k] ELSE p[k]]
           avg == IF given.min > given.avg THEN given.min ELSE given.avg
           max == IF avg > given.max THEN avg ELSE given.max
<1>1. /\ DOMAIN p = {"min", "avg", "max", "window"} /\ p.window \in Int
      /\ CkDefaults.window \in Nat \ {0}
  BY CkAssumption DEF ParamsOf
<1>2. given.window \in Nat \ {0} /\ DOMAIN given = {"min", "avg", "max", "window"}
  BY <1>1, SMT
<1>3. Normalize(p) = [given EXCEPT !.avg = avg, !.max = max]
  BY DEF Normalize
<1> HIDE DEF given, avg, max
<1> QED
  BY <1>2, <1>3

(* Each step keeps the hash that of the bytes it should cover.              *)
LEMMA HashStep ==
  ASSUME CkTypeOK, CkHashOK, [CkNext]_ckVars
  PROVE  CkHashOK'
<1>1. ASSUME NEW p \in CkRequests, NewRabinChunker(p) PROVE CkHashOK'
  <2>1. p # CkNil
    BY CkAssumption
  <2>2. /\ ckRequest = CkNil /\ ckRequest' = p /\ ckParams' = Normalize(p)
        /\ ckInput' = ckInput /\ ckHash' = ckHash /\ ckWindow' = ckWindow
    BY <1>1 DEF NewRabinChunker
  <2>3. ckWindow' = <<>> /\ ckInput' = <<>> /\ ckHash' = 0 /\ ckWindow' \in Seq(CkBytes)
    BY <2>2 DEF CkHashOK
  <2>4. Len(ckWindow') <= ckParams'.window
    <3> DEFINE w == Normalize(p).window
    <3>1. w \in Nat \ {0}
      BY NormalizedWindow
    <3> HIDE DEF w
    <3>2. Len(ckWindow') = 0
      BY <2>3
    <3>3. 0 <= w
      BY <3>1, SMT
    <3> QED
      BY <2>2, <3>2, <3>3 DEF w
  <2>5. HashCovers'
    BY <2>3, OfNothing DEF HashCovers
  <2> QED
    BY <2>1, <2>2, <2>3, <2>4, <2>5 DEF CkHashOK
<1>2. ASSUME NEW b \in CkBytes, NextByte(b) PROVE CkHashOK'
  <2> DEFINE w == ckParams.window
             full == Len(ckWindow) = w
             kept == IF full THEN Tail(ckWindow) ELSE ckWindow
             left == IF full THEN Evict(ckHash, ckWindow[1], w) ELSE ckHash
  <2>1. /\ ckRequest # CkNil /\ ckRequest' = ckRequest /\ ckParams' = ckParams
        /\ ckInput' = Append(ckInput, b)
    BY <1>2 DEF NextByte, Reading, CkTypeOK
  <2>2. ckWindow' = Append(kept, b) /\ ckHash' = Append1(left, b)
    BY <1>2 DEF NextByte, Push
  <2>3. w \in Nat \ {0} /\ ckInput \in Seq(CkBytes)
    BY <2>1, NormalizedWindow DEF CkTypeOK
  <2>4. ckWindow \in Seq(CkBytes) /\ Len(ckWindow) <= w
    BY <2>1 DEF CkHashOK
  <2>5. ckHash = HashOf(IF w <= WordBytes THEN ckWindow ELSE ckInput)
    BY <2>1 DEF CkHashOK, HashCovers
  <2> HIDE DEF w
  <2>6. full => ckWindow[1] \in CkBytes /\ Tail(ckWindow) \in Seq(CkBytes)
                /\ Len(Tail(ckWindow)) = w - 1
    BY <2>3, <2>4, SMT
  <2>7. kept \in Seq(CkBytes) /\ Len(kept) < w
    <3>1. CASE full
      BY <2>3, <2>6, <3>1, SMT
    <3>2. CASE ~full
      BY <2>3, <2>4, <3>2, SMT
    <3> QED
      BY <3>1, <3>2
  <2>8. left = HashOf(IF w <= WordBytes THEN kept ELSE ckInput)
    <3>1. CASE full /\ w <= WordBytes
      <4>1. Len(ckWindow) \in 1..WordBytes
        BY <2>3, <3>1, WordFacts, SMT
      <4>2. Evict(HashOf(ckWindow), ckWindow[1], Len(ckWindow)) = HashOf(Tail(ckWindow))
        BY <2>4, <4>1, EvictIs
      <4> QED
        BY <2>5, <3>1, <4>2
    <3>2. CASE full /\ ~(w <= WordBytes)
      <4>1. w \in Nat /\ w > WordBytes
        BY <2>3, <3>2, WordFacts, SMT
      <4>2. ckHash \in 0..(Mod - 1)
        BY <2>3, <2>5, <3>2, HashRange
      <4>3. Evict(ckHash, ckWindow[1], w) = ckHash
        BY <2>6, <3>2, <4>1, <4>2, EvictsNothing
      <4> QED
        BY <2>5, <3>2, <4>3
    <3>3. CASE ~full
      BY <2>5, <3>3
    <3> QED
      BY <3>1, <3>2, <3>3
  <2> HIDE DEF kept, left, full
  <2>9. ckWindow' \in Seq(CkBytes) /\ Len(ckWindow') <= w
    BY <2>2, <2>3, <2>7, SMT
  <2>10. ckHash' = HashOf(IF w <= WordBytes THEN ckWindow' ELSE ckInput')
    <3>1. CASE w <= WordBytes
      BY <2>2, <2>7, <2>8, <3>1, HashAppend
    <3>2. CASE ~(w <= WordBytes)
      BY <2>1, <2>2, <2>3, <2>8, <3>2, HashAppend
    <3> QED
      BY <3>1, <3>2
  <2>11. ckParams'.window = w
    BY <2>1 DEF w
  <2>12. HashCovers'
    BY <2>10, <2>11 DEF HashCovers
  <2> QED
    BY <2>1, <2>9, <2>11, <2>12 DEF CkHashOK
<1>3. CASE UNCHANGED <<ckRequest, ckParams, ckInput, ckHash, ckWindow>>
  BY <1>3 DEF CkHashOK, HashCovers
<1> QED
  BY <1>1, <1>2, <1>3 DEF CkNext, NextEof, NextReadError, ckVars

(* Which bytes a cut depends on: with a window that fits a word, the last   *)
(* "window" bytes alone; with any longer one, the default of 64 included,   *)
(* everything read so far, for newRollingHash's power has become 0.         *)
THEOREM HashCoversWindowOrAll == CkSpec => []HashCovers
<1>1. CkInit => CkHashOK
  <2> SUFFICES ASSUME CkInit PROVE CkHashOK
    OBVIOUS
  <2>1. ckRequest = CkNil /\ ckWindow = <<>> /\ ckInput = <<>> /\ ckHash = 0
    BY DEF CkInit
  <2>2. ckWindow \in Seq(CkBytes)
    BY <2>1, SMT
  <2> QED
    BY <2>1, <2>2 DEF CkHashOK, HashCovers
<1>2. CkTypeOK /\ CkHashOK /\ [CkNext]_ckVars => CkHashOK'
  BY HashStep
<1>3. CkIndInv => CkTypeOK
  BY DEF CkIndInv
<1>4. CkHashOK => HashCovers
  BY DEF CkHashOK
<1> QED
  BY <1>1, <1>2, <1>3, <1>4, ChunkerInvariant, PTL DEF CkSpec

(* A window of up to 8 bytes rolls as ChunkHashWindow says: appendByte's    *)
(* hash is that of the bytes in the window and of no others.                *)
THEOREM ShortWindowsRoll == CkSpec => []ShortWindowRolls
<1>1. HashCovers => ShortWindowRolls
  BY DEF HashCovers, ShortWindowRolls
<1> QED
  BY <1>1, HashCoversWindowOrAll, PTL

=============================================================================
