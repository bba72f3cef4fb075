------------------------ MODULE HelloGoodbye_proofs ------------------------
(***************************************************************************)
(* Proofs about HelloGoodbye: TypeOK and GoodbyeInTime, for every value of *)
(* the parameters and every width of the float.                            *)
(*                                                                         *)
(* The first part is arithmetic: Pow2 is recursive, so what it computes is *)
(* proved by induction, which is taken from the well-foundedness of < as   *)
(* a statement about a set (Induct).  From it: a float holds every tick    *)
(* below 2^MantissaBits, and rounds no later one to below it.  The second  *)
(* is the inductive invariant; its part about time, OneSpeaks, says where  *)
(* a goodbye has got at every tick before the last.                        *)
(***************************************************************************)
EXTENDS HelloGoodbye, TLAPS, WellFoundedInduction, FiniteSetTheorems

(* The relation that WellFoundedInduction makes of < is <.                 *)
LEMMA Smaller == ASSUME NEW x \in Nat, NEW y \in Nat
                 PROVE  <<x, y>> \in OpToRel(<, Nat) <=> x < y
  BY DEF OpToRel

(* Every set of natural numbers but the empty one has a least element.     *)
LEMMA Least == ASSUME NEW T, T \subseteq Nat, T # {}
               PROVE  \E x \in T : \A y \in T : x <= y
<1> DEFINE R == OpToRel(<, Nat)
<1>1. IsWellFoundedOn(R, Nat)
  BY NatLessThanWellFounded
<1>2. \A x, y \in Nat : <<x, y>> \in R <=> x < y
  BY Smaller
<1> HIDE DEF R
<1>3. PICK x \in T : \A y \in T : ~ (<<y, x>> \in R)
  BY <1>1, WFMin
<1>4. ASSUME NEW y \in T PROVE x <= y
  <2>1. x \in Nat /\ y \in Nat
    OBVIOUS
  <2>2. ~ (<<y, x>> \in R)
    BY <1>3
  <2>3. ~ (y < x)
    BY <2>1, <2>2, <1>2
  <2> QED
    BY <2>1, <2>3
<1> QED
  BY <1>4

(* Induction over the natural numbers, stated of a set.                    *)
LEMMA Induct == ASSUME NEW S, 0 \in S, \A n \in Nat : n \in S => n + 1 \in S
                PROVE  Nat \subseteq S
<1> SUFFICES ASSUME NEW m \in Nat, m \notin S
             PROVE  FALSE
  OBVIOUS
<1> DEFINE T == {n \in Nat : n \notin S}
<1>1. PICK x \in T : \A y \in T : x <= y
  <2>1. T \subseteq Nat /\ T # {}
    OBVIOUS
  <2> HIDE DEF T
  <2> QED
    BY <2>1, Least
<1>2. x \in Nat \ {0} /\ x \notin S
  OBVIOUS
<1>3. x - 1 \in Nat /\ x = (x - 1) + 1
  BY <1>2
<1>4. x - 1 \notin S
  BY <1>2, <1>3
<1>5. x - 1 \in T
  BY <1>3, <1>4
<1>6. x <= x - 1
  BY <1>1, <1>5
<1> QED
  BY <1>2, <1>6

(* The tables of the first powers of 2, up to the n-th.                    *)
Tables(n) == {g \in [0 .. n -> Nat] : /\ g[0] = 1
                                      /\ \A i \in 1 .. n : g[i] = 2 * g[i - 1]}

(* There is such a table for every n, by induction.                        *)
LEMMA TablesExist == \A n \in Nat : Tables(n) # {}
<1> DEFINE S == {n \in Nat : Tables(n) # {}}
<1>1. 0 \in S
  <2>1. [i \in 0 .. 0 |-> 1] \in Tables(0)
    BY DEF Tables
  <2> QED
    BY <2>1
<1>2. ASSUME NEW n \in S PROVE n + 1 \in S
  <2>1. PICK g : g \in Tables(n)
    OBVIOUS
  <2>2. n \in Nat /\ g \in [0 .. n -> Nat] /\ g[0] = 1 /\ (\A i \in 1 .. n : g[i] = 2 * g[i - 1])
    BY <2>1 DEF Tables
  <2> DEFINE h == [i \in 0 .. n + 1 |-> IF i = n + 1 THEN 2 * g[n] ELSE g[i]]
  <2>3. g[n] \in Nat
    BY <2>2
  <2>4. h \in [0 .. n + 1 -> Nat] /\ h[0] = 1
    BY <2>2, <2>3
  <2>5. ASSUME NEW i \in 1 .. n + 1 PROVE h[i] = 2 * h[i - 1]
    <3>1. CASE i = n + 1
      BY <3>1, <2>2
    <3>2. CASE i \in 1 .. n
      <4>1. i - 1 # n + 1 /\ i # n + 1 /\ i - 1 \in 0 .. n + 1 /\ i \in 0 .. n + 1
        BY <3>2, <2>2
      <4> QED
        BY <4>1, <3>2, <2>2
    <3> QED
      BY <3>1, <3>2, <2>2
  <2>6. h \in Tables(n + 1)
    BY <2>4, <2>5 DEF Tables
  <2> QED
    BY <2>2, <2>6
<1>3. \A n \in Nat : n \in S => n + 1 \in S
  BY <1>2
<1> HIDE DEF S
<1>4. Nat \subseteq S
  BY <1>1, <1>3, Induct
<1> QED
  BY <1>4 DEF S

(* Two tables agree where both have an entry.                              *)
LEMMA TablesAgree ==
  ASSUME NEW m \in Nat, NEW n \in Nat, NEW g \in Tables(m), NEW h \in Tables(n)
  PROVE  \A i \in Nat : i <= m /\ i <= n => g[i] = h[i]
<1> DEFINE S == {i \in Nat : i <= m /\ i <= n => g[i] = h[i]}
<1>1. 0 \in S
  BY DEF Tables
<1>2. ASSUME NEW i \in Nat, i \in S PROVE i + 1 \in S
  <2>1. ASSUME i + 1 <= m, i + 1 <= n PROVE g[i + 1] = h[i + 1]
    <3>1. i + 1 \in 1 .. m /\ i + 1 \in 1 .. n /\ (i + 1) - 1 = i
      BY <2>1
    <3>2. g[i + 1] = 2 * g[i] /\ h[i + 1] = 2 * h[i]
      BY <3>1 DEF Tables
    <3>3. g[i] = h[i]
      BY <1>2, <2>1
    <3> QED
      BY <3>2, <3>3
  <2> QED
    BY <2>1
<1>3. \A i \in Nat : i \in S => i + 1 \in S
  BY <1>2
<1> HIDE DEF S
<1>4. Nat \subseteq S
  BY <1>1, <1>3, Induct
<1> QED
  BY <1>4 DEF S

(* The recursion of Pow2 defines a function: the one that takes the n-th   *)
(* entry of a table for n.                                                 *)
LEMMA PowIs == /\ Pow2 \in [Nat -> Nat]
               /\ \A n \in Nat : Pow2[n] = IF n = 0 THEN 1 ELSE 2 * Pow2[n - 1]
<1> DEFINE table(n) == CHOOSE g : g \in Tables(n)
<1>1. \A n \in Nat : table(n) \in Tables(n)
  BY TablesExist
<1> DEFINE f == [n \in Nat |-> table(n)[n]]
<1>2. \A n \in Nat : f[n] \in Nat
  BY <1>1 DEF Tables
<1>3. f[0] = 1
  BY <1>1 DEF Tables
<1>4. ASSUME NEW n \in Nat, n # 0 PROVE f[n] = 2 * f[n - 1]
  <2>1. n - 1 \in Nat /\ n - 1 <= n /\ n \in 1 .. n
    BY <1>4
  <2>2. table(n) \in Tables(n) /\ table(n - 1) \in Tables(n - 1)
    BY <1>1, <2>1
  <2>3. f[n] = table(n)[n] /\ f[n - 1] = table(n - 1)[n - 1]
    BY <2>1
  <2> HIDE DEF f, table
  <2>4. table(n)[n] = 2 * table(n)[n - 1]
    BY <2>1, <2>2 DEF Tables
  <2>5. table(n)[n - 1] = table(n - 1)[n - 1]
    BY <2>1, <2>2, TablesAgree
  <2> QED
    BY <2>3, <2>4, <2>5
<1> HIDE DEF table
<1>5. f = [n \in Nat |-> IF n = 0 THEN 1 ELSE 2 * f[n - 1]]
  BY <1>3, <1>4
<1> HIDE DEF f
<1>6. Pow2 = [n \in Nat |-> IF n = 0 THEN 1 ELSE 2 * Pow2[n - 1]]
  BY <1>5 DEF Pow2
<1> DEFINE S == {n \in Nat : Pow2[n] \in Nat}
<1>7. Nat \subseteq S
  <2>1. 0 \in S
    BY <1>6
  <2>2. ASSUME NEW n \in Nat, n \in S PROVE n + 1 \in S
    <3>1. Pow2[n + 1] = 2 * Pow2[(n + 1) - 1] /\ (n + 1) - 1 = n
      BY <1>6
    <3> QED
      BY <3>1, <2>2
  <2>3. \A n \in Nat : n \in S => n + 1 \in S
    BY <2>2
  <2> HIDE DEF S
  <2> QED
    BY <2>1, <2>3, Induct
<1> QED
  BY <1>6, <1>7

(* Powers of 2 are positive.                                               *)
LEMMA PowPositive == \A n \in Nat : Pow2[n] \in Nat \ {0}
<1> DEFINE S == {n \in Nat : Pow2[n] \in Nat \ {0}}
<1>1. 0 \in S
  BY PowIs
<1>2. ASSUME NEW n \in Nat, n \in S PROVE n + 1 \in S
  <2>1. Pow2[n + 1] = 2 * Pow2[(n + 1) - 1] /\ (n + 1) - 1 = n
    BY PowIs
  <2> QED
    BY <2>1, <1>2
<1>3. \A n \in Nat : n \in S => n + 1 \in S
  BY <1>2
<1> HIDE DEF S
<1>4. Nat \subseteq S
  BY <1>1, <1>3, Induct
<1> QED
  BY <1>4 DEF S

(* Each is twice the one before.                                           *)
LEMMA PowNext == \A n \in Nat : Pow2[n + 1] = 2 * Pow2[n]
<1> TAKE n \in Nat
<1>1. n + 1 \in Nat /\ n + 1 # 0 /\ (n + 1) - 1 = n
  OBVIOUS
<1> QED
  BY <1>1, PowIs

(* The power of a sum is the product of the powers.                        *)
LEMMA PowAdd == \A a, b \in Nat : Pow2[a + b] = Pow2[a] * Pow2[b]
<1> SUFFICES ASSUME NEW a \in Nat PROVE \A b \in Nat : Pow2[a + b] = Pow2[a] * Pow2[b]
  OBVIOUS
<1> DEFINE S == {b \in Nat : Pow2[a + b] = Pow2[a] * Pow2[b]}
<1>1. 0 \in S
  <2>1. Pow2[0] = 1 /\ Pow2[a] \in Nat /\ a + 0 = a
    BY PowIs
  <2> QED
    BY <2>1
<1>2. ASSUME NEW b \in Nat, b \in S PROVE b + 1 \in S
  <2>1. a + (b + 1) = (a + b) + 1 /\ a + b \in Nat
    OBVIOUS
  <2>2. Pow2[a + (b + 1)] = 2 * Pow2[a + b] /\ Pow2[b + 1] = 2 * Pow2[b]
    BY <2>1, PowNext
  <2>3. Pow2[a] \in Nat /\ Pow2[b] \in Nat
    BY PowPositive
  <2>4. 2 * (Pow2[a] * Pow2[b]) = Pow2[a] * (2 * Pow2[b])
    BY <2>3
  <2> QED
    BY <2>2, <2>4, <1>2
<1>3. \A b \in Nat : b \in S => b + 1 \in S
  BY <1>2
<1> HIDE DEF S
<1>4. Nat \subseteq S
  BY <1>1, <1>3, Induct
<1> QED
  BY <1>4 DEF S

(* The n-th power is above n, so that every tick has a spacing.            *)
LEMMA PowAbove == \A n \in Nat : n < Pow2[n]
<1> DEFINE S == {n \in Nat : n < Pow2[n]}
<1>1. 0 \in S
  BY PowIs
<1>2. ASSUME NEW n \in Nat, n \in S PROVE n + 1 \in S
  BY <1>2, PowNext, PowPositive
<1>3. \A n \in Nat : n \in S => n + 1 \in S
  BY <1>2
<1> HIDE DEF S
<1>4. Nat \subseteq S
  BY <1>1, <1>3, Induct
<1> QED
  BY <1>4 DEF S

(* Powers grow.                                                            *)
LEMMA PowGrows == \A a, b \in Nat : Pow2[a + b] >= Pow2[a] /\ Pow2[a + b] >= Pow2[b]
<1> TAKE a, b \in Nat
<1>1. Pow2[a] \in Nat \ {0} /\ Pow2[b] \in Nat \ {0}
  BY PowPositive
<1>2. \A x, y \in Nat \ {0} : x * y >= x /\ x * y >= y
  OBVIOUS
<1> QED
  BY <1>1, <1>2, PowAdd

(* 2^e is the distance of the floats around t, if they have no fraction.   *)
Fits(t, e) == /\ t < Pow2[MantissaBits + e]
              /\ \A d \in 0 .. e - 1 : t >= Pow2[MantissaBits + d]

(* Spacing chooses an exponent that fits.                                  *)
LEMMA SpacingIs == ASSUME NEW t \in Nat
                   PROVE  \E e \in 0 .. t : Fits(t, e) /\ Spacing(t) = Pow2[e]
<1> USE ParameterAssumption
<1> DEFINE T == {e \in Nat : t < Pow2[MantissaBits + e]}
<1>1. t \in T
  BY PowAbove, PowGrows, PowPositive
<1>2. PICK e \in T : \A d \in T : e <= d
  <2>1. T \subseteq Nat /\ T # {}
    BY <1>1
  <2> HIDE DEF T
  <2> QED
    BY <2>1, Least
<1>3. e \in 0 .. t /\ t < Pow2[MantissaBits + e]
  BY <1>1, <1>2
<1>4. ASSUME NEW d \in 0 .. e - 1 PROVE t >= Pow2[MantissaBits + d]
  <2>1. d \in Nat /\ MantissaBits + d \in Nat /\ ~ (e <= d)
    BY <1>3
  <2>2. d \notin T
    BY <2>1, <1>2
  <2>3. Pow2[MantissaBits + d] \in Nat
    BY <2>1, PowPositive
  <2> QED
    BY <2>1, <2>2, <2>3
<1>5. Fits(t, e)
  BY <1>3, <1>4 DEF Fits
<1> HIDE DEF T
<1> DEFINE c == CHOOSE x \in 0 .. t : Fits(t, x)
<1>6. c \in 0 .. t /\ Fits(t, c)
  BY <1>3, <1>5
<1>7. Spacing(t) = Pow2[c]
  BY DEF Spacing, Fits
<1> QED
  BY <1>6, <1>7

(* A float holds every tick below 2^MantissaBits.                          *)
LEMMA FloatExact == ASSUME NEW t \in Nat, t < Pow2[MantissaBits]
                    PROVE  Float(t) = t
<1> USE ParameterAssumption
<1>1. PICK e \in 0 .. t : Fits(t, e) /\ Spacing(t) = Pow2[e]
  BY SpacingIs
<1>2. e = 0
  <2> SUFFICES ASSUME e # 0 PROVE FALSE
    OBVIOUS
  <2>1. t >= Pow2[MantissaBits + 0] /\ MantissaBits + 0 = MantissaBits
    BY <1>1 DEF Fits
  <2>2. Pow2[MantissaBits] \in Nat
    BY PowPositive
  <2> QED
    BY <2>1, <2>2
<1>3. Spacing(t) = 1
  BY <1>1, <1>2, PowIs
<1>4. t \div 1 = t /\ t % 1 = 0
  OBVIOUS
<1> QED
  BY <1>3, <1>4 DEF Float

(* The float of a tick is a tick, and rounding takes none from             *)
(* 2^MantissaBits or above to below it.                                    *)
LEMMA FloatLarge == ASSUME NEW t \in Nat
                    PROVE  /\ Float(t) \in Nat
                           /\ t >= Pow2[MantissaBits] => Float(t) >= Pow2[MantissaBits]
<1> USE ParameterAssumption
<1>1. PICK e \in 0 .. t : Fits(t, e) /\ Spacing(t) = Pow2[e]
  BY SpacingIs
<1> DEFINE s == Spacing(t)
           q == t \div s
<1>2. s \in Nat \ {0}
  BY <1>1, PowPositive
<1>3. q \in Nat /\ t = q * s + (t % s) /\ t % s \in 0 .. s - 1
  <2> HIDE DEF s
  <2> QED
    BY <1>2
<1>4. Float(t) = (q + 1) * s \/ Float(t) = q * s
  BY DEF Float
<1>5. Float(t) \in Nat /\ Float(t) >= q * s
  <2> HIDE DEF s, q
  <2> QED
    BY <1>2, <1>3, <1>4
<1>6. ASSUME t >= Pow2[MantissaBits] PROVE q * s >= Pow2[MantissaBits]
  <2>1. e # 0
    BY <1>1, <1>6, PowPositive DEF Fits
  <2>2. t >= Pow2[MantissaBits + (e - 1)]
    BY <1>1, <2>1 DEF Fits
  <2>3. MantissaBits + (e - 1) = (MantissaBits - 1) + e /\ MantissaBits - 1 \in Nat /\ e \in Nat /\ e - 1 \in Nat
    BY <2>1
  <2> DEFINE p == Pow2[MantissaBits - 1]
  <2>8. p * s = Pow2[MantissaBits + (e - 1)]
    BY <2>3, <1>1, PowAdd
  <2>4. t >= p * s
    <3> HIDE DEF p, s
    <3> QED
      BY <2>2, <2>8
  <2>5. p \in Nat
    BY <2>3, PowPositive
  <2>6. q >= p
    <3> SUFFICES ASSUME q + 1 <= p PROVE FALSE
      <4> HIDE DEF p, q
      <4> QED
        BY <1>3, <2>5
    <3> HIDE DEF p, q, s
    <3>1. (q + 1) * s <= p * s
      BY <2>5, <1>2, <1>3
    <3>2. (q + 1) * s = q * s + s
      BY <1>2, <1>3
    <3>3. q * s \in Nat /\ p * s \in Nat
      BY <2>5, <1>2, <1>3
    <3> QED
      BY <3>1, <3>2, <3>3, <1>2, <1>3, <2>4
  <2>7. q * s >= p * s
    <3> HIDE DEF p, q, s
    <3> QED
      BY <2>5, <2>6, <1>2, <1>3
  <2>9. Pow2[MantissaBits + (e - 1)] >= Pow2[MantissaBits]
    BY <2>3, PowGrows
  <2>10. q * s \in Nat /\ p * s \in Nat /\ Pow2[MantissaBits] \in Nat
    <3>1. Pow2[MantissaBits] \in Nat
      BY PowPositive
    <3> HIDE DEF p, q, s
    <3> QED
      BY <2>5, <1>2, <1>3, <3>1
  <2> HIDE DEF p, q, s
  <2> QED
    BY <2>7, <2>8, <2>9, <2>10
<1> QED
  <2>1. Pow2[MantissaBits] \in Nat /\ q * s \in Nat
    <3>1. Pow2[MantissaBits] \in Nat
      BY PowPositive
    <3> HIDE DEF q, s
    <3> QED
      BY <1>2, <1>3, <3>1
  <2> HIDE DEF q, s
  <2> QED
    BY <1>5, <1>6, <2>1
---------------------------------------------------------------------------
(* The byte copied last.                                                   *)
Last == buffer[Len(buffer)]

(* The types; a goodbye that is scheduled has a message to copy.           *)
TypeInv ==
    /\ config \in Configs
    /\ status \in {"new", "running", "aborted", "goodbye", "limit reached"}
    /\ now \in Nat /\ exits \subseteq Nat
    /\ DOMAIN scheduled \subseteq Objects \cup {Goodbye}
    /\ \A e \in DOMAIN scheduled : scheduled[e] \in Nat
    /\ message \in Objects \cup {NoMessage}
    /\ Goodbye \in DOMAIN scheduled => message \in Objects
    /\ timesLeft \in [Objects -> Int]
    /\ DOMAIN spoken \subseteq Objects

(* The part of TypeOK about the order of the bytes.                        *)
InOrder ==
    \A k \in 1 .. Len(buffer) :
       IF k = 1 \/ buffer[k - 1][2] = Length(buffer[k - 1][1])
       THEN buffer[k][2] = 1
       ELSE buffer[k] = <<buffer[k - 1][1], buffer[k - 1][2] + 1>>

(* The buffer is in order and, as long as it is not full, ends with a      *)
(* whole message: that is why the next copy may begin with a first byte.   *)
BufferInv ==
    /\ buffer \in Seq(Objects \X Nat)
    /\ Len(buffer) <= Full
    /\ InOrder
    /\ 0 < Len(buffer) /\ Len(buffer) < Full => Last[2] = Length(Last[1])

(* What startup() finds.                                                   *)
Fresh ==
    status = "new" => /\ scheduled = << >> /\ spoken = << >> /\ now = 0
                      /\ \A h \in Objects : timesLeft[h] = config.hellos[h].fires

(* No event is left behind.                                                *)
Ordered ==
    /\ \A e \in DOMAIN scheduled : now <= scheduled[e]
    /\ \A t \in exits : now <= t

(* A HelloObject that is to fire has not spoken; the tick is the latency   *)
(* times the firings up to that one.                                       *)
Firing ==
    \A h \in Objects \cap DOMAIN scheduled :
       /\ h \notin DOMAIN spoken
       /\ timesLeft[h] <= config.hellos[h].fires
       /\ timesLeft[h] = config.hellos[h].fires \/ timesLeft[h] > 0
       /\ scheduled[h] = config.hellos[h].latency * (config.hellos[h].fires - timesLeft[h] + 1)

(* How often a HelloObject fires before it speaks.                         *)
Firings(h) == IF config.hellos[h].fires < 1 THEN 1 ELSE config.hellos[h].fires

(* When those spoke that have.                                             *)
Spoke == \A h \in DOMAIN spoken : spoken[h] = config.hellos[h].latency * Firings(h)

(* Before anyone speaks the GoodbyeObject does nothing.                    *)
Silent ==
    DOMAIN spoken = {} => /\ buffer = << >> /\ exits = {} /\ Goodbye \notin DOMAIN scheduled
                          /\ status \notin {"aborted", "goodbye"}

(* The tick x is that at which the bytes copied so far have all passed, if *)
(* h alone spoke and a float holds that tick; else no float below holds    *)
(* it.                                                                     *)
Due(h, x) == LET t == spoken[h] + config.bandwidth * Len(buffer)
             IN  IF t < Pow2[MantissaBits] THEN x = t ELSE x >= Pow2[MantissaBits]

(* Where the goodbye of h, who alone spoke, has got: what is scheduled and *)
(* the exit are due, and never both.                                       *)
InTime(h) ==
    /\ status # "aborted"
    /\ Goodbye \in DOMAIN scheduled => exits = {} /\ Due(h, scheduled[Goodbye])
    /\ \A x \in exits : Due(h, x) /\ Len(buffer) = Full
    /\ status = "goodbye" => Len(buffer) = Full /\ now = spoken[h] + config.bandwidth * Full

(* GoodbyeInTime, said of every state on the way.                          *)
OneSpeaks == \A h \in Objects : DOMAIN spoken = {h} /\ now < Pow2[MantissaBits] => InTime(h)

(* The inductive invariant.                                                *)
Inv == /\ TypeInv /\ BufferInv /\ Fresh /\ Ordered /\ Firing /\ Spoke /\ Silent /\ OneSpeaks
---------------------------------------------------------------------------
(* The values of the parameters.                                           *)
LEMMA ConfigIs ==
  ASSUME config \in Configs
  PROVE  /\ Objects \subseteq {1, 2}
         /\ config.bufferSize \in Nat /\ config.bandwidth \in Nat
         /\ \A h \in Objects : /\ config.hellos[h].latency \in Nat
                               /\ config.hellos[h].fires \in Int
                               /\ Length(h) \in Nat \ {0}
<1> USE ParameterAssumption
<1>1. config.bufferSize \in Nat /\ config.bandwidth \in Nat
  <2>1. \A V, H, B, W : \A c \in [version : V, hellos : H, bufferSize : B, bandwidth : W] :
           c.bufferSize \in B /\ c.bandwidth \in W
    OBVIOUS
  <2>2. \/ config.bufferSize \in {0} /\ config.bandwidth \in {0}
        \/ config.bufferSize \in BufferSizes /\ config.bandwidth \in Bandwidths
    <3>1. CASE config \in [version : {"helloobject", "events"}, hellos : [{1} -> Hellos],
                           bufferSize : {0}, bandwidth : {0}]
      BY <3>1, <2>1
    <3>2. CASE config \in [version : {"parameters"}, hellos : [{1} -> Hellos] \cup [{1, 2} -> Hellos],
                           bufferSize : BufferSizes, bandwidth : Bandwidths]
      BY <3>2, <2>1
    <3> QED
      BY <3>1, <3>2 DEF Configs
  <2>3. BufferSizes \subseteq Nat /\ Bandwidths \subseteq Nat /\ 0 \in Nat
    OBVIOUS
  <2> QED
    BY ONLY <2>2, <2>3
<1>2. config.hellos \in [{1} -> Hellos] \/ config.hellos \in [{1, 2} -> Hellos]
  BY DEF Configs
<1>3. \A r \in Hellos : r.latency \in Nat /\ r.fires \in Int /\ r.length \in Nat \ {0}
  BY DEF Hellos
<1> QED
  BY <1>1, <1>2, <1>3 DEF Objects, Length

(* The room in the buffer.                                                 *)
LEMMA FullIs == ASSUME config \in Configs PROVE Full \in Nat
  BY ConfigIs DEF Full

(* With adds one entry and keeps the others.                               *)
LEMMA WithIs ==
  ASSUME NEW f, NEW x, NEW v
  PROVE  /\ DOMAIN With(f, x, v) = DOMAIN f \cup {x}
         /\ With(f, x, v)[x] = v
         /\ \A y \in DOMAIN f : y # x => With(f, x, v)[y] = f[y]
  BY DEF With

(* Without drops one entry and keeps the others.                           *)
LEMMA WithoutIs ==
  ASSUME NEW f, NEW x
  PROVE  /\ DOMAIN Without(f, x) = DOMAIN f \ {x}
         /\ \A y \in DOMAIN Without(f, x) : Without(f, x)[y] = f[y]
  BY DEF Without

(* What fillBuffer copies: never beyond the room, the whole message unless *)
(* the buffer is then full, and it goes on exactly while there is room.    *)
LEMMA CopyIs ==
  ASSUME config \in Configs, BufferInv, NEW h \in Objects
  PROVE  /\ Copied(h) \in Nat /\ Copied(h) <= Length(h)
         /\ Len(buffer) \in Nat
         /\ Len(buffer) + Copied(h) <= Full
         /\ Len(buffer) + Copied(h) < Full => Copied(h) = Length(h)
         /\ More(Len(buffer) + Copied(h)) => Len(buffer) + Copied(h) < Full
         /\ ~ More(Len(buffer) + Copied(h)) => Len(buffer) + Copied(h) = Full
<1>1. config.bufferSize \in Nat /\ Length(h) \in Nat \ {0}
  BY ConfigIs
<1>2. Len(buffer) \in Nat /\ Len(buffer) <= Full
  BY DEF BufferInv
<1> QED
  BY SMTT(30), <1>1, <1>2 DEF Copied, More, Full

(* The elements of a sequence with n more behind it.                       *)
LEMMA Appended ==
  ASSUME NEW S, NEW s \in Seq(S), NEW n \in Nat, NEW f, \A k \in 1 .. n : f[k] \in S,
         NEW r, r = s \o [k \in 1 .. n |-> f[k]]
  PROVE  /\ r \in Seq(S)
         /\ Len(r) = Len(s) + n /\ Len(s) \in Nat
         /\ \A k \in 1 .. Len(s) : r[k] = s[k]
         /\ \A k \in 1 .. n : r[Len(s) + k] = f[k]
<1> DEFINE g == [k \in 1 .. n |-> f[k]]
<1>1. g \in Seq(S) /\ Len(g) = n /\ \A k \in 1 .. n : g[k] = f[k]
  OBVIOUS
<1> HIDE DEF g
<1>2. r = s \o g
  BY DEF g
<1> QED
  BY <1>1, <1>2

(* fillBuffer keeps the order of the bytes.                                *)
LEMMA FillKeepsBuffer ==
  ASSUME config \in Configs, UNCHANGED config, BufferInv, NEW h \in Objects, NEW t, NEW pending,
         FillBuffer(h, t, pending)
  PROVE  /\ BufferInv'
         /\ Len(buffer)' = Len(buffer) + Copied(h)
         /\ Len(buffer) \in Nat
<1> DEFINE n == Copied(h)
           f == [k \in 1 .. n |-> <<h, k>>]
<1>1. /\ n \in Nat /\ n <= Length(h) /\ Len(buffer) \in Nat
      /\ Len(buffer) + n <= Full
      /\ Len(buffer) + n < Full => n = Length(h)
  BY CopyIs
<1>2. buffer' = buffer \o f
  BY DEF FillBuffer
<1>3. Objects' = Objects /\ Full' = Full /\ (\A x : Length(x)' = Length(x)) /\ Length(h) \in Nat \ {0} /\ Full \in Nat
  BY ConfigIs, FullIs DEF Objects, Full, Length
<1> HIDE DEF n
<1>4. \A k \in 1 .. n : f[k] = <<h, k>> /\ f[k] \in Objects \X Nat
  BY <1>1
<1>5. buffer \in Seq(Objects \X Nat)
  BY DEF BufferInv
<1>6. /\ buffer' \in Seq(Objects \X Nat)
      /\ Len(buffer') = Len(buffer) + n
      /\ \A k \in 1 .. Len(buffer) : buffer'[k] = buffer[k]
      /\ \A k \in 1 .. n : buffer'[Len(buffer) + k] = <<h, k>>
  <2>1. f = [k \in 1 .. n |-> f[k]]
    OBVIOUS
  <2> HIDE DEF f
  <2>2. buffer' = buffer \o [k \in 1 .. n |-> f[k]]
    BY <2>1, <1>2
  <2> QED
    BY <1>1, <1>4, <1>5, <2>2, Appended
<1> HIDE DEF f
<1>7. InOrder'
  <2> SUFFICES ASSUME NEW k \in 1 .. Len(buffer')
               PROVE  IF k = 1 \/ buffer'[k - 1][2] = Length(buffer'[k - 1][1])
                      THEN buffer'[k][2] = 1
                      ELSE buffer'[k] = <<buffer'[k - 1][1], buffer'[k - 1][2] + 1>>
    BY <1>3 DEF InOrder
  <2>1. CASE k <= Len(buffer)
    <3>1. k \in 1 .. Len(buffer) /\ (k # 1 => k - 1 \in 1 .. Len(buffer))
      BY <2>1, <1>1, <1>6
    <3>2. buffer'[k] = buffer[k] /\ (k # 1 => buffer'[k - 1] = buffer[k - 1])
      BY <3>1, <1>6
    <3> QED
      BY <3>1, <3>2 DEF BufferInv, InOrder
  <2>2. CASE k = Len(buffer) + 1
    <3>1. n >= 1
      BY <2>2, <1>1, <1>6
    <3>2. buffer'[k] = <<h, 1>>
      BY <2>2, <3>1, <1>1, <1>6
    <3>3. CASE k = 1
      BY <3>2, <3>3
    <3>4. CASE k # 1
      <4>1. k - 1 = Len(buffer) /\ Len(buffer) \in 1 .. Len(buffer) /\ Len(buffer) < Full
        BY <3>1, <3>4, <2>2, <1>1, <1>3
      <4>2. buffer'[k - 1] = Last
        BY <4>1, <1>6 DEF Last
      <4>3. Last[2] = Length(Last[1])
        BY <4>1, <1>1 DEF BufferInv
      <4> QED
        BY <3>2, <4>2, <4>3
    <3> QED
      BY <3>3, <3>4
  <2>3. CASE k > Len(buffer) + 1
    <3> DEFINE j == k - Len(buffer)
    <3>1. j \in 2 .. n /\ j - 1 \in 1 .. n /\ j \in 1 .. n /\ k = Len(buffer) + j /\ k - 1 = Len(buffer) + (j - 1)
      BY SMTT(30), <2>3, <1>1, <1>6
    <3> HIDE DEF j
    <3>2. buffer'[k] = <<h, j>> /\ buffer'[k - 1] = <<h, j - 1>>
      BY <3>1, <1>6
    <3>3. j - 1 # Length(h) /\ k # 1 /\ j = (j - 1) + 1
      BY <3>1, <1>1, <1>3
    <3> QED
      BY <3>2, <3>3
  <2>4. k <= Len(buffer) \/ k = Len(buffer) + 1 \/ k > Len(buffer) + 1
    BY <1>1, <1>6
  <2> QED
    BY <2>1, <2>2, <2>3, <2>4, Zenon
<1>8. ASSUME 0 < Len(buffer'), Len(buffer') < Full
      PROVE  buffer'[Len(buffer')][2] = Length(buffer'[Len(buffer')][1])
  <2>1. n = Length(h) /\ n \in 1 .. n
    BY <1>8, <1>6, <1>1, <1>3
  <2>2. buffer'[Len(buffer')] = <<h, n>>
    BY <2>1, <1>6
  <2> QED
    BY <2>1, <2>2
<1>9. BufferInv'
  BY <1>1, <1>3, <1>6, <1>7, <1>8 DEF BufferInv, Last
<1> QED
  BY <1>1, <1>6, <1>9 DEF n
---------------------------------------------------------------------------
(* The tick at which a copy is over: exact where a float holds it, else    *)
(* 2^MantissaBits or later.                                                *)
LEMMA CopyTimeIs ==
  ASSUME config \in Configs, NEW t \in Nat, NEW n \in Nat
  PROVE  /\ CopyTime(t, n) \in Nat
         /\ t < Pow2[MantissaBits] =>
               LET u == t + config.bandwidth * n
               IN  /\ u \in Nat /\ t <= u
                   /\ IF u < Pow2[MantissaBits] THEN CopyTime(t, n) = u
                      ELSE CopyTime(t, n) >= Pow2[MantissaBits]
<1>1. config.bandwidth \in Nat /\ Float(t) \in Nat /\ Float(n) \in Nat /\ Pow2[MantissaBits] \in Nat
  BY ConfigIs, FloatLarge, PowPositive, ParameterAssumption
<1> DEFINE m == config.bandwidth * n
           r == config.bandwidth * Float(n)
           f == Float(r)
<1>2. m \in Nat /\ r \in Nat
  BY SMTT(30), <1>1
<1>3. f \in Nat /\ CopyTime(t, n) = Float(Float(t) + f)
  BY <1>2, FloatLarge DEF CopyTime
(* The product is exact where a float holds it, and else not below        *)
(* 2^MantissaBits.                                                         *)
<1>4. IF m < Pow2[MantissaBits] THEN f = m ELSE f >= Pow2[MantissaBits]
  <2>1. CASE n < Pow2[MantissaBits]
    <3>1. r = m
      BY <2>1, FloatExact
    <3>2. m < Pow2[MantissaBits] => Float(m) = m
      BY <1>2, FloatExact
    <3>3. m >= Pow2[MantissaBits] => Float(m) >= Pow2[MantissaBits]
      BY <1>2, FloatLarge
    <3> HIDE DEF m, r
    <3> QED
      BY <1>1, <1>2, <3>1, <3>2, <3>3
  <2>2. CASE n >= Pow2[MantissaBits] /\ config.bandwidth = 0
    <3>1. m = 0 /\ r = 0
      BY <1>1, <2>2
    <3>2. Pow2[MantissaBits] > 0
      BY PowPositive, ParameterAssumption
    <3>3. Float(0) = 0
      BY <3>2, FloatExact
    <3> HIDE DEF m, r
    <3> QED
      BY <3>1, <3>2, <3>3
  <2>3. CASE n >= Pow2[MantissaBits] /\ config.bandwidth # 0
    <3>1. Float(n) >= Pow2[MantissaBits]
      BY <2>3, FloatLarge
    <3>2. \A b, x \in Nat : b # 0 => b * x >= x
      BY SMTT(30)
    <3>3. m >= n /\ r >= Float(n)
      BY <1>1, <2>3, <3>2
    <3> HIDE DEF m, r
    <3>4. m >= Pow2[MantissaBits] /\ r >= Pow2[MantissaBits]
      BY <1>1, <1>2, <2>3, <3>1, <3>3
    <3>5. f >= Pow2[MantissaBits]
      BY <1>2, <3>4, FloatLarge
    <3> HIDE DEF f
    <3> QED
      BY <1>1, <1>2, <3>4, <3>5
  <2> QED
    BY <1>1, <2>1, <2>2, <2>3
<1> HIDE DEF m, r, f
<1>5. CopyTime(t, n) \in Nat
  BY <1>1, <1>3, FloatLarge
<1>6. ASSUME t < Pow2[MantissaBits]
      PROVE  /\ t + m \in Nat /\ t <= t + m
             /\ IF t + m < Pow2[MantissaBits] THEN CopyTime(t, n) = t + m
                ELSE CopyTime(t, n) >= Pow2[MantissaBits]
  <2>1. CopyTime(t, n) = Float(t + f)
    BY <1>3, <1>6, FloatExact
  <2>2. t + m \in Nat /\ t <= t + m /\ t + f \in Nat
    BY <1>2, <1>3
  <2>3. IF t + m < Pow2[MantissaBits] THEN t + f = t + m ELSE t + f >= Pow2[MantissaBits]
    BY <1>1, <1>2, <1>3, <1>4
  <2>4. t + f < Pow2[MantissaBits] => Float(t + f) = t + f
    BY <2>2, FloatExact
  <2>5. t + f >= Pow2[MantissaBits] => Float(t + f) >= Pow2[MantissaBits]
    BY <2>2, FloatLarge
  <2> QED
    BY <1>1, <2>1, <2>2, <2>3, <2>4, <2>5
<1> QED
  BY <1>5, <1>6 DEF m

(* fillBuffer aborts, schedules the next copy or the exit.                 *)
LEMMA FillIs ==
  ASSUME config \in Configs, BufferInv, NEW h \in Objects, NEW t \in Nat, NEW pending,
         FillBuffer(h, t, pending)
  PROVE  LET when == CopyTime(t, Copied(h))
         IN  /\ when \in Nat /\ message' = h
             /\ \/ /\ status' = "aborted" /\ scheduled' = pending /\ exits' = exits
                   /\ when < t \/ Goodbye \in DOMAIN pending
                \/ /\ status' = status /\ scheduled' = With(pending, Goodbye, when) /\ exits' = exits
                   /\ when >= t
                \/ /\ status' = status /\ scheduled' = pending /\ exits' = exits \cup {when}
                   /\ when >= t /\ Len(buffer) + Copied(h) = Full
<1> DEFINE n == Copied(h)
           when == CopyTime(t, n)
<1>1. n \in Nat /\ (~ More(Len(buffer) + n) => Len(buffer) + n = Full)
  BY CopyIs
<1>2. when \in Nat
  BY <1>1, CopyTimeIs
<1>3. /\ message' = h
      /\ IF when < t \/ (More(Len(buffer) + n) /\ Goodbye \in DOMAIN pending)
         THEN status' = "aborted" /\ scheduled' = pending /\ UNCHANGED exits
         ELSE IF More(Len(buffer) + n)
         THEN scheduled' = With(pending, Goodbye, when) /\ UNCHANGED <<status, exits>>
         ELSE exits' = exits \cup {when} /\ scheduled' = pending /\ UNCHANGED status
  BY DEF FillBuffer
<1> HIDE DEF n, when
<1>4. when < t \/ when >= t
  BY <1>2
<1>5. /\ when \in Nat /\ message' = h
      /\ \/ /\ status' = "aborted" /\ scheduled' = pending /\ exits' = exits
            /\ when < t \/ Goodbye \in DOMAIN pending
         \/ /\ status' = status /\ scheduled' = With(pending, Goodbye, when) /\ exits' = exits
            /\ when >= t
         \/ /\ status' = status /\ scheduled' = pending /\ exits' = exits \cup {when}
            /\ when >= t /\ Len(buffer) + n = Full
  BY <1>1, <1>2, <1>3, <1>4
<1> QED
  BY <1>5 DEF n, when

(* fillBuffer leaves the events of the HelloObjects alone and puts none    *)
(* before the present tick.                                                *)
LEMMA FillKeepsEvents ==
  ASSUME config \in Configs, BufferInv, NEW h \in Objects, NEW t \in Nat, NEW pending,
         \A y \in DOMAIN pending : pending[y] \in Nat /\ t <= pending[y],
         exits \subseteq Nat, \A x \in exits : t <= x,
         FillBuffer(h, t, pending)
  PROVE  /\ status' \in {status, "aborted"} /\ message' = h
         /\ exits' \subseteq Nat /\ \A x \in exits' : t <= x
         /\ DOMAIN scheduled' \subseteq DOMAIN pending \cup {Goodbye}
         /\ \A y \in DOMAIN scheduled' : /\ scheduled'[y] \in Nat /\ t <= scheduled'[y]
                                         /\ y # Goodbye => y \in DOMAIN pending /\ scheduled'[y] = pending[y]
<1> DEFINE when == CopyTime(t, Copied(h))
<1>1. /\ when \in Nat /\ message' = h
      /\ \/ /\ status' = "aborted" /\ scheduled' = pending /\ exits' = exits
            /\ when < t \/ Goodbye \in DOMAIN pending
         \/ /\ status' = status /\ scheduled' = With(pending, Goodbye, when) /\ exits' = exits
            /\ when >= t
         \/ /\ status' = status /\ scheduled' = pending /\ exits' = exits \cup {when}
            /\ when >= t /\ Len(buffer) + Copied(h) = Full
  BY FillIs
<1> HIDE DEF when
<1>2. CASE scheduled' = pending
  BY <1>1, <1>2
<1>3. CASE scheduled' = With(pending, Goodbye, when) /\ exits' = exits /\ when >= t /\ status' = status
  <2> DEFINE f == With(pending, Goodbye, when)
  <2>0. /\ DOMAIN f = DOMAIN pending \cup {Goodbye}
        /\ f[Goodbye] = when
        /\ \A y \in DOMAIN pending : y # Goodbye => f[y] = pending[y]
    BY DEF With
  <2> HIDE DEF f
  <2>1. /\ DOMAIN scheduled' = DOMAIN pending \cup {Goodbye}
        /\ scheduled'[Goodbye] = when
        /\ \A y \in DOMAIN pending : y # Goodbye => scheduled'[y] = pending[y]
    BY <1>3, <2>0 DEF f
  <2> QED
    BY <1>1, <1>3, <2>1
<1> QED
  BY <1>1, <1>2, <1>3

(* A copy that begins in time, for the one that spoke, neither aborts nor  *)
(* schedules anything too early or too late.                               *)
LEMMA FillInTime ==
  ASSUME config \in Configs, UNCHANGED config, BufferInv, NEW h \in Objects, NEW t \in Nat, NEW pending,
         FillBuffer(h, t, pending), status = "running", exits = {}, Goodbye \notin DOMAIN pending,
         t < Pow2[MantissaBits],
         NEW k, spoken'[k] \in Nat, t = spoken'[k] + config.bandwidth * Len(buffer)
  PROVE  InTime(k)'
<1> DEFINE n == Copied(h)
           u == spoken'[k] + config.bandwidth * Len(buffer')
<1>1. n \in Nat /\ Len(buffer) \in Nat /\ Len(buffer') = Len(buffer) + n
  BY CopyIs, FillKeepsBuffer
<1>2. config' = config /\ config.bandwidth \in Nat /\ Full' = Full /\ Pow2[MantissaBits] \in Nat
  BY ConfigIs, PowPositive, ParameterAssumption DEF Full
<1>3. u = t + config.bandwidth * n
  <2>1. config.bandwidth * (Len(buffer) + n) = config.bandwidth * Len(buffer) + config.bandwidth * n
    BY <1>1, <1>2
  <2>2. config.bandwidth * Len(buffer) \in Nat /\ config.bandwidth * n \in Nat
    BY SMTT(30), <1>1, <1>2
  <2> QED
    BY <2>1, <2>2, <1>1
<1> PICK when : when = CopyTime(t, n)
  OBVIOUS
<1>4. /\ u \in Nat /\ t <= u
      /\ IF u < Pow2[MantissaBits] THEN when = u ELSE when >= Pow2[MantissaBits]
  BY <1>1, <1>3, CopyTimeIs
<1>5. /\ when \in Nat /\ message' = h
      /\ \/ /\ status' = "aborted" /\ scheduled' = pending /\ exits' = exits
            /\ when < t \/ Goodbye \in DOMAIN pending
         \/ /\ status' = status /\ scheduled' = With(pending, Goodbye, when) /\ exits' = exits
            /\ when >= t
         \/ /\ status' = status /\ scheduled' = pending /\ exits' = exits \cup {when}
            /\ when >= t /\ Len(buffer) + n = Full
  BY FillIs
<1>6. Due(k, when)'
  BY <1>2, <1>4 DEF Due
<1> HIDE DEF n, u
<1>7. ~ (when < t)
  BY <1>2, <1>4, <1>5
<1>8. CASE scheduled' = With(pending, Goodbye, when) /\ exits' = exits /\ status' = status
  <2> DEFINE f == With(pending, Goodbye, when)
  <2>0. f[Goodbye] = when
    BY DEF With
  <2> HIDE DEF f
  <2>1. scheduled'[Goodbye] = when
    BY <1>8, <2>0 DEF f
  <2> QED
    BY <1>6, <1>8, <2>1 DEF InTime
<1>9. CASE status' = status /\ scheduled' = pending /\ exits' = exits \cup {when} /\ Len(buffer) + n = Full
  BY <1>1, <1>2, <1>6, <1>9 DEF InTime
<1> QED
  BY <1>5, <1>7, <1>8, <1>9
---------------------------------------------------------------------------
(* The initial states satisfy the invariant.                               *)
LEMMA InitInv == Init => Inv
<1> SUFFICES ASSUME Init PROVE Inv
  OBVIOUS
<1>1. /\ config \in Configs /\ status = "new" /\ now = 0 /\ scheduled = << >> /\ exits = {}
      /\ timesLeft = [h \in Objects |-> config.hellos[h].fires]
      /\ message = NoMessage /\ buffer = << >> /\ spoken = << >>
  BY DEF Init, Objects
<1>2. DOMAIN scheduled = {} /\ DOMAIN spoken = {} /\ Len(buffer) = 0
  BY <1>1
<1>3. Full \in Nat /\ \A h \in Objects : config.hellos[h].fires \in Int
  BY <1>1, ConfigIs, FullIs
<1>4. TypeInv
  BY <1>1, <1>2, <1>3 DEF TypeInv
<1>5. BufferInv
  <2>1. buffer \in Seq(Objects \X Nat) /\ Len(buffer) = 0
    BY <1>1
  <2> QED
    BY <2>1, <1>3 DEF BufferInv, InOrder
<1>6. Fresh
  BY <1>1 DEF Fresh
<1>7. Ordered /\ Firing /\ Spoke
  BY <1>1, <1>2 DEF Ordered, Firing, Spoke
<1>8. Silent
  BY <1>1, <1>2 DEF Silent
<1>9. OneSpeaks
  BY <1>2 DEF OneSpeaks
<1> QED
  BY <1>4, <1>5, <1>6, <1>7, <1>8, <1>9 DEF Inv

(* startup() keeps the invariant.                                          *)
LEMMA StartupKeepsInv == Inv /\ Startup => Inv'
<1> SUFFICES ASSUME Inv, Startup PROVE Inv'
  OBVIOUS
<1> USE DEF Inv
<1>1. /\ status = "new" /\ status' = "running" /\ UNCHANGED <<config, now, exits, timesLeft, message, buffer, spoken>>
      /\ scheduled' = << >> \/ scheduled' = [h \in Objects |-> config.hellos[h].latency]
  BY DEF Startup
<1>2. now = 0 /\ DOMAIN spoken = {} /\ (\A h \in Objects : timesLeft[h] = config.hellos[h].fires)
  BY <1>1 DEF Fresh
<1>3. /\ DOMAIN scheduled' = {} \/ DOMAIN scheduled' = Objects
      /\ \A h \in DOMAIN scheduled' : scheduled'[h] = config.hellos[h].latency
  BY <1>1
<1>4. /\ Objects' = Objects /\ Full' = Full /\ (\A x : Length(x)' = Length(x))
      /\ Objects \subseteq {1, 2} /\ Goodbye \notin Objects
      /\ \A h \in Objects : config.hellos[h].latency \in Nat /\ config.hellos[h].fires \in Int
  BY <1>1, ConfigIs DEF TypeInv, Objects, Full, Length, Goodbye
<1>5. TypeInv'
  BY <1>1, <1>3, <1>4 DEF TypeInv
<1>6. BufferInv'
  BY <1>1, <1>4 DEF BufferInv, InOrder, Last
<1>7. Fresh' /\ Spoke' /\ OneSpeaks'
  BY <1>1, <1>2 DEF Fresh, Spoke, OneSpeaks
<1>8. Ordered'
  <2>1. exits' = {} /\ now' = 0
    BY <1>1, <1>2 DEF Silent
  <2>2. \A e \in DOMAIN scheduled' : 0 <= scheduled'[e]
    BY <1>3, <1>4
  <2> QED
    BY <2>1, <2>2 DEF Ordered
<1>9. Firing'
  <2> SUFFICES ASSUME NEW h \in Objects, h \in DOMAIN scheduled'
               PROVE  scheduled'[h] = config.hellos[h].latency * (config.hellos[h].fires - timesLeft[h] + 1)
    BY <1>1, <1>2, <1>4 DEF Firing
  <2>1. \A x \in Nat, y \in Int : x = x * (y - y + 1)
    OBVIOUS
  <2> QED
    BY <1>2, <1>3, <1>4, <2>1
<1>10. Silent'
  BY <1>1, <1>3, <1>4 DEF Silent
<1> QED
  BY <1>5, <1>6, <1>7, <1>8, <1>9, <1>10

(* The exit event keeps the invariant: it is served at the tick that was   *)
(* due.                                                                    *)
LEMMA ServeExitKeepsInv == Inv /\ ServeExit => Inv'
<1> SUFFICES ASSUME Inv, ServeExit PROVE Inv'
  OBVIOUS
<1> USE DEF Inv
<1>1. /\ status = "running" /\ status' = "goodbye"
      /\ UNCHANGED <<config, scheduled, exits, timesLeft, message, buffer, spoken>>
      /\ now' \in exits /\ (\A u \in exits : now' <= u) /\ (\A u \in Ticks : now' < u)
  BY DEF ServeExit
<1>2. /\ Objects' = Objects /\ Full' = Full /\ (\A x : Length(x)' = Length(x)) /\ (\A x : Firings(x)' = Firings(x))
  BY <1>1 DEF Objects, Full, Length, Firings
<1>3. TypeInv'
  BY <1>1, <1>2 DEF TypeInv
<1>4. BufferInv'
  BY <1>1, <1>2 DEF BufferInv, InOrder, Last
<1>5. Fresh' /\ Spoke' /\ Firing'
  BY <1>1, <1>2 DEF Fresh, Spoke, Firing
<1>6. Ordered'
  BY <1>1 DEF Ordered, Ticks, TypeInv
<1>7. Silent'
  BY <1>1 DEF Silent
<1>8. OneSpeaks'
  <2> SUFFICES ASSUME NEW h \in Objects, DOMAIN spoken = {h}, now' < Pow2[MantissaBits]
               PROVE  InTime(h)'
    BY <1>1, <1>2 DEF OneSpeaks
  <2>1. now < Pow2[MantissaBits]
    BY <1>1, PowPositive, ParameterAssumption DEF Ordered, TypeInv
  <2>2. InTime(h)
    BY <2>1 DEF OneSpeaks
  <2>3. Due(h, now') /\ Len(buffer) = Full
    BY <1>1, <2>2 DEF InTime
  <2>4. now' = spoken[h] + config.bandwidth * Full
    <3>1. now' \in Nat /\ Pow2[MantissaBits] \in Nat
      BY <1>1, PowPositive, ParameterAssumption DEF TypeInv
    <3> QED
      BY <2>3, <3>1 DEF Due
  <2>5. \A x : Due(h, x)' = Due(h, x')
    BY <1>1 DEF Due
  <2>6. Goodbye \in DOMAIN scheduled => exits = {} /\ Due(h, scheduled[Goodbye])'
    BY <1>1, <2>2 DEF InTime, Due
  <2>7. \A x \in exits : Due(h, x)'
    BY <1>1, <2>2 DEF InTime, Due
  <2> QED
    BY <1>1, <1>2, <2>2, <2>3, <2>4, <2>6, <2>7 DEF InTime
<1> QED
  BY <1>3, <1>4, <1>5, <1>6, <1>7, <1>8

(* simulate() without events, and stuttering, keep the invariant.          *)
LEMMA StandKeepsInv == ASSUME Inv, UNCHANGED <<config, now, scheduled, exits, timesLeft, message, buffer, spoken>>,
                              \/ UNCHANGED status
                              \/ /\ status = "running" /\ status' = "limit reached"
                       PROVE  Inv'
<1> USE DEF Inv
<1>1. /\ Objects' = Objects /\ Full' = Full /\ (\A x : Length(x)' = Length(x)) /\ (\A x : Firings(x)' = Firings(x))
  BY DEF Objects, Full, Length, Firings
<1>2. TypeInv'
  BY <1>1 DEF TypeInv
<1>3. BufferInv'
  BY <1>1 DEF BufferInv, InOrder, Last
<1>4. Fresh' /\ Spoke' /\ Firing'
  BY <1>1 DEF Fresh, Spoke, Firing
<1>5. Ordered' /\ Silent'
  BY <1>1 DEF Ordered, Silent
<1>6. OneSpeaks'
  BY <1>1 DEF OneSpeaks, InTime, Due
<1> QED
  BY <1>2, <1>3, <1>4, <1>5, <1>6

(* What holds of any event that is served.                                 *)
LEMMA ServeIs ==
  ASSUME Inv, NEW e \in DOMAIN scheduled, Serve(e)
  PROVE  /\ status = "running" /\ config' = config
         /\ now' = scheduled[e] /\ now' \in Nat /\ now <= now'
         /\ \A y \in DOMAIN scheduled : scheduled[y] \in Nat /\ now' <= scheduled[y]
         /\ \A x \in exits : now' <= x
         /\ e \in Objects \cup {Goodbye}
         /\ Objects' = Objects /\ Full' = Full
         /\ \A h \in Objects : Firings(h)' = Firings(h)
         /\ Objects \subseteq {1, 2} /\ Goodbye \notin Objects
<1>1. /\ status = "running" /\ config' = config /\ now' = scheduled[e]
      /\ \A y \in Ticks \cup exits : scheduled[e] <= y
  BY DEF Serve
<1>2. \A y \in DOMAIN scheduled : scheduled[y] \in Ticks
  BY DEF Ticks
<1> QED
  BY <1>1, <1>2, ConfigIs DEF Inv, TypeInv, Ordered, Objects, Full, Firings, Goodbye

(* GoodbyeObject::processEvent keeps the invariant.                        *)
LEMMA ProcessGoodbyeKeepsInv ==
  ASSUME Inv, Goodbye \in DOMAIN scheduled, Serve(Goodbye)
  PROVE  Inv'
<1> USE DEF Inv
<1> PICK t : t = scheduled[Goodbye]
  OBVIOUS
<1> PICK pending : pending = Without(scheduled, Goodbye)
  OBVIOUS
<1>1. /\ status = "running" /\ config' = config
      /\ now' = t /\ t \in Nat /\ now <= t
      /\ \A y \in DOMAIN scheduled : scheduled[y] \in Nat /\ t <= scheduled[y]
      /\ \A x \in exits : t <= x
      /\ Objects' = Objects /\ Full' = Full
      /\ \A h \in Objects : Firings(h)' = Firings(h)
      /\ Goodbye \notin Objects
  BY ServeIs
<1>2. FillBuffer(message, t, pending) /\ timesLeft' = timesLeft /\ spoken' = spoken
  BY DEF Serve, ProcessGoodbye
<1>3. /\ DOMAIN pending = DOMAIN scheduled \ {Goodbye}
      /\ \A y \in DOMAIN pending : pending[y] = scheduled[y]
  BY WithoutIs
<1>4. message \in Objects /\ config \in Configs /\ exits \subseteq Nat
  BY DEF TypeInv
<1>5. \A y \in DOMAIN pending : pending[y] \in Nat /\ t <= pending[y]
  BY <1>1, <1>3
<1>6. /\ status' \in {status, "aborted"} /\ message' = message
      /\ exits' \subseteq Nat /\ \A x \in exits' : t <= x
      /\ DOMAIN scheduled' \subseteq DOMAIN pending \cup {Goodbye}
      /\ \A y \in DOMAIN scheduled' : /\ scheduled'[y] \in Nat /\ t <= scheduled'[y]
                                      /\ y # Goodbye => y \in DOMAIN pending /\ scheduled'[y] = pending[y]
  BY <1>1, <1>2, <1>4, <1>5, FillKeepsEvents
<1>7. BufferInv'
  BY <1>1, <1>2, <1>4, FillKeepsBuffer
<1>8. TypeInv'
  BY <1>1, <1>2, <1>3, <1>4, <1>6 DEF TypeInv
<1>9. Fresh' /\ Ordered'
  BY <1>1, <1>6 DEF Fresh, Ordered
<1>10. Firing'
  BY <1>1, <1>2, <1>3, <1>6 DEF Firing
<1>11. Spoke'
  BY <1>1, <1>2 DEF Spoke, TypeInv
<1>12. Silent'
  BY <1>2 DEF Silent
<1>13. OneSpeaks'
  <2> SUFFICES ASSUME NEW h \in Objects, DOMAIN spoken = {h}, t < Pow2[MantissaBits]
               PROVE  InTime(h)'
    BY <1>1, <1>2 DEF OneSpeaks
  <2>1. now < Pow2[MantissaBits] /\ Pow2[MantissaBits] \in Nat
    BY <1>1, PowPositive, ParameterAssumption DEF TypeInv
  <2>2. InTime(h)
    BY <2>1 DEF OneSpeaks
  <2>3. exits = {} /\ Due(h, t)
    BY <2>2 DEF InTime
  <2>4. t = spoken[h] + config.bandwidth * Len(buffer)
    BY <1>1, <2>1, <2>3 DEF Due
  <2>5. spoken'[h] \in Nat /\ t = spoken'[h] + config.bandwidth * Len(buffer)
    <3>1. spoken[h] = config.hellos[h].latency * Firings(h)
      BY DEF Spoke
    <3>2. config.hellos[h].latency \in Nat /\ Firings(h) \in Nat
      BY <1>4, ConfigIs DEF Firings
    <3> QED
      BY <1>2, <2>4, <3>1, <3>2
  <2>6. Goodbye \notin DOMAIN pending
    BY <1>3
  <2> QED
    BY <1>1, <1>2, <1>4, <2>3, <2>5, <2>6, FillInTime
<1> QED
  BY <1>7, <1>8, <1>9, <1>10, <1>11, <1>12, <1>13

(* HelloObject::processEvent keeps the invariant: it fires again, stops,   *)
(* or says goodbye.                                                        *)
LEMMA ProcessHelloKeepsInv ==
  ASSUME Inv, NEW e \in DOMAIN scheduled, e # Goodbye, Serve(e)
  PROVE  Inv'
<1> USE DEF Inv
<1> PICK t : t = scheduled[e]
  OBVIOUS
<1> PICK rest : rest = Without(scheduled, e)
  OBVIOUS
<1>1. /\ status = "running" /\ config' = config
      /\ now' = t /\ t \in Nat /\ now <= t
      /\ \A y \in DOMAIN scheduled : scheduled[y] \in Nat /\ t <= scheduled[y]
      /\ \A x \in exits : t <= x
      /\ e \in Objects
      /\ Objects' = Objects /\ Full' = Full
      /\ \A h \in Objects : Firings(h)' = Firings(h)
      /\ Goodbye \notin Objects
  BY ServeIs
<1>2. ProcessHello(e)
  BY DEF Serve
<1>3. /\ DOMAIN rest = DOMAIN scheduled \ {e}
      /\ \A y \in DOMAIN rest : rest[y] = scheduled[y]
  BY WithoutIs
<1>4. /\ config \in Configs /\ exits \subseteq Nat /\ timesLeft[e] \in Int
      /\ timesLeft' = [timesLeft EXCEPT ![e] = @ - 1]
      /\ config.hellos[e].latency \in Nat /\ config.hellos[e].fires \in Int
  BY <1>1, <1>2, ConfigIs DEF TypeInv, ProcessHello
<1>5. /\ timesLeft' \in [Objects -> Int] /\ timesLeft'[e] = timesLeft[e] - 1
      /\ \A h \in Objects : h # e => timesLeft'[h] = timesLeft[h]
  BY <1>1, <1>4 DEF TypeInv
<1>6. \A y \in DOMAIN rest : rest[y] \in Nat /\ t <= rest[y]
  BY <1>1, <1>3
<1>7. /\ e \notin DOMAIN spoken
      /\ timesLeft[e] <= config.hellos[e].fires
      /\ timesLeft[e] = config.hellos[e].fires \/ timesLeft[e] > 0
      /\ t = config.hellos[e].latency * (config.hellos[e].fires - timesLeft[e] + 1)
  BY <1>1 DEF Firing
<1>8. (\A x : Length(x)' = Length(x))
  BY <1>1 DEF Length
<1>9. ASSUME UNCHANGED <<exits, message, buffer, spoken>>, status' = status,
             \A h \in Objects : Goodbye \in DOMAIN scheduled' => Goodbye \in DOMAIN scheduled /\ scheduled'[Goodbye] = scheduled[Goodbye]
      PROVE  BufferInv' /\ Fresh' /\ Spoke' /\ Silent' /\ OneSpeaks'
  <2>1. BufferInv'
    BY <1>1, <1>8, <1>9 DEF BufferInv, InOrder, Last
  <2>2. Fresh' /\ Spoke' /\ Silent'
    BY <1>1, <1>9 DEF Fresh, Spoke, Silent, TypeInv
  <2>3. OneSpeaks'
    <3> SUFFICES ASSUME NEW h \in Objects, DOMAIN spoken = {h}, t < Pow2[MantissaBits]
                 PROVE  InTime(h)'
      BY <1>1, <1>9 DEF OneSpeaks
    <3>1. now < Pow2[MantissaBits]
      BY <1>1, PowPositive, ParameterAssumption DEF TypeInv
    <3>2. InTime(h)
      BY <3>1 DEF OneSpeaks
    <3> QED
      BY <1>1, <1>9, <3>2 DEF InTime, Due
  <2> QED
    BY <2>1, <2>2, <2>3
<1>10. CASE ~ Done(e)
  <2>1. /\ scheduled' = With(rest, e, t + config.hellos[e].latency)
        /\ UNCHANGED <<status, exits, message, buffer, spoken>>
    BY <1>2, <1>10 DEF ProcessHello
  <2>2. /\ DOMAIN scheduled' = DOMAIN scheduled
        /\ scheduled'[e] = t + config.hellos[e].latency
        /\ \A y \in DOMAIN scheduled : y # e => scheduled'[y] = scheduled[y]
    BY <2>1, <1>3 DEF With
  <2>3. timesLeft[e] - 1 > 0
    BY <1>4, <1>10 DEF Done
  <2>4. TypeInv'
    BY <1>1, <1>4, <1>5, <2>1, <2>2 DEF TypeInv
  <2>5. Ordered'
    BY <1>1, <1>4, <2>1, <2>2 DEF Ordered
  <2>6. Firing'
    <3>1. scheduled'[e] = config.hellos[e].latency * (config.hellos[e].fires - timesLeft'[e] + 1)
      <4> DEFINE x == config.hellos[e].latency
                 y == config.hellos[e].fires
                 z == timesLeft[e]
      <4>1. x \in Nat /\ y \in Int /\ z \in Int /\ timesLeft'[e] = z - 1
        BY <1>4, <1>5
      <4>2. scheduled'[e] = x * (y - z + 1) + x
        BY <1>7, <2>2
      <4> HIDE DEF x, y, z
      <4>3. x * (y - z + 1) + x = x * (y - (z - 1) + 1)
        BY <4>1
      <4>4. scheduled'[e] = x * (y - timesLeft'[e] + 1)
        BY <4>1, <4>2, <4>3
      <4> QED
        BY <4>4 DEF x, y
    <3>2. ASSUME NEW h \in Objects, h \in DOMAIN scheduled, h # e
          PROVE  scheduled'[h] = scheduled[h] /\ timesLeft'[h] = timesLeft[h]
      BY <1>5, <2>2, <3>2
    <3> SUFFICES ASSUME NEW h \in Objects \cap DOMAIN scheduled
                 PROVE  /\ h \notin DOMAIN spoken
                        /\ timesLeft'[h] <= config.hellos[h].fires
                        /\ timesLeft'[h] = config.hellos[h].fires \/ timesLeft'[h] > 0
                        /\ scheduled'[h] = config.hellos[h].latency * (config.hellos[h].fires - timesLeft'[h] + 1)
      BY <1>1, <2>1, <2>2 DEF Firing
    <3>3. CASE h = e
      BY <1>4, <1>5, <1>7, <2>3, <3>1, <3>3
    <3>4. CASE h # e
      BY <3>2, <3>4 DEF Firing
    <3> QED
      BY <3>3, <3>4
  <2> QED
    BY <1>1, <1>9, <2>1, <2>2, <2>4, <2>5, <2>6
<1>11. CASE Done(e) /\ config.version # "parameters"
  <2>1. scheduled' = rest /\ UNCHANGED <<status, exits, message, buffer, spoken>>
    BY <1>2, <1>11 DEF ProcessHello
  <2>2. TypeInv'
    BY <1>1, <1>3, <1>4, <1>5, <1>6, <2>1 DEF TypeInv
  <2>3. Ordered'
    BY <1>1, <1>6, <2>1 DEF Ordered
  <2>4. Firing'
    BY <1>1, <1>3, <1>5, <2>1 DEF Firing
  <2> QED
    BY <1>1, <1>3, <1>9, <2>1, <2>2, <2>3, <2>4
<1>12. CASE Done(e) /\ config.version = "parameters"
  <2>1. FillBuffer(e, t, rest) /\ spoken' = With(spoken, e, t)
    BY <1>2, <1>12 DEF ProcessHello
  <2>2. /\ status' \in {status, "aborted"} /\ message' = e
        /\ exits' \subseteq Nat /\ \A x \in exits' : t <= x
        /\ DOMAIN scheduled' \subseteq DOMAIN rest \cup {Goodbye}
        /\ \A y \in DOMAIN scheduled' : /\ scheduled'[y] \in Nat /\ t <= scheduled'[y]
                                        /\ y # Goodbye => y \in DOMAIN rest /\ scheduled'[y] = rest[y]
    BY <1>1, <1>4, <1>6, <2>1, FillKeepsEvents
  <2>3. BufferInv'
    BY <1>1, <1>4, <2>1, FillKeepsBuffer
  <2>4. /\ DOMAIN spoken' = DOMAIN spoken \cup {e} /\ spoken'[e] = t
        /\ \A y \in DOMAIN spoken : spoken'[y] = spoken[y]
    BY <2>1, <1>7 DEF With
  <2>5. TypeInv'
    BY <1>1, <1>3, <1>4, <1>5, <2>2, <2>4 DEF TypeInv
  <2>6. Fresh' /\ Ordered'
    BY <1>1, <2>2 DEF Fresh, Ordered
  <2>7. Firing'
    BY <1>1, <1>3, <1>5, <2>2, <2>4 DEF Firing
  <2>8. Spoke'
    <3>1. timesLeft[e] <= 1
      BY <1>4, <1>12 DEF Done
    <3>2. config.hellos[e].fires - timesLeft[e] + 1 = Firings(e)
      BY <1>4, <1>7, <3>1 DEF Firings
    <3>3. spoken'[e] = config.hellos[e].latency * Firings(e)
      BY <1>7, <2>4, <3>2
    <3> QED
      BY <1>1, <2>4, <3>3 DEF Spoke, TypeInv
  <2>9. Silent'
    BY <2>4 DEF Silent
  <2>10. OneSpeaks'
    <3> SUFFICES ASSUME NEW h \in Objects, DOMAIN spoken' = {h}, t < Pow2[MantissaBits]
                 PROVE  InTime(h)'
      BY <1>1 DEF OneSpeaks
    <3>1. h = e /\ DOMAIN spoken = {}
      BY <1>7, <2>4
    <3>2. buffer = << >> /\ exits = {} /\ Goodbye \notin DOMAIN rest
      BY <3>1, <1>3 DEF Silent
    <3>3. t = spoken'[e] + config.bandwidth * Len(buffer) /\ spoken'[e] \in Nat
      BY <1>1, <1>4, <2>4, <3>2, ConfigIs
    <3> QED
      BY <1>1, <1>4, <2>1, <3>1, <3>2, <3>3, FillInTime
  <2> QED
    BY <2>3, <2>5, <2>6, <2>7, <2>8, <2>9, <2>10
<1> QED
  BY <1>10, <1>11, <1>12

(* The invariant holds in every state of every run.                        *)
THEOREM InvHolds == Spec => []Inv
<1>1. Init => Inv
  BY InitInv
<1>2. Inv /\ [Next]_vars => Inv'
  <2> SUFFICES ASSUME Inv, [Next]_vars PROVE Inv'
    OBVIOUS
  <2>1. CASE Startup
    BY <2>1, StartupKeepsInv
  <2>2. ASSUME NEW e \in DOMAIN scheduled, Serve(e) PROVE Inv'
    BY <2>2, ProcessGoodbyeKeepsInv, ProcessHelloKeepsInv
  <2>3. CASE ServeExit
    BY <2>3, ServeExitKeepsInv
  <2>4. CASE NothingToServe
    BY <2>4, StandKeepsInv DEF NothingToServe
  <2>5. CASE UNCHANGED vars
    BY <2>5, StandKeepsInv DEF vars
  <2> QED
    BY <2>1, <2>2, <2>3, <2>4, <2>5 DEF Next
<1> QED
  BY <1>1, <1>2, PTL DEF Spec

(* For all values of the parameters: the types, the last byte of the       *)
(* buffer is left for the terminator, and what is before it is whole       *)
(* messages but for the last.                                              *)
THEOREM TypeCorrect == Spec => []TypeOK
<1>1. Inv => TypeOK
  <2> SUFFICES ASSUME Inv PROVE TypeOK
    OBVIOUS
  <2>1. ASSUME NEW k \in 1 .. Len(buffer) PROVE buffer[k][1] \in Objects
    BY DEF Inv, BufferInv
  <2> QED
    BY <2>1 DEF Inv, TypeInv, BufferInv, InOrder, TypeOK
<1> QED
  BY <1>1, InvHolds, PTL

(* For all values of the parameters and widths of the float: a HelloObject *)
(* says goodbye after the firings it was given, and if it is the only one  *)
(* the simulation neither aborts nor ends before the buffer is full or at  *)
(* another tick than the last byte's, as long as a float holds the tick.   *)
THEOREM GoodbyeInTimeCorrect == Spec => []GoodbyeInTime
<1>1. Inv => GoodbyeInTime
  <2> SUFFICES ASSUME Inv PROVE GoodbyeInTime
    OBVIOUS
  <2>1. \A h \in DOMAIN spoken : spoken[h] = config.hellos[h].latency * Firings(h)
    BY DEF Inv, Spoke
  <2>2. ASSUME Cardinality(DOMAIN spoken) = 1, now < Pow2[MantissaBits], NEW h \in DOMAIN spoken
        PROVE  InTime(h)
    <3>1. Objects \subseteq 1 .. 2 /\ DOMAIN spoken \subseteq Objects
      <4>1. Objects \subseteq {1, 2} /\ DOMAIN spoken \subseteq Objects
        BY ConfigIs DEF Inv, TypeInv
      <4> QED
        BY <4>1
    <3>2. IsFiniteSet(1 .. 2)
      <4>1. 1 \in Int /\ 2 \in Int
        OBVIOUS
      <4> QED
        BY <4>1, FS_Interval
    <3>3. IsFiniteSet(DOMAIN spoken)
      BY <3>1, <3>2, FS_Subset
    <3>4. DOMAIN spoken = {h}
      BY <2>2, <3>3, FS_Singleton
    <3> QED
      BY <2>2, <3>1, <3>4 DEF Inv, OneSpeaks
  <2> QED
    BY <2>1, <2>2 DEF GoodbyeInTime, InTime, Firings
<1> QED
  BY <1>1, InvHolds, PTL
============================================================================
