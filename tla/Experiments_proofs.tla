------------------------- MODULE Experiments_proofs -------------------------
(***************************************************************************)
(* The theorems about Experiments, for every number of workers, starts,    *)
(* rebuilt files and entries of the lists.                                 *)
(*                                                                         *)
(* First what the scripts list: a loop lists different runs if its body    *)
(* does for each entry and the entries give different runs (LoopLists, by  *)
(* induction over FlattenSeq).  Hence no two jobs of one start have the    *)
(* same run: the directory tells them apart (OutdirTells), and so does     *)
(* what the database keeps of them (HashTells).                            *)
(*                                                                         *)
(* Then the behaviour: jobs are made, queued and taken in one order (the   *)
(* queue lies between what is Taken and the Frontier), so none is taken    *)
(* twice; a run in the database, or active, was taken before (TakenInv,    *)
(* StoreInv); and files are only ever built again, so that a version that  *)
(* has passed never comes back (VersionInv).                               *)
(***************************************************************************)
EXTENDS Experiments, TLAPS, WellFoundedInduction, FiniteSetTheorems

(* Every set of natural numbers that is not empty has a least one, and     *)
(* induction over the natural numbers, for a set instead of a predicate.   *)
LEMMA Smaller == ASSUME NEW x \in Nat, NEW y \in Nat
                 PROVE  <<x, y>> \in OpToRel(<, Nat) <=> x < y
  BY DEF OpToRel

LEMMA Least == ASSUME NEW T, T \subseteq Nat, T # {}
               PROVE  \E x \in T : \A y \in T : x <= y
<1> DEFINE R == OpToRel(<, Nat)
<1>1. IsWellFoundedOn(R, Nat)
  BY NatLessThanWellFounded
<1>2. \A x, y \in Nat : <<x, y>> \in R <=> x < y
  BY Smaller
<1> HIDE DEF R
<1>3. PICK x \in T : \A y \in T : ~ (<<y, x>> \in R)
  BY <1>1, WFMin
<1>4. ASSUME NEW y \in T PROVE x <= y
  <2>1. x \in Nat /\ y \in Nat
    OBVIOUS
  <2>2. ~ (y < x)
    BY <2>1, <1>3, <1>2
  <2> QED
    BY <2>1, <2>2
<1> QED
  BY <1>4

LEMMA Induct == ASSUME NEW S, 0 \in S, \A n \in Nat : n \in S => n + 1 \in S
                PROVE  Nat \subseteq S
<1> SUFFICES ASSUME NEW m \in Nat, m \notin S
             PROVE  FALSE
  OBVIOUS
<1> DEFINE T == {n \in Nat : n \notin S}
<1>1. PICK x \in T : \A y \in T : x <= y
  <2>1. T \subseteq Nat /\ T # {}
    OBVIOUS
  <2> HIDE DEF T
  <2> QED
    BY <2>1, Least
<1>2. x \in Nat \ {0} /\ x \notin S
  OBVIOUS
<1>3. x - 1 \in Nat /\ x = (x - 1) + 1
  BY <1>2
<1>4. x - 1 \in T
  BY <1>2, <1>3
<1>5. x <= x - 1
  BY <1>1, <1>4
<1> QED
  BY <1>2, <1>5

(* The smallest element that Start reports.                                *)
LEMMA MinIs == ASSUME NEW T, T \subseteq Nat, T # {} PROVE Min(T) \in T
  BY Least DEF Min
---------------------------------------------------------------------------
(* A list of elements of A, in which none occurs twice.                    *)
Lists(s, A) == s \in Seq(A) /\ \A i, j \in 1 .. Len(s) : s[i] = s[j] => i = j

LEMMA ListGrows == ASSUME NEW s, NEW A, Lists(s, A), NEW B, A \subseteq B PROVE Lists(s, B)
  BY DEF Lists

LEMMA NoList == ASSUME NEW A PROVE Lists(<< >>, A)
  BY DEF Lists

(* A function on 1 .. n is a sequence of its values.                       *)
LEMMA TableIs == ASSUME NEW n \in Nat, NEW f, f = [i \in 1 .. n |-> f[i]], NEW B, \A i \in 1 .. n : f[i] \in B
                 PROVE  f \in Seq(B) /\ Len(f) = n /\ DOMAIN f = 1 .. n
<1>1. f \in [1 .. n -> B] /\ DOMAIN f = 1 .. n
  OBVIOUS
<1>2. f \in Seq(B)
  BY <1>1
<1> QED
  BY <1>1, <1>2

LEMMA ListOf1 == ASSUME NEW a PROVE Lists(<<a>>, {a})
  BY DEF Lists

(* The first n elements of a list.                                         *)
LEMMA FirstIs ==
  ASSUME NEW A, NEW s \in Seq(A), NEW n \in Nat
  PROVE  /\ First(n, s) \in Seq(A) /\ Len(First(n, s)) <= Len(s)
         /\ Len(First(n, s)) = IF Len(s) < n THEN Len(s) ELSE n
         /\ \A i \in 1 .. Len(First(n, s)) : First(n, s)[i] = s[i]
  BY DEF First

LEMMA FirstLists == ASSUME NEW A, NEW s, Lists(s, A), NEW n \in Nat PROVE Lists(First(n, s), A)
<1>1. s \in Seq(A) /\ Len(s) \in Nat
  BY DEF Lists
<1>2. /\ First(n, s) \in Seq(A) /\ Len(First(n, s)) <= Len(s) /\ Len(First(n, s)) \in Nat
      /\ \A i \in 1 .. Len(First(n, s)) : First(n, s)[i] = s[i]
  BY <1>1, FirstIs
<1> QED
  BY <1>1, <1>2 DEF Lists

(* Two lists with no element in common, one after the other.               *)
LEMMA Joined == ASSUME NEW s, NEW A, Lists(s, A), NEW t, NEW B, Lists(t, B), A \cap B = {}
                PROVE  Lists(s \o t, A \cup B)
<1>1. /\ s \o t \in Seq(A \cup B) /\ Len(s) \in Nat /\ Len(t) \in Nat /\ Len(s \o t) = Len(s) + Len(t)
      /\ s \in Seq(A) /\ t \in Seq(B)
  BY DEF Lists
<1>2. ASSUME NEW i \in 1 .. Len(s \o t)
      PROVE  \/ i \in 1 .. Len(s) /\ (s \o t)[i] = s[i] /\ s[i] \in A
             \/ i - Len(s) \in 1 .. Len(t) /\ (s \o t)[i] = t[i - Len(s)] /\ t[i - Len(s)] \in B
  <2>1. CASE i <= Len(s)
    BY <1>1, <2>1
  <2>2. CASE i > Len(s)
    BY <1>1, <2>2
  <2> QED
    BY <1>1, <2>1, <2>2
<1>3. ASSUME NEW i \in 1 .. Len(s \o t), NEW j \in 1 .. Len(s \o t), (s \o t)[i] = (s \o t)[j] PROVE i = j
  <2>1. CASE i \in 1 .. Len(s) /\ (s \o t)[i] = s[i] /\ s[i] \in A
    <3>1. j \in 1 .. Len(s) /\ (s \o t)[j] = s[j]
      BY <1>2, <1>3, <2>1
    <3> QED
      BY <1>3, <2>1, <3>1 DEF Lists
  <2>2. CASE i - Len(s) \in 1 .. Len(t) /\ (s \o t)[i] = t[i - Len(s)] /\ t[i - Len(s)] \in B
    <3>1. j - Len(s) \in 1 .. Len(t) /\ (s \o t)[j] = t[j - Len(s)]
      BY <1>2, <1>3, <2>2
    <3>2. i - Len(s) = j - Len(s)
      BY <1>3, <2>2, <3>1 DEF Lists
    <3> QED
      BY <1>1, <3>2
  <2> QED
    BY <1>2, <2>1, <2>2
<1> QED
  BY <1>1, <1>3 DEF Lists

(* FlattenSeq is a recursive function: one that satisfies its equation     *)
(* exists for every number of lists.                                       *)
Flattens(g, n, lists) == g = [i \in 1 .. n |-> IF i = 1 THEN lists[i] ELSE g[i - 1] \o lists[i]]

LEMMA Flattened == ASSUME NEW lists PROVE \A n \in Nat : \E g : Flattens(g, n, lists)
<1> DEFINE S == {n \in Nat : \E g : Flattens(g, n, lists)}
<1>1. 0 \in S
  <2>1. Flattens([i \in 1 .. 0 |-> << >>], 0, lists)
    BY DEF Flattens
  <2> QED
    BY <2>1
<1>2. ASSUME NEW n \in Nat, n \in S PROVE n + 1 \in S
  <2>1. PICK g : Flattens(g, n, lists)
    BY <1>2
  <2> DEFINE h == [i \in 1 .. n + 1 |-> IF i = n + 1 THEN IF i = 1 THEN lists[i] ELSE g[i - 1] \o lists[i]
                                        ELSE g[i]]
  <2>2. \A i \in 1 .. n : g[i] = IF i = 1 THEN lists[i] ELSE g[i - 1] \o lists[i]
    BY <2>1 DEF Flattens
  <2>3. \A i \in 1 .. n : h[i] = g[i]
    OBVIOUS
  <2>4. h[n + 1] = IF n + 1 = 1 THEN lists[n + 1] ELSE g[(n + 1) - 1] \o lists[n + 1]
    OBVIOUS
  <2>5. h = [i \in 1 .. n + 1 |-> h[i]]
    OBVIOUS
  <2> HIDE DEF h
  <2>6. ASSUME NEW i \in 1 .. n + 1 PROVE h[i] = IF i = 1 THEN lists[i] ELSE h[i - 1] \o lists[i]
    <3>1. i # 1 => i - 1 \in 1 .. n
      OBVIOUS
    <3>2. CASE i = n + 1
      BY <2>3, <2>4, <3>1, <3>2
    <3>3. CASE i # n + 1
      <4>1. i \in 1 .. n
        BY <3>3
      <4> QED
        BY <2>2, <2>3, <3>1, <4>1
    <3> QED
      BY <3>2, <3>3
  <2>7. Flattens(h, n + 1, lists)
    BY <2>5, <2>6 DEF Flattens
  <2> QED
    BY <2>7
<1>3. \A n \in Nat : n \in S => n + 1 \in S
  BY <1>2
<1> HIDE DEF S
<1>4. Nat \subseteq S
  BY <1>1, <1>3, Induct
<1> QED
  BY <1>4 DEF S

(* Lists with no element in common, one after the other.                   *)
LEMMA FlattenLists ==
  ASSUME NEW lists, NEW n \in Nat, lists = [i \in 1 .. n |-> lists[i]], NEW A, NEW U,
         \A i \in 1 .. n : Lists(lists[i], A[i]) /\ A[i] \subseteq U,
         \A i, j \in 1 .. n : i # j => A[i] \cap A[j] = {}
  PROVE  Lists(FlattenSeq(lists), U)
<1>1. CASE n = 0
  <2>1. lists = << >> /\ Len(lists) = 0
    BY <1>1
  <2>2. FlattenSeq(lists) = << >>
    BY <2>1 DEF FlattenSeq
  <2> QED
    BY <2>2, NoList
<1>2. CASE n # 0
  <2> DEFINE g == CHOOSE f : Flattens(f, n, lists)
  <2>1. Flattens(g, n, lists)
    BY Flattened
  <2>2. Len(lists) = n
    <3>1. lists \in Seq({lists[i] : i \in 1 .. n})
      OBVIOUS
    <3>2. DOMAIN lists = 1 .. n
      OBVIOUS
    <3> QED
      BY <3>1, <3>2
  <2>3. FlattenSeq(lists) = g[n]
    BY <1>2, <2>2 DEF FlattenSeq, Flattens
  <2> HIDE DEF g
  <2>4. \A i \in 1 .. n : g[i] = IF i = 1 THEN lists[i] ELSE g[i - 1] \o lists[i]
    BY <2>1 DEF Flattens
  <2> DEFINE T(m) == UNION {A[i] : i \in 1 .. m}
             S == {m \in Nat : m \in 1 .. n => Lists(g[m], T(m))}
  <2>5. ASSUME NEW m \in Nat, m \in S PROVE m + 1 \in S
    <3> SUFFICES ASSUME m + 1 \in 1 .. n PROVE Lists(g[m + 1], T(m + 1))
      OBVIOUS
    <3>1. Lists(lists[m + 1], A[m + 1])
      OBVIOUS
    <3>2. CASE m = 0
      <4>1. g[m + 1] = lists[m + 1]
        BY <2>4, <3>2
      <4>2. A[m + 1] \subseteq T(m + 1)
        OBVIOUS
      <4> HIDE DEF T
      <4> QED
        BY <3>1, <4>1, <4>2, ListGrows
    <3>3. CASE m # 0
      <4>1. m \in 1 .. n /\ m + 1 # 1 /\ (m + 1) - 1 = m
        BY <3>3
      <4>2. g[m + 1] = g[m] \o lists[m + 1]
        BY <2>4, <4>1
      <4>3. Lists(g[m], T(m))
        BY <2>5, <4>1
      <4>4. T(m) \cap A[m + 1] = {}
        <5>1. ASSUME NEW i \in 1 .. m PROVE A[i] \cap A[m + 1] = {}
          <6>1. i \in 1 .. n /\ i # m + 1
            BY <4>1
          <6> QED
            BY <6>1
        <5> QED
          BY <5>1
      <4>5. T(m) \cup A[m + 1] \subseteq T(m + 1)
        <5>1. 1 .. m \subseteq 1 .. m + 1 /\ m + 1 \in 1 .. m + 1
          OBVIOUS
        <5> QED
          BY <5>1
      <4> HIDE DEF T
      <4>6. Lists(g[m] \o lists[m + 1], T(m) \cup A[m + 1])
        BY <3>1, <4>3, <4>4, Joined
      <4> QED
        BY <4>2, <4>5, <4>6, ListGrows
    <3> QED
      BY <3>2, <3>3
  <2>6. 0 \in S
    OBVIOUS
  <2>7. \A m \in Nat : m \in S => m + 1 \in S
    BY <2>5
  <2>8. Nat \subseteq S
    <3> HIDE DEF S
    <3> QED
      BY <2>6, <2>7, Induct
  <2>9. Lists(g[n], T(n))
    <3>1. n \in S
      <4> HIDE DEF S
      <4> QED
        BY <2>8
    <3>2. n \in 1 .. n
      BY <1>2
    <3> QED
      BY <3>1, <3>2
  <2>10. T(n) \subseteq U
    OBVIOUS
  <2> HIDE DEF T
  <2> QED
    BY <2>3, <2>9, <2>10, ListGrows
<1> QED
  BY <1>1, <1>2
---------------------------------------------------------------------------
(* The lists of the scripts.                                               *)
Kernels == {"5.4.49", "4.19.83", "4.14.134", "4.9.186", "4.4.186"}
CPUNames == {"kvm", "atomic", "simple", "timing", "o3", "TimingSimple", "DerivO3"}
SizeNames == {"test", "ref"}
Memories == {"Inf", "SingleCycle", "Slow"}

LEMMA Limits == ListLimit \in Nat /\ InnerLimit \in Nat
  BY ListAssumption

LEMMA LinuxesList == Lists(Linuxes, Kernels)
<1>1. Lists(<<"5.4.49", "4.19.83", "4.14.134", "4.9.186", "4.4.186">>, Kernels)
  BY DEF Lists, Kernels
<1> QED
  BY <1>1, Limits, FirstLists DEF Linuxes

LEMMA BenchList == Lists(Bench, Microbench)
<1> DEFINE n == Cardinality(Microbench)
<1>1. n \in Nat /\ ExistsBijection(1 .. n, Microbench)
  BY MicrobenchAssumption, FS_CardinalityType
<1>2. \E f \in [1 .. n -> Microbench] : IsInjective(f)
  BY <1>1 DEF ExistsBijection, Bijection, Injection, IsInjective
<1>3. Bench \in [1 .. n -> Microbench] /\ IsInjective(Bench)
  BY <1>2 DEF Bench, SetToSeq
<1> QED
  BY <1>1, <1>3 DEF Lists, IsInjective

LEMMA CPUsList == Lists(CPUs, CPUNames)
<1>1. Lists(<<"kvm", "atomic", "o3", "timing">>, CPUNames)
  BY DEF Lists, CPUNames
<1> QED
  BY <1>1, Limits, FirstLists DEF CPUs, Entries

LEMMA SizesList == ASSUME NEW cpu PROVE Lists(Sizes(cpu), SizeNames)
<1>1. Lists(<<"test", "ref">>, SizeNames) /\ Lists(<<"test">>, SizeNames)
  BY DEF Lists, SizeNames
<1> QED
  BY <1>1, Limits, FirstLists DEF Sizes, Entries

LEMMA InnerLists ==
  /\ Lists(First(InnerLimit, <<"kvm", "atomic", "simple", "o3">>), CPUNames)
  /\ Lists(First(InnerLimit, <<1, 2, 4, 8>>), Nat)
  /\ Lists(<<"MI_example", "MESI_Two_Level", "MOESI_CMP_directory">>, DOMAIN BootBinary)
  /\ Lists(First(InnerLimit, <<"TimingSimple", "DerivO3">>), CPUNames)
  /\ Lists(First(InnerLimit, <<"Inf", "SingleCycle", "Slow">>), Memories)
<1>1. Lists(<<"kvm", "atomic", "simple", "o3">>, CPUNames)
  BY DEF Lists, CPUNames
<1>2. Lists(<<1, 2, 4, 8>>, Nat)
  BY DEF Lists
<1>3. Lists(<<"MI_example", "MESI_Two_Level", "MOESI_CMP_directory">>, DOMAIN BootBinary)
  BY DEF Lists, BootBinary
<1>4. Lists(<<"TimingSimple", "DerivO3">>, CPUNames)
  BY DEF Lists, CPUNames
<1>5. Lists(<<"Inf", "SingleCycle", "Slow">>, Memories)
  BY DEF Lists, Memories
<1> QED
  BY <1>1, <1>2, <1>3, <1>4, <1>5, Limits, FirstLists
---------------------------------------------------------------------------
(* The artifacts of a script: each has a name of its own, and its inputs   *)
(* are registered before it.                                               *)
IsSeq(s) == \E A : s \in Seq(A)
WellOrdered(s) ==
    /\ IsSeq(s)
    /\ \A i, j \in 1 .. Len(s) : s[i].name = s[j].name => i = j
    /\ \A k \in 1 .. Len(s) : s[k].inputs \subseteq {s[i].name : i \in 1 .. k - 1}

(* The list s has an artifact of this name and path.                       *)
Has(s, name, path) == \E k \in 1 .. Len(s) : s[k].name = name /\ s[k].path = path

LEMMA SPEC2006Order ==
  /\ WellOrdered(SPEC2006Artifacts)
  /\ Has(SPEC2006Artifacts, "gem5_repo", "gem5/")
  /\ Has(SPEC2006Artifacts, "gem5_binary", "gem5/build/X86/gem5.opt")
  /\ Has(SPEC2006Artifacts, "disk_image", SPEC2006Image)
  /\ Has(SPEC2006Artifacts, "linux_binary", "linux-4.19.83/vmlinux-4.19.83")
  /\ Has(SPEC2006Artifacts, "run_script_repo", "gem5-configs")
<1> DEFINE s == SPEC2006Artifacts
<1>1. Len(s) = 9 /\ IsSeq(s)
  <2>1. s \in Seq({s[i] : i \in 1 .. 9})
    BY DEF SPEC2006Artifacts
  <2> QED
    BY <2>1 DEF SPEC2006Artifacts, IsSeq
<1>2. /\ s[1].name = "experiments_repo" /\ s[2].name = "gem5_repo" /\ s[3].name = "gem5_binary"
      /\ s[4].name = "m5_binary" /\ s[5].name = "packer" /\ s[6].name = "disk_image"
      /\ s[7].name = "linux_repo" /\ s[8].name = "linux_binary" /\ s[9].name = "run_script_repo"
  BY DEF SPEC2006Artifacts, Artifact
<1>3. /\ s[1].inputs = {} /\ s[2].inputs = {} /\ s[5].inputs = {} /\ s[7].inputs = {} /\ s[9].inputs = {}
      /\ s[3].inputs = {"gem5_repo"} /\ s[4].inputs = {"gem5_repo"}
      /\ s[6].inputs = {"packer", "experiments_repo", "m5_binary"}
      /\ s[8].inputs = {"experiments_repo", "linux_repo"}
  BY DEF SPEC2006Artifacts, Artifact
<1> HIDE DEF s
<1>4. \A i, j \in 1 .. 9 : s[i].name = s[j].name => i = j
  BY <1>2
<1>5. ASSUME NEW k \in 1 .. 9 PROVE s[k].inputs \subseteq {s[i].name : i \in 1 .. k - 1}
  BY <1>2, <1>3
<1>6. /\ s[2].path = "gem5/" /\ s[3].path = "gem5/build/X86/gem5.opt" /\ s[6].path = SPEC2006Image
      /\ s[8].path = "linux-4.19.83/vmlinux-4.19.83" /\ s[9].path = "gem5-configs"
  BY DEF SPEC2006Artifacts, Artifact, s
<1> QED
  BY <1>1, <1>2, <1>4, <1>5, <1>6 DEF WellOrdered, Has, s

LEMMA MicrobenchmarkOrder ==
  /\ WellOrdered(MicrobenchmarkArtifacts)
  /\ Has(MicrobenchmarkArtifacts, "experiments_repo", "./")
  /\ Has(MicrobenchmarkArtifacts, "gem5_repo", "gem5/")
  /\ Has(MicrobenchmarkArtifacts, "gem5_binary", "gem5/build/X86/gem5.opt")
<1> DEFINE s == MicrobenchmarkArtifacts
<1>1. Len(s) = 4 /\ IsSeq(s)
  <2>1. s \in Seq({s[i] : i \in 1 .. 4})
    BY DEF MicrobenchmarkArtifacts
  <2> QED
    BY <2>1 DEF MicrobenchmarkArtifacts, IsSeq
<1>2. /\ s[1].name = "experiments_repo" /\ s[2].name = "gem5_repo"
      /\ s[3].name = "m5_binary" /\ s[4].name = "gem5_binary"
  BY DEF MicrobenchmarkArtifacts, Artifact
<1>3. /\ s[1].inputs = {} /\ s[2].inputs = {}
      /\ s[3].inputs = {"gem5_repo"} /\ s[4].inputs = {"gem5_repo"}
  BY DEF MicrobenchmarkArtifacts, Artifact
<1>4. s[1].path = "./" /\ s[2].path = "gem5/" /\ s[4].path = "gem5/build/X86/gem5.opt"
  BY DEF MicrobenchmarkArtifacts, Artifact
<1> HIDE DEF s
<1>5. \A i, j \in 1 .. 4 : s[i].name = s[j].name => i = j
  BY <1>2
<1>6. ASSUME NEW k \in 1 .. 4 PROVE s[k].inputs \subseteq {s[i].name : i \in 1 .. k - 1}
  BY <1>2, <1>3
<1> QED
  BY <1>1, <1>2, <1>4, <1>5, <1>6 DEF WellOrdered, Has, s

(* More artifacts after those, each with a new name.                       *)
Continues(s, t) ==
    /\ IsSeq(t)
    /\ \A i, j \in 1 .. Len(t) : t[i].name = t[j].name => i = j
    /\ \A i \in 1 .. Len(s), j \in 1 .. Len(t) : s[i].name # t[j].name
    /\ \A j \in 1 .. Len(t) : t[j].inputs \subseteq {s[i].name : i \in 1 .. Len(s)}

LEMMA OrderJoined ==
  ASSUME NEW s, WellOrdered(s), NEW t, Continues(s, t)
  PROVE  /\ WellOrdered(s \o t)
         /\ Len(s \o t) = Len(s) + Len(t)
         /\ \A k \in 1 .. Len(s) : (s \o t)[k] = s[k]
         /\ \A k \in 1 .. Len(t) : (s \o t)[Len(s) + k] = t[k]
<1>a. PICK A, B : s \in Seq(A) /\ t \in Seq(B)
  BY DEF WellOrdered, Continues, IsSeq
<1>1. /\ Len(s) \in Nat /\ Len(t) \in Nat
      /\ s \in Seq(A) /\ t \in Seq(B) /\ s \o t \in Seq(A \cup B)
      /\ Len(s \o t) = Len(s) + Len(t)
  BY <1>a
<1>2. \A k \in 1 .. Len(s) : (s \o t)[k] = s[k]
  BY <1>1
<1>3. \A k \in 1 .. Len(t) : (s \o t)[Len(s) + k] = t[k]
  BY <1>1
<1>4. ASSUME NEW i \in 1 .. Len(s \o t)
      PROVE  \/ i \in 1 .. Len(s) /\ (s \o t)[i] = s[i]
             \/ i - Len(s) \in 1 .. Len(t) /\ (s \o t)[i] = t[i - Len(s)]
  <2>1. i <= Len(s) => i \in 1 .. Len(s)
    BY <1>1
  <2>2. i > Len(s) => i - Len(s) \in 1 .. Len(t) /\ Len(s) + (i - Len(s)) = i
    BY <1>1
  <2> QED
    BY <1>1, <1>2, <1>3, <2>1, <2>2
<1>5. ASSUME NEW i \in 1 .. Len(s \o t), NEW j \in 1 .. Len(s \o t), (s \o t)[i].name = (s \o t)[j].name
      PROVE  i = j
  <2>1. CASE i \in 1 .. Len(s) /\ (s \o t)[i] = s[i]
    <3>1. j \in 1 .. Len(s) /\ (s \o t)[j] = s[j]
      BY <1>4, <1>5, <2>1 DEF Continues
    <3> QED
      BY <1>5, <2>1, <3>1 DEF WellOrdered
  <2>2. CASE i - Len(s) \in 1 .. Len(t) /\ (s \o t)[i] = t[i - Len(s)]
    <3>1. j - Len(s) \in 1 .. Len(t) /\ (s \o t)[j] = t[j - Len(s)]
      BY <1>4, <1>5, <2>2 DEF Continues
    <3>2. i - Len(s) = j - Len(s)
      BY <1>5, <2>2, <3>1 DEF Continues
    <3> QED
      BY <1>1, <3>2
  <2> QED
    BY <1>4, <2>1, <2>2
<1>6. ASSUME NEW k \in 1 .. Len(s \o t) PROVE (s \o t)[k].inputs \subseteq {(s \o t)[i].name : i \in 1 .. k - 1}
  <2>1. CASE k \in 1 .. Len(s) /\ (s \o t)[k] = s[k]
    <3>1. s[k].inputs \subseteq {s[i].name : i \in 1 .. k - 1}
      BY <2>1 DEF WellOrdered
    <3>2. \A i \in 1 .. k - 1 : (s \o t)[i] = s[i]
      BY <1>1, <1>2, <2>1
    <3> QED
      BY <2>1, <3>1, <3>2
  <2>2. CASE k - Len(s) \in 1 .. Len(t) /\ (s \o t)[k] = t[k - Len(s)]
    <3>1. (s \o t)[k].inputs \subseteq {s[i].name : i \in 1 .. Len(s)}
      BY <2>2 DEF Continues
    <3>2. \A i \in 1 .. Len(s) : i \in 1 .. k - 1 /\ (s \o t)[i] = s[i]
      BY <1>1, <1>2, <2>2
    <3> QED
      BY <3>1, <3>2
  <2> QED
    BY <1>4, <2>1, <2>2
<1> QED
  BY <1>1, <1>2, <1>3, <1>5, <1>6 DEF WellOrdered, IsSeq

LEMMA HasJoined ==
  ASSUME NEW s, NEW t, Len(s) \in Nat, Len(t) \in Nat, Len(s \o t) = Len(s) + Len(t),
         \A k \in 1 .. Len(s) : (s \o t)[k] = s[k],
         \A k \in 1 .. Len(t) : (s \o t)[Len(s) + k] = t[k],
         NEW name, NEW path
  PROVE  Has(s \o t, name, path) <=> Has(s, name, path) \/ Has(t, name, path)
<1>1. ASSUME NEW k \in 1 .. Len(s \o t)
      PROVE  \/ k \in 1 .. Len(s) /\ (s \o t)[k] = s[k]
             \/ \E i \in 1 .. Len(t) : k = Len(s) + i /\ (s \o t)[k] = t[i]
  <2>1. k <= Len(s) => k \in 1 .. Len(s)
    OBVIOUS
  <2>2. k > Len(s) => k - Len(s) \in 1 .. Len(t) /\ k = Len(s) + (k - Len(s))
    OBVIOUS
  <2> QED
    BY <2>1, <2>2
<1>2. \A k \in 1 .. Len(s) : k \in 1 .. Len(s \o t)
  OBVIOUS
<1>3. \A k \in 1 .. Len(t) : Len(s) + k \in 1 .. Len(s \o t)
  OBVIOUS
<1>4. ASSUME Has(s \o t, name, path) PROVE Has(s, name, path) \/ Has(t, name, path)
  <2>1. PICK k \in 1 .. Len(s \o t) : (s \o t)[k].name = name /\ (s \o t)[k].path = path
    BY <1>4 DEF Has
  <2> QED
    BY <1>1, <2>1 DEF Has
<1>5. ASSUME Has(s, name, path) PROVE Has(s \o t, name, path)
  <2>1. PICK k \in 1 .. Len(s) : s[k].name = name /\ s[k].path = path
    BY <1>5 DEF Has
  <2> QED
    BY <1>2, <2>1 DEF Has
<1>6. ASSUME Has(t, name, path) PROVE Has(s \o t, name, path)
  <2>1. PICK k \in 1 .. Len(t) : t[k].name = name /\ t[k].path = path
    BY <1>6 DEF Has
  <2> QED
    BY <1>3, <2>1 DEF Has
<1> QED
  BY <1>4, <1>5, <1>6

(* The artifacts that boot_tests registers before the kernels.             *)
Late  == [i \in DOMAIN Linuxes |-> Artifact(Linuxes[i], Linuxes[i], {"experiments_repo", "linux_repo"})]

LEMMA BootOrder ==
  /\ WellOrdered(BootArtifacts)
  /\ Has(BootArtifacts, "experiments_repo", "./")
  /\ Has(BootArtifacts, "gem5_repo", "gem5/")
  /\ Has(BootArtifacts, "disk_image", BootImage)
  /\ Has(BootArtifacts, "gem5_binary", "gem5/build/X86/gem5.opt")
  /\ Has(BootArtifacts, "gem5_binary_MESI_Two_Level", "gem5/build/X86_MESI_Two_Level/gem5.opt")
  /\ Has(BootArtifacts, "gem5_binary_MOESI_CMP_directory", "gem5/build/X86_MOESI_CMP_directory/gem5.opt")
  /\ \A i \in 1 .. Len(Linuxes) : Has(BootArtifacts, Linuxes[i], Linuxes[i])
  /\ \A name, path : Has(BootArtifacts, name, path) /\ (name \in Kernels \/ path \in Kernels) => name = path
<1> DEFINE s == << Artifact("packer", "disk-image/packer", {}),
       Artifact("experiments_repo", "./", {}),
       Artifact("gem5_repo", "gem5/", {}),
       Artifact("m5_binary", "gem5/util/m5/build/x86/out/m5", {"gem5_repo"}),
       Artifact("disk_image", BootImage, {"packer", "experiments_repo", "m5_binary"}),
       Artifact("gem5_binary", "gem5/build/X86/gem5.opt", {"gem5_repo"}),
       Artifact("gem5_binary_MESI_Two_Level", "gem5/build/X86_MESI_Two_Level/gem5.opt", {"gem5_repo"}),
       Artifact("gem5_binary_MOESI_CMP_directory", "gem5/build/X86_MOESI_CMP_directory/gem5.opt", {"gem5_repo"}),
       Artifact("linux_repo", "linux-stable/", {}) >>
           t == Late
<1>1. Len(s) = 9 /\ IsSeq(s)
  <2>1. s \in Seq({s[i] : i \in 1 .. 9})
    OBVIOUS
  <2> QED
    BY <2>1 DEF IsSeq
<1>2. /\ s[1].name = "packer" /\ s[2].name = "experiments_repo" /\ s[3].name = "gem5_repo"
      /\ s[4].name = "m5_binary" /\ s[5].name = "disk_image" /\ s[6].name = "gem5_binary"
      /\ s[7].name = "gem5_binary_MESI_Two_Level" /\ s[8].name = "gem5_binary_MOESI_CMP_directory"
      /\ s[9].name = "linux_repo"
  BY DEF Artifact
<1>3. /\ s[1].inputs = {} /\ s[2].inputs = {} /\ s[3].inputs = {} /\ s[4].inputs = {"gem5_repo"}
      /\ s[5].inputs = {"packer", "experiments_repo", "m5_binary"} /\ s[6].inputs = {"gem5_repo"}
      /\ s[7].inputs = {"gem5_repo"} /\ s[8].inputs = {"gem5_repo"} /\ s[9].inputs = {}
  BY DEF Artifact
<1>4. /\ s[1].path = "disk-image/packer" /\ s[2].path = "./" /\ s[3].path = "gem5/"
      /\ s[4].path = "gem5/util/m5/build/x86/out/m5" /\ s[5].path = BootImage
      /\ s[6].path = "gem5/build/X86/gem5.opt" /\ s[7].path = "gem5/build/X86_MESI_Two_Level/gem5.opt"
      /\ s[8].path = "gem5/build/X86_MOESI_CMP_directory/gem5.opt" /\ s[9].path = "linux-stable/"
  BY DEF Artifact
<1>5. BootArtifacts = s \o t
  BY Zenon DEF BootArtifacts, Late
<1>6. /\ Len(Linuxes) \in Nat /\ DOMAIN Linuxes = 1 .. Len(Linuxes)
      /\ \A i \in 1 .. Len(Linuxes) : Linuxes[i] \in Kernels
      /\ \A i, j \in 1 .. Len(Linuxes) : Linuxes[i] = Linuxes[j] => i = j
  BY LinuxesList DEF Lists
<1> DEFINE B == {t[i] : i \in 1 .. Len(Linuxes)}
<1>7. /\ IsSeq(t) /\ Len(t) = Len(Linuxes)
      /\ \A i \in 1 .. Len(Linuxes) : t[i].name = Linuxes[i] /\ t[i].path = Linuxes[i] /\ t[i].inputs = {"experiments_repo", "linux_repo"}
  <2>1. t = [i \in 1 .. Len(Linuxes) |-> t[i]]
    BY <1>6 DEF Late
  <2>2. ASSUME NEW i \in 1 .. Len(Linuxes)
        PROVE  t[i] = Artifact(Linuxes[i], Linuxes[i], {"experiments_repo", "linux_repo"})
    BY <1>6 DEF Late
  <2>3. \A i \in 1 .. Len(Linuxes) : t[i] \in B
    OBVIOUS
  <2>4. t \in Seq(B) /\ Len(t) = Len(Linuxes)
    <3> HIDE DEF t, B
    <3> QED
      BY <1>6, <2>1, <2>3, TableIs
  <2>5. \A i \in 1 .. Len(Linuxes) : t[i].name = Linuxes[i] /\ t[i].path = Linuxes[i] /\ t[i].inputs = {"experiments_repo", "linux_repo"}
    <3> TAKE i \in 1 .. Len(Linuxes)
    <3>1. t[i] = [name |-> Linuxes[i], path |-> Linuxes[i], inputs |-> {"experiments_repo", "linux_repo"}]
      BY <2>2 DEF Artifact
    <3> HIDE DEF s, t, B
    <3> QED
      BY <3>1
  <2> QED
    BY <2>4, <2>5 DEF IsSeq
<1> HIDE DEF s, t, B
<1>8. WellOrdered(s)
  <2>1. \A i, j \in 1 .. 9 : s[i].name = s[j].name => i = j
    BY <1>2
  <2>2. ASSUME NEW k \in 1 .. 9 PROVE s[k].inputs \subseteq {s[i].name : i \in 1 .. k - 1}
    BY <1>2, <1>3
  <2> QED
    BY <1>1, <2>1, <2>2 DEF WellOrdered
<1>9. \A i \in 1 .. 9 : s[i].name \notin Kernels /\ s[i].path \notin Kernels
  BY <1>2, <1>4 DEF Kernels, BootImage
<1>10. /\ WellOrdered(s \o t) /\ Len(s \o t) = Len(s) + Len(t)
       /\ \A k \in 1 .. Len(s) : (s \o t)[k] = s[k]
       /\ \A k \in 1 .. Len(t) : (s \o t)[Len(s) + k] = t[k]
  <2>1. \A i, j \in 1 .. Len(t) : t[i].name = t[j].name => i = j
    BY <1>6, <1>7
  <2>2. \A i \in 1 .. Len(s), j \in 1 .. Len(t) : s[i].name # t[j].name
    <3> TAKE i \in 1 .. Len(s), j \in 1 .. Len(t)
    <3>1. s[i].name \notin Kernels
      BY <1>1, <1>9
    <3>2. t[j].name \in Kernels
      BY <1>6, <1>7
    <3> QED
      BY <3>1, <3>2
  <2>3. \A j \in 1 .. Len(t) : t[j].inputs \subseteq {s[i].name : i \in 1 .. Len(s)}
    BY <1>1, <1>2, <1>7
  <2>4. Continues(s, t)
    BY <1>7, <2>1, <2>2, <2>3, Zenon DEF Continues
  <2>5. WellOrdered(s \o t)
    BY <1>8, <2>4, OrderJoined, Zenon
  <2>6. Len(s \o t) = Len(s) + Len(t)
    BY <1>8, <2>4, OrderJoined, Zenon
  <2>7. \A k \in 1 .. Len(s) : (s \o t)[k] = s[k]
    BY <1>8, <2>4, OrderJoined, Zenon
  <2> QED
    BY <1>8, <2>4, <2>5, <2>6, <2>7, OrderJoined
<1>11. \A name, path : Has(s \o t, name, path) <=> Has(s, name, path) \/ Has(t, name, path)
  BY <1>1, <1>6, <1>7, <1>10, HasJoined
<1>12. /\ Has(s, "experiments_repo", "./") /\ Has(s, "gem5_repo", "gem5/") /\ Has(s, "disk_image", BootImage)
       /\ Has(s, "gem5_binary", "gem5/build/X86/gem5.opt")
       /\ Has(s, "gem5_binary_MESI_Two_Level", "gem5/build/X86_MESI_Two_Level/gem5.opt")
       /\ Has(s, "gem5_binary_MOESI_CMP_directory", "gem5/build/X86_MOESI_CMP_directory/gem5.opt")
  BY <1>1, <1>2, <1>4 DEF Has
<1>13. \A i \in 1 .. Len(Linuxes) : Has(t, Linuxes[i], Linuxes[i])
  BY <1>7 DEF Has
<1>14. \A name, path : Has(s, name, path) => name \notin Kernels /\ path \notin Kernels
  BY <1>1, <1>9 DEF Has
<1>15. \A name, path : Has(t, name, path) => name = path
  BY <1>7 DEF Has
<1> QED
  BY <1>5, <1>10, <1>11, <1>12, <1>13, <1>14, <1>15

LEMMA MicroTestsOrder ==
  /\ WellOrdered(MicroTestsArtifacts)
  /\ Has(MicroTestsArtifacts, "experiments_repo", "./")
  /\ Has(MicroTestsArtifacts, "gem5_repo", "gem5/")
  /\ Has(MicroTestsArtifacts, "gem5_binary", "gem5/build/X86/gem5.opt")
<1> DEFINE s == << Artifact("experiments_repo", "./", {}),
                   Artifact("gem5_repo", "gem5/", {}),
                   Artifact("gem5_binary", "gem5/build/X86/gem5.opt", {"gem5_repo"}) >>
           t == [i \in DOMAIN Bench |-> Artifact(Bench[i], Bench[i], {"experiments_repo"})]
<1>1. Len(s) = 3 /\ IsSeq(s)
  <2>1. s \in Seq({s[i] : i \in 1 .. 3})
    OBVIOUS
  <2> QED
    BY <2>1 DEF IsSeq
<1>2. s[1].name = "experiments_repo" /\ s[2].name = "gem5_repo" /\ s[3].name = "gem5_binary"
  BY DEF Artifact
<1>3. s[1].inputs = {} /\ s[2].inputs = {} /\ s[3].inputs = {"gem5_repo"}
  BY DEF Artifact
<1>4. s[1].path = "./" /\ s[2].path = "gem5/" /\ s[3].path = "gem5/build/X86/gem5.opt"
  BY DEF Artifact
<1>5. MicroTestsArtifacts = s \o t
  BY Zenon DEF MicroTestsArtifacts
<1>6. /\ Len(Bench) \in Nat /\ DOMAIN Bench = 1 .. Len(Bench)
      /\ \A i \in 1 .. Len(Bench) : Bench[i] \in Microbench
      /\ \A i, j \in 1 .. Len(Bench) : Bench[i] = Bench[j] => i = j
  BY BenchList DEF Lists
<1> DEFINE B == {t[i] : i \in 1 .. Len(Bench)}
<1>7. /\ IsSeq(t) /\ Len(t) = Len(Bench)
      /\ \A i \in 1 .. Len(Bench) : t[i].name = Bench[i] /\ t[i].inputs = {"experiments_repo"}
  <2>1. t = [i \in 1 .. Len(Bench) |-> t[i]]
    BY <1>6
  <2>2. ASSUME NEW i \in 1 .. Len(Bench)
        PROVE  t[i] = Artifact(Bench[i], Bench[i], {"experiments_repo"})
    BY <1>6
  <2>3. \A i \in 1 .. Len(Bench) : t[i] \in B
    OBVIOUS
  <2>4. t \in Seq(B) /\ Len(t) = Len(Bench)
    <3> HIDE DEF t, B
    <3> QED
      BY <1>6, <2>1, <2>3, TableIs
  <2>5. \A i \in 1 .. Len(Bench) : t[i].name = Bench[i] /\ t[i].inputs = {"experiments_repo"}
    <3> TAKE i \in 1 .. Len(Bench)
    <3>1. t[i] = [name |-> Bench[i], path |-> Bench[i], inputs |-> {"experiments_repo"}]
      BY <2>2 DEF Artifact
    <3> HIDE DEF s, t, B
    <3> QED
      BY <3>1
  <2> QED
    BY <2>4, <2>5 DEF IsSeq
<1> HIDE DEF s, t, B
<1>8. WellOrdered(s)
  <2>1. \A i, j \in 1 .. 3 : s[i].name = s[j].name => i = j
    BY <1>2
  <2>2. ASSUME NEW k \in 1 .. 3 PROVE s[k].inputs \subseteq {s[i].name : i \in 1 .. k - 1}
    BY <1>2, <1>3
  <2> QED
    BY <1>1, <2>1, <2>2 DEF WellOrdered
<1>9. /\ WellOrdered(s \o t) /\ Len(s \o t) = Len(s) + Len(t)
      /\ \A k \in 1 .. Len(s) : (s \o t)[k] = s[k]
      /\ \A k \in 1 .. Len(t) : (s \o t)[Len(s) + k] = t[k]
  <2>1. \A i, j \in 1 .. Len(t) : t[i].name = t[j].name => i = j
    BY <1>6, <1>7
  <2>2. \A i \in 1 .. Len(s), j \in 1 .. Len(t) : s[i].name # t[j].name
    <3> TAKE i \in 1 .. Len(s), j \in 1 .. Len(t)
    <3>1. s[i].name \notin Microbench
      BY <1>1, <1>2, MicrobenchAssumption
    <3>2. t[j].name \in Microbench
      BY <1>6, <1>7
    <3> QED
      BY <3>1, <3>2
  <2>3. \A j \in 1 .. Len(t) : t[j].inputs \subseteq {s[i].name : i \in 1 .. Len(s)}
    BY <1>1, <1>2, <1>7
  <2>4. Continues(s, t)
    BY <1>7, <2>1, <2>2, <2>3, Zenon DEF Continues
  <2>5. WellOrdered(s \o t)
    BY <1>8, <2>4, OrderJoined, Zenon
  <2>6. Len(s \o t) = Len(s) + Len(t)
    BY <1>8, <2>4, OrderJoined, Zenon
  <2>7. \A k \in 1 .. Len(s) : (s \o t)[k] = s[k]
    BY <1>8, <2>4, OrderJoined, Zenon
  <2> QED
    BY <1>8, <2>4, <2>5, <2>6, <2>7, OrderJoined
<1>10. \A name, path : Has(s \o t, name, path) <=> Has(s, name, path) \/ Has(t, name, path)
  BY <1>1, <1>6, <1>7, <1>9, HasJoined
<1>11. /\ Has(s, "experiments_repo", "./") /\ Has(s, "gem5_repo", "gem5/")
       /\ Has(s, "gem5_binary", "gem5/build/X86/gem5.opt")
  BY <1>1, <1>2, <1>4 DEF Has
<1> QED
  BY <1>5, <1>9, <1>10, <1>11

(* The scripts there are.                                                  *)
LEMMA ConfigIs ==
  ASSUME config \in Configs
  PROVE  /\ config.script \in {"spec2006", "boot_tests", "microbenchmark", "micro_tests"}
         /\ config.stores \in {"begin", "end"}
         /\ config.server = "elsewhere" => config.script \in {"spec2006", "micro_tests"}
         /\ config.server \in {"workspace", "elsewhere", "none"}
  BY DEF Configs, Config

LEMMA ArtifactsAre ==
  ASSUME config \in Configs
  PROVE  WellOrdered(Artifacts)
<1>1. config.script \in {"spec2006", "boot_tests", "microbenchmark", "micro_tests"}
  BY ConfigIs
<1> QED
  BY <1>1, SPEC2006Order, BootOrder, MicrobenchmarkOrder, MicroTestsOrder DEF Artifacts

Names == {Artifacts[k].name : k \in DOMAIN Artifacts}

LEMMA PathIs ==
  ASSUME config \in Configs, NEW name, NEW path, Has(Artifacts, name, path)
  PROVE  name \in Names /\ PathOf(name) = path
<1>1. WellOrdered(Artifacts)
  BY ArtifactsAre
<1>2. DOMAIN Artifacts = 1 .. Len(Artifacts)
  BY <1>1 DEF WellOrdered, IsSeq
<1>3. PICK k \in DOMAIN Artifacts : Artifacts[k].name = name /\ Artifacts[k].path = path
  BY <1>2 DEF Has
<1>4. \A i \in DOMAIN Artifacts : Artifacts[i].name = name => i = k
  BY <1>1, <1>2, <1>3 DEF WellOrdered
<1>5. (CHOOSE i \in DOMAIN Artifacts : Artifacts[i].name = name) = k
  BY <1>3, <1>4
<1> QED
  BY <1>3, <1>5 DEF PathOf, Names

(* ... and a name of a script is the name of an artifact.                  *)
LEMMA NameIs ==
  ASSUME config \in Configs, NEW name \in Names
  PROVE  Has(Artifacts, name, PathOf(name)) /\ PathOf(name) \in Paths
<1>1. WellOrdered(Artifacts)
  BY ArtifactsAre
<1>2. DOMAIN Artifacts = 1 .. Len(Artifacts)
  BY <1>1 DEF WellOrdered, IsSeq
<1>3. PICK k \in DOMAIN Artifacts : Artifacts[k].name = name
  BY DEF Names
<1>4. Has(Artifacts, name, Artifacts[k].path)
  BY <1>2, <1>3 DEF Has
<1>5. PathOf(name) = Artifacts[k].path
  BY <1>4, PathIs
<1> QED
  BY <1>4, <1>5 DEF Paths
---------------------------------------------------------------------------
(* The runs of a loop: one list for each of the different values that a    *)
(* place in the output directory takes.                                    *)
LoopOf(lists, keys, f, U) ==
    /\ lists = [i \in 1 .. Len(keys) |-> lists[i]]
    /\ \A i \in 1 .. Len(keys) : Lists(lists[i], {r \in U : r.outdir[f] = keys[i]})

LEMMA LoopLists ==
  ASSUME NEW keys, NEW B, Lists(keys, B), NEW f, NEW U, NEW lists, LoopOf(lists, keys, f, U)
  PROVE  Lists(FlattenSeq(lists), U)
<1> DEFINE A == [i \in 1 .. Len(keys) |-> {r \in U : r.outdir[f] = keys[i]}]
<1>1. Len(keys) \in Nat /\ \A i, j \in 1 .. Len(keys) : keys[i] = keys[j] => i = j
  BY DEF Lists
<1>2. ASSUME NEW i \in 1 .. Len(keys) PROVE A[i] = {r \in U : r.outdir[f] = keys[i]}
  OBVIOUS
<1>3. ASSUME NEW i \in 1 .. Len(keys), NEW j \in 1 .. Len(keys), i # j PROVE A[i] \cap A[j] = {}
  BY <1>1, <1>2, <1>3
<1> HIDE DEF A
<1>4. \A i \in 1 .. Len(keys) : Lists(lists[i], A[i]) /\ A[i] \subseteq U
  BY <1>2 DEF LoopOf
<1>5. lists = [i \in 1 .. Len(keys) |-> lists[i]]
  BY DEF LoopOf
<1> QED
  BY <1>1, <1>3, <1>4, <1>5, FlattenLists

(* The runs of a script are all different: those of spec2006 ...           *)
SPEC2006Set == {SPEC2006Run(cpu, size, bm) : cpu \in CPUNames, size \in SizeNames, bm \in 1 .. InnerLimit}

LEMMA SPEC2006List == Lists(SPEC2006Runs, SPEC2006Set)
<1> DEFINE inner(cpu, size) == [bm \in 1 .. InnerLimit |-> SPEC2006Run(cpu, size, bm)]
           sized(cpu) == [i \in 1 .. Len(Sizes(cpu)) |-> inner(cpu, Sizes(cpu)[i])]
           all == [i \in 1 .. Len(CPUs) |-> FlattenSeq(sized(CPUs[i]))]
<1>1. SPEC2006Runs = FlattenSeq(all)
  BY DEF SPEC2006Runs, Loop
<1>2. ASSUME NEW cpu \in CPUNames
      PROVE  Lists(FlattenSeq(sized(cpu)), {r \in SPEC2006Set : r.outdir[1] = cpu})
  <2> DEFINE U == {r \in SPEC2006Set : r.outdir[1] = cpu}
  <2>1. ASSUME NEW size \in SizeNames PROVE Lists(inner(cpu, size), {r \in U : r.outdir[2] = size})
    <3>1. ASSUME NEW bm \in 1 .. InnerLimit
          PROVE  /\ inner(cpu, size)[bm] = SPEC2006Run(cpu, size, bm)
                 /\ SPEC2006Run(cpu, size, bm).outdir = <<cpu, size, bm>>
                 /\ SPEC2006Run(cpu, size, bm) \in {r \in U : r.outdir[2] = size}
      <4>1. SPEC2006Run(cpu, size, bm).outdir = <<cpu, size, bm>>
        BY DEF SPEC2006Run, SPEC2006Outdir
      <4>2. SPEC2006Run(cpu, size, bm) \in SPEC2006Set
        BY DEF SPEC2006Set
      <4> QED
        BY <4>1, <4>2
    <3>2. inner(cpu, size) = [bm \in 1 .. InnerLimit |-> inner(cpu, size)[bm]]
      OBVIOUS
    <3> HIDE DEF inner, U
    <3>3. inner(cpu, size) \in Seq({r \in U : r.outdir[2] = size}) /\ Len(inner(cpu, size)) = InnerLimit
      BY <3>1, <3>2, TableIs, Limits
    <3>4. \A i, j \in 1 .. InnerLimit : inner(cpu, size)[i] = inner(cpu, size)[j] => i = j
      BY <3>1
    <3> QED
      BY <3>3, <3>4 DEF Lists
  <2>2. \A i \in 1 .. Len(Sizes(cpu)) : Sizes(cpu)[i] \in SizeNames /\ sized(cpu)[i] = inner(cpu, Sizes(cpu)[i])
    BY SizesList DEF Lists
  <2>3. sized(cpu) = [i \in 1 .. Len(Sizes(cpu)) |-> sized(cpu)[i]]
    OBVIOUS
  <2> HIDE DEF U, sized, inner
  <2>4. \A i \in 1 .. Len(Sizes(cpu)) : Lists(sized(cpu)[i], {r \in U : r.outdir[2] = Sizes(cpu)[i]})
    BY <2>1, <2>2
  <2>5. LoopOf(sized(cpu), Sizes(cpu), 2, U)
    BY <2>3, <2>4, Zenon DEF LoopOf
  <2>6. Lists(FlattenSeq(sized(cpu)), U)
    BY <2>5, SizesList, LoopLists, Zenon
  <2> QED
    BY <2>6 DEF U
<1>3. \A i \in 1 .. Len(CPUs) : CPUs[i] \in CPUNames /\ all[i] = FlattenSeq(sized(CPUs[i]))
  BY CPUsList DEF Lists
<1>4. all = [i \in 1 .. Len(CPUs) |-> all[i]]
  OBVIOUS
<1> HIDE DEF all, sized
<1>5. \A i \in 1 .. Len(CPUs) : Lists(all[i], {r \in SPEC2006Set : r.outdir[1] = CPUs[i]})
  BY <1>2, <1>3
<1>6. LoopOf(all, CPUs, 1, SPEC2006Set)
  BY <1>4, <1>5, Zenon DEF LoopOf
<1> QED
  BY <1>1, <1>6, CPUsList, LoopLists, Zenon

(* ... those of boot_tests ...                                             *)
LinuxSet == {Linuxes[i] : i \in 1 .. Len(Linuxes)}
BootSet == {BootRun(version, cpu, num, mem) :
              version \in LinuxSet, cpu \in CPUNames, num \in Nat, mem \in DOMAIN BootBinary}
BootCPUs == First(InnerLimit, <<"kvm", "atomic", "simple", "o3">>)
BootNums == First(InnerLimit, <<1, 2, 4, 8>>)
BootMems == <<"MI_example", "MESI_Two_Level", "MOESI_CMP_directory">>

LEMMA BootList == Lists(BootRuns, BootSet)
<1> DEFINE one(version, cpu, num, mem) == <<BootRun(version, cpu, num, mem)>>
           mems(version, cpu, num) == [i \in 1 .. Len(BootMems) |-> one(version, cpu, num, BootMems[i])]
           nums(version, cpu) == [i \in 1 .. Len(BootNums) |-> FlattenSeq(mems(version, cpu, BootNums[i]))]
           cpus(version) == [i \in 1 .. Len(BootCPUs) |-> FlattenSeq(nums(version, BootCPUs[i]))]
           all == [i \in 1 .. Len(Linuxes) |-> FlattenSeq(cpus(Linuxes[i]))]
           U1(version) == {r \in BootSet : r.outdir[1] = version}
           U2(version, cpu) == {r \in U1(version) : r.outdir[2] = cpu}
           U3(version, cpu, num) == {r \in U2(version, cpu) : r.outdir[4] = num}
<1>1. BootRuns = FlattenSeq(all)
  BY DEF BootRuns, Loop, BootCPUs, BootNums, BootMems
<1>2. Lists(BootCPUs, CPUNames) /\ Lists(BootNums, Nat) /\ Lists(BootMems, DOMAIN BootBinary)
  BY InnerLists DEF BootCPUs, BootNums, BootMems
<1>3. ASSUME NEW version \in LinuxSet, NEW cpu \in CPUNames, NEW num \in Nat
      PROVE  Lists(FlattenSeq(mems(version, cpu, num)), U3(version, cpu, num))
  <2>1. ASSUME NEW mem \in DOMAIN BootBinary
        PROVE  Lists(one(version, cpu, num, mem), {r \in U3(version, cpu, num) : r.outdir[3] = mem})
    <3>1. BootRun(version, cpu, num, mem).outdir = <<version, cpu, mem, num>>
      BY DEF BootRun
    <3>2. BootRun(version, cpu, num, mem) \in BootSet
      BY DEF BootSet
    <3>3. BootRun(version, cpu, num, mem) \in {r \in U3(version, cpu, num) : r.outdir[3] = mem}
      BY <3>1, <3>2
    <3> DEFINE run == BootRun(version, cpu, num, mem)
               V == {r \in U3(version, cpu, num) : r.outdir[3] = mem}
    <3>4. {run} \subseteq V
      BY <3>3
    <3> HIDE DEF run, V
    <3>5. Lists(<<run>>, {run})
      BY ListOf1
    <3>6. Lists(<<run>>, V)
      BY <3>4, <3>5, ListGrows
    <3> QED
      BY <3>6 DEF run, V
  <2>2. \A i \in 1 .. Len(BootMems) : BootMems[i] \in DOMAIN BootBinary
                                       /\ mems(version, cpu, num)[i] = one(version, cpu, num, BootMems[i])
    BY <1>2 DEF Lists
  <2>3. mems(version, cpu, num) = [i \in 1 .. Len(BootMems) |-> mems(version, cpu, num)[i]]
    OBVIOUS
  <2> HIDE DEF mems, one, U3
  <2>4. \A i \in 1 .. Len(BootMems) :
           Lists(mems(version, cpu, num)[i], {r \in U3(version, cpu, num) : r.outdir[3] = BootMems[i]})
    BY <2>1, <2>2
  <2>5. LoopOf(mems(version, cpu, num), BootMems, 3, U3(version, cpu, num))
    BY <2>3, <2>4, Zenon DEF LoopOf
  <2> QED
    BY <1>2, <2>5, LoopLists, Zenon
<1>4. ASSUME NEW version \in LinuxSet, NEW cpu \in CPUNames
      PROVE  Lists(FlattenSeq(nums(version, cpu)), U2(version, cpu))
  <2>1. \A i \in 1 .. Len(BootNums) : BootNums[i] \in Nat
                                       /\ nums(version, cpu)[i] = FlattenSeq(mems(version, cpu, BootNums[i]))
    BY <1>2 DEF Lists
  <2>2. nums(version, cpu) = [i \in 1 .. Len(BootNums) |-> nums(version, cpu)[i]]
    OBVIOUS
  <2> HIDE DEF nums, mems, U2
  <2>3. \A i \in 1 .. Len(BootNums) :
           Lists(nums(version, cpu)[i], {r \in U2(version, cpu) : r.outdir[4] = BootNums[i]})
    BY <1>3, <2>1
  <2>4. LoopOf(nums(version, cpu), BootNums, 4, U2(version, cpu))
    BY <2>2, <2>3, Zenon DEF LoopOf
  <2> QED
    BY <1>2, <2>4, LoopLists, Zenon
<1>5. ASSUME NEW version \in LinuxSet
      PROVE  Lists(FlattenSeq(cpus(version)), U1(version))
  <2>1. \A i \in 1 .. Len(BootCPUs) : BootCPUs[i] \in CPUNames
                                       /\ cpus(version)[i] = FlattenSeq(nums(version, BootCPUs[i]))
    BY <1>2 DEF Lists
  <2>2. cpus(version) = [i \in 1 .. Len(BootCPUs) |-> cpus(version)[i]]
    OBVIOUS
  <2> HIDE DEF cpus, nums, U1
  <2>3. \A i \in 1 .. Len(BootCPUs) :
           Lists(cpus(version)[i], {r \in U1(version) : r.outdir[2] = BootCPUs[i]})
    BY <1>4, <2>1
  <2>4. LoopOf(cpus(version), BootCPUs, 2, U1(version))
    BY <2>2, <2>3, Zenon DEF LoopOf
  <2> QED
    BY <1>2, <2>4, LoopLists, Zenon
<1>6. \A i \in 1 .. Len(Linuxes) : Linuxes[i] \in LinuxSet /\ all[i] = FlattenSeq(cpus(Linuxes[i]))
  BY LinuxesList DEF Lists, LinuxSet
<1>7. all = [i \in 1 .. Len(Linuxes) |-> all[i]]
  OBVIOUS
<1> HIDE DEF all, cpus
<1>8. \A i \in 1 .. Len(Linuxes) : Lists(all[i], {r \in BootSet : r.outdir[1] = Linuxes[i]})
  BY <1>5, <1>6
<1>9. LoopOf(all, Linuxes, 1, BootSet)
  BY <1>7, <1>8, Zenon DEF LoopOf
<1> QED
  BY <1>1, <1>9, LinuxesList, LoopLists, Zenon

(* ... and those of micro_tests.                                           *)
MicroTestsSet == {MicroRun(bm, cpu, mem) :
                    bm \in 1 .. Len(Bench), cpu \in CPUNames, mem \in Memories}
MicroCPUs == First(InnerLimit, <<"TimingSimple", "DerivO3">>)
MicroMems == First(InnerLimit, <<"Inf", "SingleCycle", "Slow">>)

LEMMA MicroTestsList == Lists(MicroTestsRuns, MicroTestsSet)
<1> DEFINE one(bm, cpu, mem) == <<MicroRun(bm, cpu, mem)>>
           mems(bm, cpu) == [i \in 1 .. Len(MicroMems) |-> one(bm, cpu, MicroMems[i])]
           cpus(bm) == [i \in 1 .. Len(MicroCPUs) |-> FlattenSeq(mems(bm, MicroCPUs[i]))]
           bms == [i \in DOMAIN Bench |-> i]
           all == [i \in 1 .. Len(bms) |-> FlattenSeq(cpus(bms[i]))]
           U1(bm) == {r \in MicroTestsSet : r.outdir[1] = bm}
           U2(bm, cpu) == {r \in U1(bm) : r.outdir[2] = cpu}
<1>1. MicroTestsRuns = FlattenSeq(all)
  BY DEF MicroTestsRuns, Loop, MicroCPUs, MicroMems
<1>2. Lists(MicroCPUs, CPUNames) /\ Lists(MicroMems, Memories)
  BY InnerLists DEF MicroCPUs, MicroMems
<1>3. Lists(bms, 1 .. Len(Bench))
  <2>1. Len(Bench) \in Nat /\ DOMAIN Bench = 1 .. Len(Bench)
    BY BenchList DEF Lists
  <2>2. bms = [i \in 1 .. Len(Bench) |-> bms[i]] /\ \A i \in 1 .. Len(Bench) : bms[i] = i
    BY <2>1
  <2> HIDE DEF bms
  <2>3. bms \in Seq(1 .. Len(Bench)) /\ Len(bms) = Len(Bench)
    BY <2>1, <2>2, TableIs
  <2> QED
    BY <2>2, <2>3 DEF Lists
<1>4. ASSUME NEW bm \in 1 .. Len(Bench), NEW cpu \in CPUNames
      PROVE  Lists(FlattenSeq(mems(bm, cpu)), U2(bm, cpu))
  <2>1. ASSUME NEW mem \in Memories
        PROVE  Lists(one(bm, cpu, mem), {r \in U2(bm, cpu) : r.outdir[3] = mem})
    <3> DEFINE run == MicroRun(bm, cpu, mem)
    <3>1. run.outdir = <<bm, cpu, mem>>
      BY DEF MicroRun
    <3>2. run \in MicroTestsSet
      BY DEF MicroTestsSet
    <3>3. run \in {r \in U2(bm, cpu) : r.outdir[3] = mem}
      BY <3>1, <3>2
    <3> DEFINE V == {r \in U2(bm, cpu) : r.outdir[3] = mem}
    <3>4. {run} \subseteq V
      BY <3>3
    <3> HIDE DEF run, V
    <3>5. Lists(<<run>>, {run})
      BY ListOf1
    <3>6. Lists(<<run>>, V)
      BY <3>4, <3>5, ListGrows
    <3> QED
      BY <3>6 DEF run, V
  <2>2. \A i \in 1 .. Len(MicroMems) : MicroMems[i] \in Memories /\ mems(bm, cpu)[i] = one(bm, cpu, MicroMems[i])
    BY <1>2 DEF Lists
  <2>3. mems(bm, cpu) = [i \in 1 .. Len(MicroMems) |-> mems(bm, cpu)[i]]
    OBVIOUS
  <2> HIDE DEF mems, one, U2
  <2>4. \A i \in 1 .. Len(MicroMems) : Lists(mems(bm, cpu)[i], {r \in U2(bm, cpu) : r.outdir[3] = MicroMems[i]})
    BY <2>1, <2>2
  <2>5. LoopOf(mems(bm, cpu), MicroMems, 3, U2(bm, cpu))
    BY <2>3, <2>4, Zenon DEF LoopOf
  <2> QED
    BY <1>2, <2>5, LoopLists, Zenon
<1>5. ASSUME NEW bm \in 1 .. Len(Bench) PROVE Lists(FlattenSeq(cpus(bm)), U1(bm))
  <2>1. \A i \in 1 .. Len(MicroCPUs) : MicroCPUs[i] \in CPUNames /\ cpus(bm)[i] = FlattenSeq(mems(bm, MicroCPUs[i]))
    BY <1>2 DEF Lists
  <2>2. cpus(bm) = [i \in 1 .. Len(MicroCPUs) |-> cpus(bm)[i]]
    OBVIOUS
  <2> HIDE DEF cpus, mems, U1
  <2>3. \A i \in 1 .. Len(MicroCPUs) : Lists(cpus(bm)[i], {r \in U1(bm) : r.outdir[2] = MicroCPUs[i]})
    BY <1>4, <2>1
  <2>4. LoopOf(cpus(bm), MicroCPUs, 2, U1(bm))
    BY <2>2, <2>3, Zenon DEF LoopOf
  <2> QED
    BY <1>2, <2>4, LoopLists, Zenon
<1> HIDE DEF bms
<1>6. \A i \in 1 .. Len(bms) : bms[i] \in 1 .. Len(Bench) /\ all[i] = FlattenSeq(cpus(bms[i]))
  BY <1>3 DEF Lists
<1>7. all = [i \in 1 .. Len(bms) |-> all[i]]
  OBVIOUS
<1> HIDE DEF all, cpus
<1>8. \A i \in 1 .. Len(bms) : Lists(all[i], {r \in MicroTestsSet : r.outdir[1] = bms[i]})
  BY <1>5, <1>6
<1>9. LoopOf(all, bms, 1, MicroTestsSet)
  BY <1>7, <1>8, Zenon DEF LoopOf
<1> QED
  BY <1>1, <1>3, <1>9, LoopLists, Zenon
---------------------------------------------------------------------------
(* The runs of the script that is configured.                              *)
RunSet == CASE config.script = "spec2006" -> SPEC2006Set
            [] config.script = "boot_tests" -> BootSet
            [] config.script = "microbenchmark" -> {}
            [] config.script = "micro_tests" -> MicroTestsSet

LEMMA RunsAre ==
  ASSUME config \in Configs
  PROVE  /\ Lists(Runs, RunSet)
         /\ Len(Runs) \in Nat /\ DOMAIN Runs = 1 .. Len(Runs)
         /\ \A k \in 1 .. Len(Runs) : Runs[k] \in RunSet
         /\ \A i, j \in 1 .. Len(Runs) : Runs[i] = Runs[j] => i = j
<1>1. config.script \in {"spec2006", "boot_tests", "microbenchmark", "micro_tests"}
  BY ConfigIs
<1>2. CASE config.script = "spec2006"
  <2>1. Runs = SPEC2006Runs /\ RunSet = SPEC2006Set
    BY <1>2 DEF Runs, RunSet
  <2> QED
    BY <2>1, SPEC2006List DEF Lists
<1>3. CASE config.script = "boot_tests"
  <2>1. Runs = BootRuns /\ RunSet = BootSet
    BY <1>3 DEF Runs, RunSet
  <2> QED
    BY <2>1, BootList DEF Lists
<1>4. CASE config.script = "microbenchmark"
  <2>1. Runs = <<>> /\ RunSet = {}
    BY <1>4 DEF Runs, RunSet
  <2> QED
    BY <2>1, NoList DEF Lists
<1>5. CASE config.script = "micro_tests"
  <2>1. Runs = MicroTestsRuns /\ RunSet = MicroTestsSet
    BY <1>5 DEF Runs, RunSet
  <2> QED
    BY <2>1, MicroTestsList DEF Lists
<1> QED
  BY <1>1, <1>2, <1>3, <1>4, <1>5

(* Its directory or its parameters tell what a run is.                     *)
LEMMA SPEC2006Is ==
  ASSUME NEW r \in SPEC2006Set
  PROVE  /\ r = SPEC2006Run(r.outdir[1], r.outdir[2], r.outdir[3])
         /\ r = SPEC2006Run(r.params[1], r.params[3], r.params[2])
<1>1. PICK cpu, size, bm : r = SPEC2006Run(cpu, size, bm)
  BY DEF SPEC2006Set
<1>2. r.outdir = <<cpu, size, bm>> /\ r.params = <<cpu, bm, size>>
  BY <1>1 DEF SPEC2006Run, SPEC2006Outdir
<1>3. /\ r.outdir[1] = cpu /\ r.outdir[2] = size /\ r.outdir[3] = bm
      /\ r.params[1] = cpu /\ r.params[3] = size /\ r.params[2] = bm
  BY <1>2
<1> QED
  BY <1>1, <1>3, Zenon

LEMMA BootIs ==
  ASSUME NEW r \in BootSet
  PROVE  /\ r = BootRun(r.outdir[1], r.outdir[2], r.outdir[4], r.outdir[3])
         /\ r = BootRun(r.outdir[1], r.params[1], r.params[3], r.params[2])
         /\ r.outdir[1] \in LinuxSet /\ r.params[2] \in DOMAIN BootBinary
<1>1. PICK version, cpu, num, mem : /\ r = BootRun(version, cpu, num, mem)
                                    /\ version \in LinuxSet /\ mem \in DOMAIN BootBinary
  BY DEF BootSet
<1>2. r.outdir = <<version, cpu, mem, num>> /\ r.params = <<cpu, mem, num>>
  BY <1>1 DEF BootRun
<1>3. /\ r.outdir[1] = version /\ r.outdir[2] = cpu /\ r.outdir[3] = mem /\ r.outdir[4] = num
      /\ r.params[1] = cpu /\ r.params[2] = mem /\ r.params[3] = num
  BY <1>2
<1> QED
  BY <1>1, <1>3, Zenon

LEMMA MicroTestsIs ==
  ASSUME NEW r \in MicroTestsSet
  PROVE  /\ r = MicroRun(r.outdir[1], r.outdir[2], r.outdir[3])
         /\ r = MicroRun(r.params[3], r.params[1], r.params[2])
         /\ r.params[3] \in 1 .. Len(Bench)
<1> DEFINE run(bm, cpu, mem) == MicroRun(bm, cpu, mem)
<1>a. r \in {run(bm, cpu, mem) : bm \in 1 .. Len(Bench), cpu \in CPUNames, mem \in Memories}
  BY DEF MicroTestsSet
<1> HIDE DEF run
<1>b. PICK bm \in 1 .. Len(Bench), cpu \in CPUNames, mem \in Memories : r = run(bm, cpu, mem)
  BY <1>a
<1>1. r = MicroRun(bm, cpu, mem) /\ bm \in 1 .. Len(Bench)
  BY <1>b DEF run
<1>2. r.outdir = <<bm, cpu, mem>> /\ r.params = <<cpu, mem, bm>>
  BY <1>1 DEF MicroRun
<1>3. /\ r.outdir[1] = bm /\ r.outdir[2] = cpu /\ r.outdir[3] = mem
      /\ r.params[3] = bm /\ r.params[1] = cpu /\ r.params[2] = mem
  BY <1>2
<1> QED
  BY <1>1, <1>3, Zenon

(* The artifacts of a run are registered, and each file that it uses is    *)
(* one of them, but for a microbenchmark and the third gem5 of boot_tests. *)
Unrecorded == Microbench \cup {"gem5/build/MOESI_CMP_directory/gem5.opt"}
Reads(r) == /\ r.artifacts \subseteq Names
            /\ \A u \in r.uses : u \in Unrecorded \/ \E n \in r.artifacts : PathOf(n) = u

LEMMA RunReads ==
  ASSUME config \in Configs, NEW k \in 1 .. Len(Runs)
  PROVE  Reads(Runs[k])
<1>1. config.script \in {"spec2006", "boot_tests", "microbenchmark", "micro_tests"}
  BY ConfigIs
<1>2. Runs[k] \in RunSet
  BY RunsAre
<1>3. \A name, path : Has(Artifacts, name, path) => name \in Names /\ PathOf(name) = path
  BY PathIs
<1>4. CASE config.script = "spec2006"
  <2>1. Artifacts = SPEC2006Artifacts /\ RunSet = SPEC2006Set
    BY <1>4 DEF Artifacts, RunSet
  <2>2. /\ "gem5_repo" \in Names
        /\ "gem5_binary" \in Names /\ PathOf("gem5_binary") = "gem5/build/X86/gem5.opt"
        /\ "disk_image" \in Names /\ PathOf("disk_image") = SPEC2006Image
        /\ "linux_binary" \in Names /\ PathOf("linux_binary") = "linux-4.19.83/vmlinux-4.19.83"
        /\ "run_script_repo" \in Names /\ PathOf("run_script_repo") = "gem5-configs"
    BY <1>3, <2>1, SPEC2006Order
  <2>a. Runs[k] = SPEC2006Run(Runs[k].outdir[1], Runs[k].outdir[2], Runs[k].outdir[3])
    BY <1>2, <2>1, SPEC2006Is, Zenon
  <2>3. PICK cpu, size, bm : Runs[k] = SPEC2006Run(cpu, size, bm)
    BY <2>a, Zenon
  <2>4. /\ Runs[k].artifacts = {"gem5_binary", "gem5_repo", "run_script_repo", "linux_binary", "disk_image"}
        /\ Runs[k].uses = {"gem5/build/X86/gem5.opt", "gem5-configs", "linux-4.19.83/vmlinux-4.19.83", SPEC2006Image}
    BY <2>3 DEF SPEC2006Run, FSArtifacts
  <2> QED
    BY <2>2, <2>4 DEF Reads
<1>5. CASE config.script = "boot_tests"
  <2>1. Artifacts = BootArtifacts /\ RunSet = BootSet
    BY <1>5 DEF Artifacts, RunSet
  <2>2. /\ "gem5_repo" \in Names
        /\ "experiments_repo" \in Names /\ PathOf("experiments_repo") = "./"
        /\ "disk_image" \in Names /\ PathOf("disk_image") = BootImage
        /\ "gem5_binary" \in Names /\ PathOf("gem5_binary") = "gem5/build/X86/gem5.opt"
        /\ "gem5_binary_MESI_Two_Level" \in Names
        /\ PathOf("gem5_binary_MESI_Two_Level") = "gem5/build/X86_MESI_Two_Level/gem5.opt"
        /\ "gem5_binary_MOESI_CMP_directory" \in Names
    BY <1>3, <2>1, BootOrder
  <2>3. \A version \in LinuxSet : version \in Names /\ PathOf(version) = version
    BY <1>3, <2>1, BootOrder DEF LinuxSet
  <2>4. PICK version, cpu, num, mem : /\ Runs[k] = BootRun(version, cpu, num, mem)
                                      /\ version \in LinuxSet /\ mem \in DOMAIN BootBinary
    BY <1>2, <2>1, BootIs, Zenon
  <2>5. /\ Runs[k].artifacts = {BootBinary[mem][1], "gem5_repo", "experiments_repo", version, "disk_image"}
        /\ Runs[k].uses = {BootBinary[mem][2], "./", version, BootImage}
    BY <2>4 DEF BootRun
  <2>6. /\ BootBinary[mem][1] \in Names
        /\ BootBinary[mem][2] \in Unrecorded \/ PathOf(BootBinary[mem][1]) = BootBinary[mem][2]
    <3>1. mem \in {"MI_example", "MESI_Two_Level", "MOESI_CMP_directory"}
      BY <2>4 DEF BootBinary
    <3>2. /\ BootBinary["MI_example"] = <<"gem5_binary", "gem5/build/X86/gem5.opt">>
          /\ BootBinary["MESI_Two_Level"] = <<"gem5_binary_MESI_Two_Level", "gem5/build/X86_MESI_Two_Level/gem5.opt">>
          /\ BootBinary["MOESI_CMP_directory"] = <<"gem5_binary_MOESI_CMP_directory",
                                                   "gem5/build/MOESI_CMP_directory/gem5.opt">>
      BY DEF BootBinary
    <3> QED
      BY <2>2, <3>1, <3>2 DEF Unrecorded
  <2> QED
    BY <2>2, <2>3, <2>4, <2>5, <2>6 DEF Reads
<1>6. ASSUME Artifacts = MicroTestsArtifacts,
             NEW bm \in 1 .. Len(Bench), NEW cpu, NEW mem, Runs[k] = MicroRun(bm, cpu, mem)
      PROVE  Reads(Runs[k])
  <2>1. /\ "gem5_repo" \in Names
        /\ "experiments_repo" \in Names /\ PathOf("experiments_repo") = "./"
        /\ "gem5_binary" \in Names /\ PathOf("gem5_binary") = "gem5/build/X86/gem5.opt"
    BY <1>3, <1>6, MicroTestsOrder
  <2>2. /\ Runs[k].artifacts = {"gem5_binary", "gem5_repo", "experiments_repo"}
        /\ Runs[k].uses = {"gem5/build/X86/gem5.opt", "./", Bench[bm]}
    BY <1>6 DEF MicroRun
  <2>3. Bench[bm] \in Unrecorded
    BY BenchList DEF Unrecorded, Lists
  <2> QED
    BY <2>1, <2>2, <2>3 DEF Reads
<1>7. CASE config.script = "microbenchmark"
  BY <1>2, <1>7 DEF RunSet
<1>8. CASE config.script = "micro_tests"
  <2>1. Artifacts = MicroTestsArtifacts /\ RunSet = MicroTestsSet
    BY <1>8 DEF Artifacts, RunSet
  <2>a. /\ Runs[k] = MicroRun(Runs[k].params[3], Runs[k].params[1], Runs[k].params[2])
        /\ Runs[k].params[3] \in 1 .. Len(Bench)
    BY <1>2, <2>1, MicroTestsIs, Zenon
  <2>2. PICK bm, cpu, mem : bm \in 1 .. Len(Bench) /\ Runs[k] = MicroRun(bm, cpu, mem)
    BY <2>a, Zenon
  <2> QED
    BY <1>6, <2>1, <2>2
<1> QED
  BY <1>1, <1>4, <1>5, <1>7, <1>8

(* Two runs of one script do not write into the same directory.            *)
LEMMA OutdirTells ==
  ASSUME config \in Configs,
         NEW i \in 1 .. Len(Runs), NEW j \in 1 .. Len(Runs), Runs[i].outdir = Runs[j].outdir
  PROVE  i = j
<1>1. config.script \in {"spec2006", "boot_tests", "microbenchmark", "micro_tests"}
  BY ConfigIs
<1>2. Runs[i] \in RunSet /\ Runs[j] \in RunSet
  BY RunsAre
<1>a. config.script # "microbenchmark"
  BY <1>2 DEF RunSet
<1>3. config.script = "spec2006" => Runs[i] = Runs[j]
  <2> HAVE config.script = "spec2006"
  <2>1. RunSet = SPEC2006Set
    BY DEF RunSet
  <2> QED
    BY <1>2, <2>1, SPEC2006Is, Zenon
<1>4. config.script = "boot_tests" => Runs[i] = Runs[j]
  <2> HAVE config.script = "boot_tests"
  <2>1. RunSet = BootSet
    BY DEF RunSet
  <2> QED
    BY <1>2, <2>1, BootIs, Zenon
<1>5. config.script = "micro_tests" => Runs[i] = Runs[j]
  <2> HAVE config.script = "micro_tests"
  <2>1. RunSet = MicroTestsSet
    BY DEF RunSet
  <2> QED
    BY <1>2, <2>1, MicroTestsIs, Zenon
<1>6. Runs[i] = Runs[j]
  BY <1>1, <1>a, <1>3, <1>4, <1>5
<1> QED
  BY <1>6, RunsAre

(* The parameters and the artifacts that the database identifies a run by  *)
(* tell it from every other run of the script, whichever start it is of:   *)
(* the runs of boot_tests with the same parameters have different kernels. *)
LEMMA HashTells ==
  ASSUME config \in Configs,
         NEW a, NEW b, a[2] \in 1 .. Len(Runs), b[2] \in 1 .. Len(Runs), RunHash(a) = RunHash(b)
  PROVE  a[2] = b[2]
<1> DEFINE r == Runs[a[2]]
           s == Runs[b[2]]
<1>1. config.script \in {"spec2006", "boot_tests", "microbenchmark", "micro_tests"}
  BY ConfigIs
<1>2. r \in RunSet /\ s \in RunSet
  BY RunsAre
<1>3. r.params = s.params /\ Recorded(a) = Recorded(b)
  BY DEF RunHash, Run
<1>4. Reads(r) /\ Reads(s)
  BY RunReads
<1>5. r = s => a[2] = b[2]
  BY RunsAre
<1>6. /\ Recorded(a) = {<<PathOf(name), registered[a[1]][name]>> : name \in r.artifacts}
      /\ Recorded(b) = {<<PathOf(name), registered[b[1]][name]>> : name \in s.artifacts}
  BY DEF Recorded, Run
<1> HIDE DEF r, s
<1>7. CASE config.script = "spec2006"
  <2>1. RunSet = SPEC2006Set
    BY <1>7 DEF RunSet
  <2>2. r = s
    BY <1>2, <1>3, <2>1, SPEC2006Is, Zenon
  <2> QED
    BY <1>5, <2>2
<1>8. CASE config.script = "boot_tests"
  <2>1. RunSet = BootSet /\ Artifacts = BootArtifacts
    BY <1>8 DEF RunSet, Artifacts
  <2>2. PICK version : version \in LinuxSet /\ r = BootRun(version, r.params[1], r.params[3], r.params[2])
    BY <1>2, <2>1, BootIs, Zenon
  <2>3. PICK version2 : /\ version2 \in LinuxSet /\ s.params[2] \in DOMAIN BootBinary
                        /\ s = BootRun(version2, s.params[1], s.params[3], s.params[2])
    BY <1>2, <2>1, BootIs, Zenon
  <2>4. version \in Kernels /\ version2 \in Kernels
    BY <2>2, <2>3, LinuxesList DEF LinuxSet, Lists
  <2>5. version \in r.artifacts
    BY <2>2 DEF BootRun
  <2>6. s.artifacts \cap Kernels \subseteq {version2}
    <3> DEFINE mem == s.params[2]
    <3>1. s.artifacts = {BootBinary[mem][1], "gem5_repo", "experiments_repo", version2, "disk_image"}
      BY <2>3 DEF BootRun
    <3>2. BootBinary[mem][1] \in {"gem5_binary", "gem5_binary_MESI_Two_Level", "gem5_binary_MOESI_CMP_directory"}
      BY <2>3 DEF BootBinary
    <3>3. BootBinary[mem][1] \notin Kernels
      BY <3>2 DEF Kernels
    <3>4. {"gem5_repo", "experiments_repo", "disk_image"} \cap Kernels = {}
      BY DEF Kernels
    <3> QED
      BY <3>1, <3>3, <3>4
  <2>7. <<PathOf(version), registered[a[1]][version]>> \in Recorded(a)
    BY <1>6, <2>5
  <2>8. PICK n \in s.artifacts : PathOf(n) = PathOf(version)
    <3>1. <<PathOf(version), registered[a[1]][version]>> \in Recorded(b)
      BY <1>3, <2>7
    <3>2. PICK n \in s.artifacts :
             <<PathOf(version), registered[a[1]][version]>> = <<PathOf(n), registered[b[1]][n]>>
      BY <1>6, <3>1
    <3> QED
      BY <3>2
  <2>9. \A m \in Names : Has(BootArtifacts, m, PathOf(m))
    BY <2>1, NameIs
  <2>10. version \in Names /\ n \in Names
    BY <1>4, <2>5, <2>8 DEF Reads
  <2>11. PathOf(version) = version
    BY <2>4, <2>9, <2>10, BootOrder
  <2>12. PathOf(n) = n
    BY <2>4, <2>8, <2>9, <2>10, <2>11, BootOrder
  <2>13. version = version2
    BY <2>4, <2>6, <2>8, <2>11, <2>12
  <2>14. r = s
    BY <1>3, <2>2, <2>3, <2>13, Zenon
  <2> QED
    BY <1>5, <2>14
<1>9. CASE config.script = "microbenchmark"
  BY <1>2, <1>9 DEF RunSet
<1>10. CASE config.script = "micro_tests"
  <2>1. RunSet = MicroTestsSet
    BY <1>10 DEF RunSet
  <2>2. r = s
    BY <1>2, <1>3, <2>1, MicroTestsIs, Zenon
  <2> QED
    BY <1>5, <2>2
<1> QED
  BY <1>1, <1>7, <1>8, <1>9, <1>10
---------------------------------------------------------------------------
(* The inductive invariant.  A job is a start of the script and a place in *)
(* its list of runs, and jobs are handed out, queued and taken in that     *)
(* order: Frontier is the next one the script makes.                       *)
Versions == 0 .. 2
Files == SUBSET (Paths \X Versions)
JobState == [job : Jobs, status : Statuses, seen : Files, used : Files]

TypeInv ==
    /\ config \in Configs
    /\ files \in [Paths -> Versions]
    /\ starts \in 0 .. MaxStarts
    /\ pc \in {"stopped", "launch", "map", "error", "failed"} /\ next \in Nat \ {0}
    /\ pc = "launch" => starts # 0 /\ next <= Len(Runs) + 1
    /\ pc = "error" => next \in DOMAIN Artifacts /\ files[Artifacts[next].path] = 0
    /\ registered \in Seq([Names -> Versions]) /\ Len(registered) = starts
    /\ queue \in Seq(Jobs)
    /\ jobs \in [Workers -> {Idle} \cup JobState]

Before(a, b) == a[1] < b[1] \/ (a[1] = b[1] /\ a[2] < b[2])
Frontier == IF pc = "launch" THEN <<starts, next>> ELSE <<starts + 1, 1>>
Taken(j) == Before(j, Frontier) /\ \A i \in 1 .. Len(queue) : Before(j, queue[i])

QueueInv ==
    /\ \A i \in 1 .. Len(queue) : Before(queue[i], Frontier)
    /\ \A i, k \in 1 .. Len(queue) : i < k => Before(queue[i], queue[k])

(* Each job that a process has was taken before what waits, once, and so   *)
(* was the job of each run in the database.                                *)
TakenInv ==
    /\ \A p \in Occupied : Taken(jobs[p].job)
    /\ \A p, q \in Occupied : p # q => jobs[p].job # jobs[q].job
    /\ \A h \in db : \E j \in Jobs : Taken(j) /\ h = RunHash(j)

(* A run stored when it begins is not begun again.                         *)
Active(p) == jobs[p].status \in {"Begin run", "Spawning", "Running"}
StoreInv ==
    config.stores = "begin" =>
       /\ \A p \in Workers : Active(p) => RunHash(jobs[p].job) \in db
       /\ \A p, q \in Workers : p # q /\ Active(p) /\ Active(q) => RunHash(jobs[p].job) # RunHash(jobs[q].job)

(* Versions only grow.                                                     *)
VersionInv == \A s \in 1 .. starts : \A n \in Names : registered[s][n] <= files[PathOf(n)]

(* What a job saw when its artifacts were checked is what it records.      *)
SeenInv ==
    \A p \in Workers : jobs[p].status \in {"Spawning", "Running"} =>
       \A u \in jobs[p].seen : u \in Recorded(jobs[p].job) \/ u[1] \in Unrecorded

(* Only one script makes a call that creates no run.                       *)
CallInv == pc = "failed" => config.script = "microbenchmark"

Inv == TypeInv /\ CallInv /\ QueueInv /\ TakenInv /\ StoreInv /\ VersionInv /\ SeenInv /\ NoneLeftOut

(* The configuration does not change, nor does what depends on it alone.   *)
LEMMA SameConfig ==
  ASSUME config' = config
  PROVE  /\ Artifacts' = Artifacts /\ Runs' = Runs /\ Names' = Names /\ Paths' = Paths /\ Jobs' = Jobs
         /\ Files' = Files /\ JobState' = JobState
         /\ \A n : PathOf(n)' = PathOf(n)
         /\ \A j : Run(j)' = Run(j)
<1>1. Artifacts' = Artifacts
  BY DEF Artifacts
<1>2. Runs' = Runs
  BY DEF Runs
<1>3. Names' = Names
  BY <1>1 DEF Names
<1>4. Paths' = Paths
  BY <1>1, <1>2 DEF Paths
<1>5. Jobs' = Jobs
  BY <1>2 DEF Jobs
<1>6. Files' = Files
  BY <1>4 DEF Files
<1>7. JobState' = JobState
  BY <1>5, <1>6 DEF JobState
<1>8. ASSUME NEW n PROVE PathOf(n)' = PathOf(n)
  BY <1>1 DEF PathOf
<1>9. ASSUME NEW j PROVE Run(j)' = Run(j)
  BY <1>2 DEF Run
<1> QED
  BY <1>1, <1>2, <1>3, <1>4, <1>5, <1>6, <1>7, <1>8, <1>9

LEMMA SameHash ==
  ASSUME config' = config, \A s \in 1 .. starts : registered'[s] = registered[s],
         NEW j \in Jobs, j[1] <= starts
  PROVE  Recorded(j)' = Recorded(j) /\ RunHash(j)' = RunHash(j)
<1>1. registered'[j[1]] = registered[j[1]]
  BY DEF Jobs
<1>2. Recorded(j)' = Recorded(j)
  BY <1>1, SameConfig DEF Recorded
<1>3. RunHash(j)' = RunHash(j)
  BY <1>2, SameConfig DEF RunHash
<1> QED
  BY <1>2, <1>3

LEMMA ConfigStays == ASSUME [Next]_vars PROVE config' = config
  BY DEF Next, vars, Start, Launch, CallFails, Launched, Mapped, Kill, Take, CheckArtifacts, Spawn, Exit, TimeOut, End, Rebuild

(* What a process does, if it does anything.                               *)
LEMMA JobIs ==
  ASSUME TypeInv, NEW p \in Workers
  PROVE  /\ jobs[p] # Idle <=> jobs[p].status \in Statuses
         /\ jobs[p] # Idle => /\ jobs[p] \in JobState /\ jobs[p].job \in Jobs
                              /\ jobs[p].seen \in Files /\ jobs[p].used \in Files
         /\ jobs[p] = Idle => jobs[p].status = "idle"
         /\ Free(p) <=> jobs[p] = Idle \/ jobs[p].status \in Ended
         /\ DOMAIN jobs = Workers
<1>1. jobs[p] = Idle \/ jobs[p] \in JobState
  BY DEF TypeInv
<1>2. "idle" \notin Statuses /\ Idle.status = "idle"
  BY DEF Statuses, Ended, Idle
<1>3. jobs[p] \in JobState => /\ jobs[p].status \in Statuses /\ jobs[p].job \in Jobs
                              /\ jobs[p].seen \in Files /\ jobs[p].used \in Files
  BY DEF JobState
<1>4. DOMAIN jobs = Workers
  BY DEF TypeInv
<1>5. Free(p) <=> jobs[p].status \in Ended \/ jobs[p].status = "idle"
  BY DEF Free
<1> QED
  BY <1>1, <1>2, <1>3, <1>4, <1>5

LEMMA PlaceIs ==
  ASSUME config \in Configs, NEW j \in Jobs
  PROVE  /\ j = <<j[1], j[2]>> /\ j[1] \in 1 .. MaxStarts /\ j[2] \in 1 .. Len(Runs)
         /\ j[1] \in Nat \ {0} /\ j[2] \in Nat \ {0}
  BY RunsAre, ListAssumption DEF Jobs

(* What a simulator reads is a file of the workspace.                      *)
LEMMA ContentsAre ==
  ASSUME TypeInv, NEW j \in Jobs
  PROVE  Contents(j) \in Files
<1>1. j[2] \in DOMAIN Runs
  BY PlaceIs, RunsAre DEF TypeInv
<1>2. Run(j).uses \subseteq Paths
  BY <1>1 DEF Paths, Run
<1>3. \A path \in Paths : files[path] \in Versions
  BY DEF TypeInv
<1> QED
  BY <1>2, <1>3 DEF Contents, Files

(* A process takes a job, goes on with it, or ends it.                     *)
Begun(p, job) ==
    /\ jobs' \in [Workers -> {Idle} \cup JobState]
    /\ \A q \in Workers : q # p => jobs'[q] = jobs[q]
    /\ jobs'[p] # Idle /\ jobs'[p].job = job
    /\ jobs'[p].status = IF RunHash(job) \in db THEN "in database" ELSE "Begin run"
    /\ db' = IF RunHash(job) \notin db /\ config.stores = "begin" THEN db \cup {RunHash(job)} ELSE db

GoesOn(p) ==
    /\ jobs' \in [Workers -> {Idle} \cup JobState]
    /\ \A q \in Workers : q # p => jobs'[q] = jobs[q]
    /\ jobs[p] # Idle /\ jobs'[p] # Idle /\ jobs'[p].job = jobs[p].job
    /\ \/ jobs[p].status = "Begin run" /\ jobs'[p].status \in {"Failed artifact check", "Spawning"}
       \/ jobs[p].status = "Spawning" /\ jobs'[p].status = "Running" /\ jobs'[p].seen = jobs[p].seen

LEMMA BeginIs ==
  ASSUME TypeInv, NEW p \in Workers, NEW job \in Jobs, Begin(p, job)
  PROVE  Begun(p, job)
<1> DEFINE state == [job |-> job, status |-> IF RunHash(job) \in db THEN "in database" ELSE "Begin run",
                     seen |-> {}, used |-> {}]
<1>1. jobs' = [jobs EXCEPT ![p] = state]
  BY Zenon DEF Begin
<1>2. db' = IF RunHash(job) \notin db /\ config.stores = "begin" THEN db \cup {RunHash(job)} ELSE db
  BY Zenon DEF Begin
<1>3. state \in JobState
  <2>1. {} \in Files
    BY DEF Files
  <2>2. "in database" \in Statuses /\ "Begin run" \in Statuses
    BY DEF Statuses, Ended
  <2> QED
    BY <2>1, <2>2 DEF JobState
<1>4. state # Idle
  <2>1. state.status # Idle.status
    BY DEF Idle
  <2> QED
    BY <2>1
<1>5. state.job = job /\ state.status = IF RunHash(job) \in db THEN "in database" ELSE "Begin run"
  OBVIOUS
<1> HIDE DEF state
<1>6. jobs' \in [Workers -> {Idle} \cup JobState]
  BY <1>1, <1>3 DEF TypeInv
<1>7. jobs'[p] = state /\ \A q \in Workers : q # p => jobs'[q] = jobs[q]
  BY <1>1 DEF TypeInv
<1> QED
  BY <1>2, <1>4, <1>5, <1>6, <1>7 DEF Begun

LEMMA CheckIs ==
  ASSUME TypeInv, NEW p \in Workers, CheckArtifacts(p)
  PROVE  /\ GoesOn(p) /\ jobs[p].status = "Begin run"
         /\ \/ /\ jobs'[p].status = "Spawning" /\ jobs'[p].seen = Contents(jobs[p].job)
               /\ \A a \in Recorded(jobs[p].job) : files[a[1]] = a[2]
            \/ /\ jobs'[p].status = "Failed artifact check"
               /\ ~ (InWorkspace(p) /\ \A a \in Recorded(jobs[p].job) : files[a[1]] = a[2])
<1> DEFINE job == jobs[p].job
           matches == InWorkspace(p) /\ \A a \in Recorded(job) : files[a[1]] = a[2]
<1>1. /\ jobs[p].status = "Begin run"
      /\ IF matches THEN jobs' = [jobs EXCEPT ![p].status = "Spawning", ![p].seen = Contents(job)]
                    ELSE jobs' = [jobs EXCEPT ![p].status = "Failed artifact check"]
  BY DEF CheckArtifacts, Proceed
<1>2. jobs[p] \in JobState /\ job \in Jobs /\ jobs[p] # Idle
  BY <1>1, JobIs DEF Statuses
<1>3. Contents(job) \in Files
  BY <1>2, ContentsAre
<1>4. CASE matches
  <2> DEFINE state == [jobs[p] EXCEPT !.status = "Spawning", !.seen = Contents(job)]
  <2>1. jobs' = [jobs EXCEPT ![p] = state]
    BY <1>1, <1>4
  <2>2. state \in JobState
    BY <1>2, <1>3 DEF JobState, Statuses
  <2>3. state.status = "Spawning" /\ state.seen = Contents(job) /\ state.job = job
    BY <1>2 DEF JobState
  <2> HIDE DEF state
  <2>4. jobs' \in [Workers -> {Idle} \cup JobState]
    BY <2>1, <2>2 DEF TypeInv
  <2>5. jobs'[p] = state /\ \A q \in Workers : q # p => jobs'[q] = jobs[q]
    BY <2>1 DEF TypeInv
  <2>6. state # Idle
    <3>1. state.status # Idle.status
      BY <2>3 DEF Idle
    <3> QED
      BY <3>1
  <2>7. GoesOn(p)
    BY <1>1, <1>2, <2>3, <2>4, <2>5, <2>6 DEF GoesOn
  <2> QED
    BY <1>1, <1>4, <2>3, <2>5, <2>7
<1>5. CASE ~ matches
  <2> DEFINE state == [jobs[p] EXCEPT !.status = "Failed artifact check"]
  <2>1. jobs' = [jobs EXCEPT ![p] = state]
    BY <1>1, <1>5
  <2>2. state \in JobState
    BY <1>2 DEF JobState, Statuses, Ended
  <2>3. state.status = "Failed artifact check" /\ state.job = job
    BY <1>2 DEF JobState
  <2> HIDE DEF state
  <2>4. jobs' \in [Workers -> {Idle} \cup JobState]
    BY <2>1, <2>2 DEF TypeInv
  <2>5. jobs'[p] = state /\ \A q \in Workers : q # p => jobs'[q] = jobs[q]
    BY <2>1 DEF TypeInv
  <2>6. state # Idle
    <3>1. state.status # Idle.status
      BY <2>3 DEF Idle
    <3> QED
      BY <3>1
  <2>7. GoesOn(p)
    BY <1>1, <1>2, <2>3, <2>4, <2>5, <2>6 DEF GoesOn
  <2> QED
    BY <1>1, <1>5, <2>3, <2>5, <2>7
<1> QED
  BY <1>4, <1>5

LEMMA SpawnIs ==
  ASSUME TypeInv, NEW p \in Workers, Spawn(p)
  PROVE  GoesOn(p) /\ jobs[p].status = "Spawning"
<1> DEFINE job == jobs[p].job
           state == [jobs[p] EXCEPT !.status = "Running", !.used = Contents(job)]
<1>1. jobs[p].status = "Spawning" /\ jobs' = [jobs EXCEPT ![p] = state]
  BY DEF Spawn
<1>2. jobs[p] \in JobState /\ job \in Jobs /\ jobs[p] # Idle
  BY <1>1, JobIs DEF Statuses
<1>3. Contents(job) \in Files
  BY <1>2, ContentsAre
<1>4. state \in JobState
  BY <1>2, <1>3 DEF JobState, Statuses
<1>5. state.status = "Running" /\ state.seen = jobs[p].seen /\ state.job = job
  BY <1>2 DEF JobState
<1> HIDE DEF state
<1>6. jobs' \in [Workers -> {Idle} \cup JobState]
  BY <1>1, <1>4 DEF TypeInv
<1>7. jobs'[p] = state /\ \A q \in Workers : q # p => jobs'[q] = jobs[q]
  BY <1>1 DEF TypeInv
<1>8. state # Idle
  BY <1>5 DEF Idle
<1> QED
  BY <1>1, <1>2, <1>5, <1>6, <1>7, <1>8 DEF GoesOn

(* Workers whose jobs end or are killed.                                 *)
Leaves == /\ jobs' \in [Workers -> {Idle} \cup JobState]
          /\ \A q \in Workers : jobs'[q] = jobs[q] \/ jobs'[q] = Idle

LEMMA EndIs ==
  ASSUME TypeInv, NEW p \in Workers, End(p)
  PROVE  Leaves /\ jobs[p].status = "Running" /\ jobs[p].job \in Jobs /\ p \in Occupied
<1>1. jobs[p].status = "Running" /\ jobs' = [jobs EXCEPT ![p] = Idle]
  BY DEF End
<1>2. jobs[p] # Idle /\ jobs[p].job \in Jobs
  BY <1>1, JobIs DEF Statuses
<1> QED
  BY <1>1, <1>2 DEF TypeInv, Leaves, Occupied

LEMMA KillIs == ASSUME TypeInv, Kill PROVE Leaves
<1>1. PICK left : jobs' = [p \in DOMAIN jobs |-> IF p \in left THEN jobs[p] ELSE Idle]
  BY DEF Kill
<1> QED
  BY <1>1 DEF TypeInv, Leaves

LEMMA TypeStep ==
  ASSUME TypeInv, [Next]_vars
  PROVE  TypeInv'
<1>1. config' = config /\ config \in Configs
  BY ConfigStays DEF TypeInv
<1>2. /\ Artifacts' = Artifacts /\ Runs' = Runs /\ Names' = Names /\ Paths' = Paths /\ Jobs' = Jobs
      /\ JobState' = JobState
  BY <1>1, SameConfig
<1>3. Len(Runs) \in Nat
  BY <1>1, RunsAre
<1> DEFINE FilesOK == files' \in [Paths -> Versions]
           StartsOK == starts' \in 0 .. MaxStarts
           StageOK == /\ pc' \in {"stopped", "launch", "map", "error", "failed"} /\ next' \in Nat \ {0}
                      /\ pc' = "launch" => starts' # 0 /\ next' <= Len(Runs) + 1
           ErrorOK == pc' = "error" => next' \in DOMAIN Artifacts /\ files'[Artifacts[next'].path] = 0
           RegisteredOK == registered' \in Seq([Names -> Versions]) /\ Len(registered') = starts'
           QueueOK == queue' \in Seq(Jobs)
           JobsOK == jobs' \in [Workers -> {Idle} \cup JobState]
<1>4. TypeInv' <=> /\ FilesOK /\ StartsOK /\ StageOK /\ ErrorOK /\ RegisteredOK /\ QueueOK /\ JobsOK
  BY <1>1, <1>2, Zenon DEF TypeInv
<1>5. /\ files' = files => FilesOK
      /\ starts' = starts /\ registered' = registered => RegisteredOK
      /\ starts' = starts => StartsOK
      /\ starts' = starts /\ pc' = pc /\ next' = next => StageOK
      /\ pc' = pc /\ next' = next /\ files' = files => ErrorOK
      /\ pc' # "error" => ErrorOK
      /\ queue' = queue => QueueOK
      /\ jobs' = jobs => JobsOK
  BY DEF TypeInv
<1> SUFFICES FilesOK /\ StartsOK /\ StageOK /\ ErrorOK /\ RegisteredOK /\ QueueOK /\ JobsOK
  BY <1>4
<1>6. CASE UNCHANGED vars
  BY <1>5, <1>6 DEF vars, script
<1>7. CASE Start
  <2>1. /\ starts' = starts + 1 /\ starts < MaxStarts /\ files' = files /\ queue' = queue /\ jobs' = jobs
        /\ registered' = Append(registered, [n \in Names |-> files[PathOf(n)]])
        /\ IF {k \in DOMAIN Artifacts : Fails(k)} = {}
           THEN pc' = "launch" /\ next' = 1
           ELSE pc' = "error" /\ next' = Min({k \in DOMAIN Artifacts : Fails(k)})
    BY <1>7 DEF Start, Names
  <2>2. FilesOK /\ QueueOK /\ JobsOK
    BY <1>5, <2>1
  <2>3. StartsOK
    BY <2>1, ListAssumption DEF TypeInv
  <2>4. RegisteredOK
    <3>1. [n \in Names |-> files[PathOf(n)]] \in [Names -> Versions]
      BY <1>1, NameIs DEF TypeInv
    <3> QED
      BY <2>1, <3>1 DEF TypeInv
  <2>5. CASE {k \in DOMAIN Artifacts : Fails(k)} = {}
    <3>1. pc' = "launch" /\ next' = 1
      BY <2>1, <2>5
    <3>2. StageOK /\ ErrorOK
      BY <1>3, <2>1, <3>1 DEF TypeInv
    <3> QED
      BY <2>2, <2>3, <2>4, <3>2
  <2>6. CASE {k \in DOMAIN Artifacts : Fails(k)} # {}
    <3> DEFINE failing == {k \in DOMAIN Artifacts : Fails(k)}
    <3>1. WellOrdered(Artifacts) /\ DOMAIN Artifacts = 1 .. Len(Artifacts) /\ Len(Artifacts) \in Nat
      BY <1>1, ArtifactsAre DEF WellOrdered, IsSeq
    <3>2. failing \subseteq Nat /\ failing # {}
      BY <2>6, <3>1
    <3>3. pc' = "error" /\ next' = Min(failing)
      BY <2>1, <2>6
    <3>4. next' \in failing
      <4> HIDE DEF failing
      <4> QED
        BY <3>2, <3>3, MinIs
    <3>5. next' \in DOMAIN Artifacts /\ Fails(next')
      BY <3>4
    <3>6. Artifacts[next'].inputs \subseteq {Artifacts[i].name : i \in 1 .. next' - 1}
      BY <3>1, <3>5 DEF WellOrdered
    <3>7. files[Artifacts[next'].path] = 0
      BY <3>5, <3>6, Zenon DEF Fails
    <3>8. StageOK /\ ErrorOK
      BY <2>1, <3>1, <3>3, <3>5, <3>7
    <3> QED
      BY <2>2, <2>3, <2>4, <3>8
  <2> QED
    BY <2>5, <2>6
<1>8. CASE Launch
  <2>1. /\ pc = "launch" /\ next <= Len(Runs) /\ next' = next + 1
        /\ files' = files /\ starts' = starts /\ pc' = pc /\ registered' = registered
        /\ queue' = Append(queue, <<starts, next>>) /\ jobs' = jobs
    BY <1>8 DEF Launch
  <2>2. FilesOK /\ StartsOK /\ RegisteredOK /\ ErrorOK
    BY <1>5, <2>1
  <2>3. StageOK
    BY <1>3, <2>1 DEF TypeInv
  <2>4. <<starts, next>> \in Jobs
    BY <1>3, <2>1, ListAssumption DEF TypeInv, Jobs
  <2>5. QueueOK
    <3>1. queue \in Seq(Jobs)
      BY DEF TypeInv
    <3> QED
      BY <2>1, <2>4, <3>1
  <2>6. JobsOK
    BY <1>5, <2>1
  <2> QED
    BY <2>2, <2>3, <2>5, <2>6
<1>a. CASE CallFails
  <2>1. /\ pc' = "failed" /\ next' = next
        /\ files' = files /\ starts' = starts /\ registered' = registered
        /\ queue' = queue /\ jobs' = jobs
    BY <1>a DEF CallFails
  <2>2. StageOK
    BY <2>1 DEF TypeInv
  <2> QED
    BY <1>5, <2>1, <2>2
<1>9. CASE Launched \/ Mapped \/ Kill
  <2>1. /\ files' = files /\ starts' = starts /\ registered' = registered
        /\ pc' \in {"map", "stopped"} /\ next' \in {1, next}
        /\ jobs' = jobs \/ Kill
        /\ queue' = queue \/ queue' = <<>>
    BY <1>9 DEF Launched, Mapped, Kill
  <2>2. JobsOK
    BY <1>5, <2>1, KillIs DEF Leaves
  <2>3. FilesOK /\ StartsOK /\ RegisteredOK /\ ErrorOK
    BY <1>5, <2>1
  <2>4. StageOK
    BY <2>1 DEF TypeInv
  <2>5. QueueOK
    <3>1. queue \in Seq(Jobs) /\ <<>> \in Seq(Jobs)
      BY DEF TypeInv
    <3> QED
      BY <2>1, <3>1
  <2> QED
    BY <2>2, <2>3, <2>4, <2>5
<1>10. ASSUME NEW w \in Workers, Take(w) PROVE FilesOK /\ StartsOK /\ StageOK /\ ErrorOK /\ RegisteredOK /\ QueueOK /\ JobsOK
  <2>1. /\ queue # <<>> /\ Begin(w, Head(queue)) /\ queue' = Tail(queue)
        /\ files' = files /\ starts' = starts /\ pc' = pc /\ next' = next /\ registered' = registered
    BY <1>10 DEF Take, script
  <2>2. Head(queue) \in Jobs /\ QueueOK
    BY <2>1 DEF TypeInv
  <2>3. JobsOK
    BY <2>1, <2>2, BeginIs DEF Begun
  <2> QED
    BY <1>5, <2>1, <2>2, <2>3
<1>11. ASSUME NEW p \in Workers, CheckArtifacts(p) \/ Spawn(p) \/ Exit(p) \/ TimeOut(p)
       PROVE FilesOK /\ StartsOK /\ StageOK /\ ErrorOK /\ RegisteredOK /\ QueueOK /\ JobsOK
  <2>1. /\ files' = files /\ starts' = starts /\ pc' = pc /\ next' = next /\ registered' = registered
        /\ queue' = queue
    BY <1>11 DEF CheckArtifacts, Spawn, Exit, TimeOut, End, script
  <2>2. JobsOK
    <3>1. CheckArtifacts(p) \/ Spawn(p) \/ End(p)
      BY <1>11 DEF Exit, TimeOut
    <3> QED
      BY <3>1, CheckIs, SpawnIs, EndIs DEF GoesOn, Leaves
  <2> QED
    BY <1>5, <2>1, <2>2
<1>12. ASSUME NEW path, Rebuild(path) PROVE FilesOK /\ StartsOK /\ StageOK /\ ErrorOK /\ RegisteredOK /\ QueueOK /\ JobsOK
  <2>1. /\ files[path] = 1 /\ files' = [files EXCEPT ![path] = 2]
        /\ starts' = starts /\ pc' = pc /\ next' = next /\ registered' = registered
        /\ queue' = queue /\ jobs' = jobs
    BY <1>12 DEF Rebuild, script
  <2>2. FilesOK
    <3>1. files \in [Paths -> Versions] /\ 2 \in Versions
      BY DEF TypeInv, Versions
    <3> QED
      BY <2>1, <3>1
  <2>3. ErrorOK
    <3> SUFFICES ASSUME pc = "error" PROVE next \in DOMAIN Artifacts /\ files'[Artifacts[next].path] = 0
      BY <2>1
    <3>1. next \in DOMAIN Artifacts /\ files[Artifacts[next].path] = 0
      BY DEF TypeInv
    <3>2. Artifacts[next].path \in Paths /\ Artifacts[next].path # path
      BY <2>1, <3>1 DEF Paths
    <3> QED
      BY <2>1, <3>1, <3>2 DEF TypeInv
  <2> QED
    BY <1>5, <2>1, <2>2, <2>3
<1> QED
  BY <1>6, <1>7, <1>8, <1>a, <1>9, <1>10, <1>11, <1>12 DEF Next
---------------------------------------------------------------------------
(* Jobs are made and taken in order.                                       *)
Place(a) == a[1] \in Nat /\ a[2] \in Nat

LEMMA BeforeTrans ==
  ASSUME NEW a, NEW b, NEW c, Place(a), Place(b), Place(c), Before(a, b), Before(b, c)
  PROVE  Before(a, c)
  BY DEF Place, Before

LEMMA FrontierIs ==
  ASSUME TypeInv
  PROVE  /\ Place(Frontier)
         /\ \A j \in Jobs : Place(j)
         /\ \A j \in Jobs : Before(j, Frontier) => j[1] <= starts
         /\ \A j \in Jobs : j[1] <= starts /\ pc # "launch" => Before(j, Frontier)
<1>1. starts \in Nat /\ next \in Nat
  BY ListAssumption DEF TypeInv
<1>2. ASSUME NEW j \in Jobs PROVE Place(j) /\ j[2] >= 1
  BY PlaceIs DEF TypeInv, Place
<1>3. CASE pc = "launch"
  <2>1. Frontier[1] = starts /\ Frontier[2] = next
    BY <1>3 DEF Frontier
  <2> QED
    BY <1>1, <1>2, <1>3, <2>1 DEF Place, Before
<1>4. CASE pc # "launch"
  <2>1. Frontier[1] = starts + 1 /\ Frontier[2] = 1
    BY <1>4 DEF Frontier
  <2> QED
    BY <1>1, <1>2, <2>1 DEF Place, Before
<1> QED
  BY <1>3, <1>4

LEMMA FrontierStep ==
  ASSUME TypeInv, [Next]_vars
  PROVE  Frontier' = Frontier \/ Before(Frontier, Frontier')
<1>1. starts \in Nat /\ next \in Nat
  BY ListAssumption DEF TypeInv
<1>2. CASE starts' = starts /\ pc' = pc /\ next' = next
  BY <1>2 DEF Frontier
<1>3. CASE Start
  <2>1. Frontier = <<starts + 1, 1>>
    BY <1>3 DEF Start, Frontier
  <2>2. starts' = starts + 1 /\ ((pc' = "launch" /\ next' = 1) \/ pc' = "error")
    BY <1>3 DEF Start
  <2>3. Frontier' = <<starts + 1, 1>> \/ Frontier' = <<(starts + 1) + 1, 1>>
    BY <2>2 DEF Frontier
  <2>4. Before(<<starts + 1, 1>>, <<(starts + 1) + 1, 1>>)
    BY <1>1 DEF Before
  <2> QED
    BY <2>1, <2>3, <2>4
<1>4. CASE Launch
  <2>1. Frontier = <<starts, next>> /\ Frontier' = <<starts, next + 1>>
    BY <1>4 DEF Launch, Frontier
  <2>2. Before(<<starts, next>>, <<starts, next + 1>>)
    BY <1>1 DEF Before
  <2> QED
    BY <2>1, <2>2
<1>5. CASE CallFails \/ Launched \/ Mapped \/ Kill
  <2>1. starts' = starts /\ pc' # "launch"
    BY <1>5 DEF CallFails, Launched, Mapped, Kill
  <2>2. Frontier' = <<starts + 1, 1>>
    BY <2>1 DEF Frontier
  <2>3. Frontier = <<starts, next>> \/ Frontier = <<starts + 1, 1>>
    BY DEF Frontier
  <2>4. Before(<<starts, next>>, <<starts + 1, 1>>)
    BY <1>1 DEF Before
  <2> QED
    BY <2>2, <2>3, <2>4
<1>6. [Next]_vars /\ ~ (Start \/ Launch \/ CallFails \/ Launched \/ Mapped \/ Kill) => starts' = starts /\ pc' = pc /\ next' = next
  BY DEF Next, vars, script, Take, CheckArtifacts, Spawn, Exit, TimeOut, End, Rebuild
<1> QED
  BY <1>2, <1>3, <1>4, <1>5, <1>6

LEMMA FrontierNext == ASSUME TypeInv, [Next]_vars PROVE Place(Frontier')
<1>1. starts' \in Nat /\ next' \in Nat
  BY TypeStep, ListAssumption DEF TypeInv
<1>2. Frontier' = <<starts', next'>> \/ Frontier' = <<starts' + 1, 1>>
  BY DEF Frontier
<1> QED
  BY <1>1, <1>2 DEF Place

(* What happens to the queue.                                              *)
LEMMA QueueChanges ==
  ASSUME TypeInv, [Next]_vars
  PROVE  \/ queue' = queue
         \/ queue' = <<>>
         \/ queue # <<>> /\ queue' = Tail(queue)
         \/ queue' = Append(queue, Frontier) /\ Before(Frontier, Frontier')
<1>1. CASE Launch
  <2>1. Frontier = <<starts, next>> /\ Frontier' = <<starts, next + 1>>
    BY <1>1 DEF Launch, Frontier
  <2>2. Before(<<starts, next>>, <<starts, next + 1>>)
    BY DEF Before, TypeInv
  <2>3. queue' = Append(queue, <<starts, next>>)
    BY <1>1 DEF Launch
  <2> QED
    BY <2>1, <2>2, <2>3
<1>2. [Next]_vars /\ ~ Launch => queue' = queue \/ queue' = <<>> \/ (queue # <<>> /\ queue' = Tail(queue))
  BY DEF Next, vars, Start, CallFails, Launched, Mapped, Kill, Take, CheckArtifacts, Spawn, Exit, TimeOut, End, Rebuild
<1> QED
  BY <1>1, <1>2

LEMMA QueueStep ==
  ASSUME TypeInv, QueueInv, [Next]_vars
  PROVE  QueueInv'
<1> DEFINE q == queue
           r == queue'
           F == Frontier
           G == Frontier'
<1>1. q \in Seq(Jobs) /\ Len(q) \in Nat
  BY DEF TypeInv
<1>2. r \in Seq(Jobs) /\ Len(r) \in Nat
  <2>1. TypeInv' /\ Jobs' = Jobs
    BY TypeStep, ConfigStays, SameConfig
  <2> QED
    BY <2>1 DEF TypeInv
<1>3. Place(F) /\ Place(G) /\ \A j \in Jobs : Place(j)
  BY FrontierIs, FrontierNext
<1>4. G = F \/ Before(F, G)
  BY FrontierStep
<1>5. /\ \A i \in 1 .. Len(q) : Before(q[i], F)
      /\ \A i, k \in 1 .. Len(q) : i < k => Before(q[i], q[k])
  BY DEF QueueInv
<1>6. \A i \in 1 .. Len(q) : Before(q[i], G)
  <2> TAKE i \in 1 .. Len(q)
  <2>1. q[i] \in Jobs
    BY <1>1
  <2>2. Before(q[i], F)
    BY <1>5
  <2> HIDE DEF q, F, G
  <2> QED
    BY <1>3, <1>4, <2>1, <2>2, BeforeTrans
<1>7. r = q \/ r = <<>> \/ (q # <<>> /\ r = Tail(q)) \/ (r = Append(q, F) /\ Before(F, G))
  BY QueueChanges
<1>8. QueueInv' <=> /\ \A i \in 1 .. Len(r) : Before(r[i], G)
                    /\ \A i, k \in 1 .. Len(r) : i < k => Before(r[i], r[k])
  BY DEF QueueInv, Before
<1> HIDE DEF q, r, F, G
<1>9. CASE r = q
  BY <1>5, <1>6, <1>8, <1>9
<1>10. CASE r = <<>>
  BY <1>8, <1>10
<1>11. CASE q # <<>> /\ r = Tail(q)
  <2>1. Len(r) = Len(q) - 1 /\ \A i \in 1 .. Len(r) : r[i] = q[i + 1] /\ i + 1 \in 1 .. Len(q)
    BY <1>1, <1>11
  <2>2. \A i \in 1 .. Len(r) : Before(r[i], G)
    BY <1>6, <2>1
  <2>3. \A i, k \in 1 .. Len(r) : i < k => Before(r[i], r[k])
    <3> TAKE i, k \in 1 .. Len(r)
    <3> HAVE i < k
    <3>1. r[i] = q[i + 1] /\ r[k] = q[k + 1] /\ i + 1 \in 1 .. Len(q) /\ k + 1 \in 1 .. Len(q) /\ i + 1 < k + 1
      BY <2>1
    <3> QED
      BY <1>5, <3>1
  <2> QED
    BY <1>8, <2>2, <2>3
<1>12. CASE r = Append(q, F) /\ Before(F, G)
  <2>1. /\ Len(r) = Len(q) + 1 /\ r[Len(q) + 1] = F
        /\ \A i \in 1 .. Len(q) : r[i] = q[i]
    BY <1>1, <1>12
  <2>2. \A i \in 1 .. Len(r) : i \in 1 .. Len(q) \/ i = Len(q) + 1
    BY <1>1, <2>1
  <2>3. \A i \in 1 .. Len(r) : Before(r[i], G)
    BY <1>6, <1>12, <2>1, <2>2
  <2>4. \A i, k \in 1 .. Len(r) : i < k => Before(r[i], r[k])
    <3> TAKE i, k \in 1 .. Len(r)
    <3> HAVE i < k
    <3>1. i \in 1 .. Len(q) /\ r[i] = q[i]
      BY <1>1, <2>1
    <3>2. CASE k \in 1 .. Len(q)
      BY <1>5, <2>1, <3>1, <3>2
    <3>3. CASE k = Len(q) + 1
      BY <1>5, <2>1, <3>1, <3>3
    <3> QED
      BY <2>2, <3>2, <3>3
  <2> QED
    BY <1>8, <2>3, <2>4
<1> QED
  BY <1>7, <1>9, <1>10, <1>11, <1>12

(* What is taken stays taken, and what is registered stays registered.     *)
LEMMA TakenStays ==
  ASSUME TypeInv, QueueInv, [Next]_vars, NEW j \in Jobs, Taken(j)
  PROVE  Taken(j)'
<1> DEFINE q == queue
           r == queue'
           F == Frontier
           G == Frontier'
<1>1. q \in Seq(Jobs) /\ Len(q) \in Nat
  BY DEF TypeInv
<1>2. Place(F) /\ Place(G) /\ Place(j)
  BY FrontierIs, FrontierNext
<1>3. G = F \/ Before(F, G)
  BY FrontierStep
<1>4. r = q \/ r = <<>> \/ (q # <<>> /\ r = Tail(q)) \/ (r = Append(q, F) /\ Before(F, G))
  BY QueueChanges
<1>5. Before(j, F) /\ \A i \in 1 .. Len(q) : Before(j, q[i])
  BY DEF Taken
<1>6. Taken(j)' <=> Before(j, G) /\ \A i \in 1 .. Len(r) : Before(j, r[i])
  BY DEF Taken, Before
<1> HIDE DEF q, r, F, G
<1>7. Before(j, G)
  BY <1>2, <1>3, <1>5, BeforeTrans
<1>8. CASE q # <<>> /\ r = Tail(q)
  <2>1. Len(r) = Len(q) - 1 /\ \A i \in 1 .. Len(r) : r[i] = q[i + 1] /\ i + 1 \in 1 .. Len(q)
    BY <1>1, <1>8
  <2> QED
    BY <1>5, <1>6, <1>7, <2>1
<1>9. CASE r = Append(q, F) /\ Before(F, G)
  <2>1. /\ Len(r) = Len(q) + 1 /\ r[Len(q) + 1] = F
        /\ \A i \in 1 .. Len(q) : r[i] = q[i]
    BY <1>1, <1>9
  <2>2. \A i \in 1 .. Len(r) : i \in 1 .. Len(q) \/ i = Len(q) + 1
    BY <1>1, <2>1
  <2> QED
    BY <1>5, <1>6, <1>7, <2>1, <2>2
<1> QED
  BY <1>4, <1>5, <1>6, <1>7, <1>8, <1>9

LEMMA RegisteredStays ==
  ASSUME TypeInv, [Next]_vars
  PROVE  /\ \A s \in 1 .. starts : registered'[s] = registered[s]
         /\ starts' \in Nat /\ starts <= starts'
<1>1. starts \in Nat /\ registered \in Seq([Names -> Versions]) /\ Len(registered) = starts
  BY ListAssumption DEF TypeInv
<1>2. CASE Start
  <2>1. PICK f : registered' = Append(registered, f) /\ starts' = starts + 1
    BY <1>2 DEF Start
  <2>2. f \in [Names -> Versions]
    <3>1. registered' \in Seq([Names -> Versions])
      BY TypeStep, ConfigStays, SameConfig DEF TypeInv
    <3>2. registered'[Len(registered) + 1] = f /\ Len(registered') = Len(registered) + 1
      BY <1>1, <2>1
    <3> QED
      BY <1>1, <3>1, <3>2
  <2> QED
    BY <1>1, <2>1, <2>2
<1>3. [Next]_vars /\ ~ Start => registered' = registered /\ starts' = starts
  BY DEF Next, vars, script, Launch, CallFails, Launched, Mapped, Kill, Take, CheckArtifacts, Spawn, Exit, TimeOut, End, Rebuild
<1> QED
  BY <1>1, <1>2, <1>3

LEMMA HashStays ==
  ASSUME TypeInv, [Next]_vars, NEW j \in Jobs, Taken(j)
  PROVE  Recorded(j)' = Recorded(j) /\ RunHash(j)' = RunHash(j)
<1>1. j[1] <= starts
  BY FrontierIs DEF Taken
<1> QED
  BY <1>1, SameHash, ConfigStays, RegisteredStays
---------------------------------------------------------------------------
(* A job that a process begins comes after every job that was taken.       *)
Fresh(job) == /\ job[1] <= starts
              /\ \A j \in Jobs : Taken(j) => Before(j, job)
              /\ Taken(job)'

LEMMA TakeIs ==
  ASSUME TypeInv, QueueInv, NEW w \in Workers, Take(w)
  PROVE  \E job \in Jobs : Fresh(job) /\ Begun(w, job)
<1> DEFINE q == queue
           r == queue'
<1>1. /\ q \in Seq(Jobs) /\ Len(q) \in Nat /\ Place(Frontier)
      /\ \A j \in Jobs : Before(j, Frontier) => j[1] <= starts
  BY FrontierIs DEF TypeInv
<1>2. q # <<>> /\ r = Tail(q) /\ Frontier' = Frontier
  BY DEF Take, script, Frontier
<1>3. PICK job : job = Head(q)
  OBVIOUS
<1>4. /\ 1 \in 1 .. Len(q) /\ job = q[1] /\ job \in Jobs
      /\ Len(r) = Len(q) - 1 /\ \A i \in 1 .. Len(r) : r[i] = q[i + 1] /\ i + 1 \in 1 .. Len(q) /\ 1 < i + 1
  BY <1>1, <1>2, <1>3
<1>5. Begun(w, job)
  <2>1. Begin(w, job)
    BY <1>3 DEF Take
  <2> QED
    BY <1>4, <2>1, BeginIs
<1>6. Before(job, Frontier) /\ \A i \in 1 .. Len(r) : Before(job, r[i])
  BY <1>4 DEF QueueInv
<1>7. \A j \in Jobs : Taken(j) => Before(j, job)
  BY <1>4 DEF Taken
<1>8. Taken(job)'
  <2>1. Before(job, Frontier')
    BY <1>2, <1>6
  <2> QED
    BY <1>6, <2>1 DEF Taken, Before
<1> QED
  BY <1>1, <1>4, <1>5, <1>6, <1>7, <1>8 DEF Fresh

(* All that a step can do to the jobs and to the database.                 *)
Ends == \E p \in Workers : /\ p \in Occupied /\ jobs[p].job \in Jobs
                             /\ db' = db \cup {RunHash(jobs[p].job)}
TakesOne == \E p \in Workers, job \in Jobs : Fresh(job) /\ Begun(p, job)
Checks == \E p \in Workers : GoesOn(p) /\ db' = db /\ (CheckArtifacts(p) \/ Spawn(p))

LEMMA JobChanges ==
  ASSUME TypeInv, QueueInv, [Next]_vars
  PROVE  (Leaves /\ (db' = db \/ Ends)) \/ TakesOne \/ Checks
<1>1. CASE jobs' = jobs /\ db' = db
  BY <1>1 DEF TypeInv, Leaves
<1>3. CASE Kill
  <2>1. db' = db
    BY <1>3 DEF Kill
  <2> QED
    BY <1>3, <2>1, KillIs
<1>4. ASSUME NEW w \in Workers, Take(w) PROVE TakesOne
  BY <1>4, TakeIs DEF TakesOne
<1>5. ASSUME NEW p \in Workers, CheckArtifacts(p) PROVE Checks
  <2>1. db' = db
    BY <1>5 DEF CheckArtifacts
  <2> QED
    BY <1>5, <2>1, CheckIs DEF Checks
<1>6. ASSUME NEW p \in Workers, Spawn(p) PROVE Checks
  <2>1. db' = db
    BY <1>6 DEF Spawn
  <2> QED
    BY <1>6, <2>1, SpawnIs DEF Checks
<1>7. ASSUME NEW p \in Workers, End(p) PROVE Leaves /\ Ends
  <2>1. db' = db \cup {RunHash(jobs[p].job)}
    BY <1>7 DEF End
  <2> QED
    BY <1>7, <2>1, EndIs DEF Ends
<1>8. UNCHANGED vars \/ Start \/ Launch \/ CallFails \/ Launched \/ Mapped => jobs' = jobs /\ db' = db
  BY DEF vars, Start, Launch, CallFails, Launched, Mapped
<1>9. \A path : Rebuild(path) => jobs' = jobs /\ db' = db
  BY DEF Rebuild
<1>10. \A p \in Workers : Exit(p) \/ TimeOut(p) => End(p)
  BY DEF Exit, TimeOut
<1> QED
  BY <1>1, <1>3, <1>4, <1>5, <1>6, <1>7, <1>8, <1>9, <1>10 DEF Next

(* A process that has a job goes on with the one it had, or has begun one. *)
LEMMA JobsOf ==
  ASSUME TypeInv, QueueInv, [Next]_vars, NEW p \in Workers, jobs'[p] # Idle
  PROVE  /\ jobs'[p].job \in Jobs /\ jobs'[p].status \in Statuses
         /\ \/ jobs'[p] = jobs[p] \/ GoesOn(p)
            \/ \E job \in Jobs : Fresh(job) /\ Begun(p, job)
<1>1. TypeInv' /\ Jobs' = Jobs /\ JobState' = JobState
  BY TypeStep, ConfigStays, SameConfig
<1>2. jobs'[p] \in JobState
  BY <1>1 DEF TypeInv
<1>3. jobs'[p].job \in Jobs /\ jobs'[p].status \in Statuses
  BY <1>2 DEF JobState
<1>4. CASE Leaves
  BY <1>3, <1>4 DEF Leaves
<1>5. CASE TakesOne
  <2>1. PICK q \in Workers, job \in Jobs : Fresh(job) /\ Begun(q, job)
    BY <1>5 DEF TakesOne
  <2>2. q # p => jobs'[p] = jobs[p]
    BY <2>1 DEF Begun
  <2> QED
    BY <1>3, <2>1, <2>2
<1>6. CASE Checks
  <2>1. PICK q \in Workers : GoesOn(q)
    BY <1>6 DEF Checks
  <2>2. q # p => jobs'[p] = jobs[p]
    BY <2>1 DEF GoesOn
  <2> QED
    BY <1>3, <2>1, <2>2
<1> QED
  BY <1>4, <1>5, <1>6, JobChanges

LEMMA TakenStep ==
  ASSUME TypeInv, QueueInv, TakenInv, [Next]_vars
  PROVE  TakenInv'
<1>1. Jobs' = Jobs /\ Occupied' = {p \in Workers : jobs'[p] # Idle}
  BY ConfigStays, SameConfig DEF Occupied, Idle
<1>2. ASSUME NEW p \in Workers, NEW k, jobs'[p] # Idle, k = jobs'[p].job
      PROVE  /\ k \in Jobs /\ Taken(k)'
             /\ \/ jobs[p] # Idle /\ k = jobs[p].job /\ Taken(k)
                \/ Fresh(k) /\ \A q \in Workers : q # p => jobs'[q] = jobs[q]
  <2>1. k \in Jobs
    BY <1>2, JobsOf
  <2>2. CASE jobs'[p] = jobs[p] \/ GoesOn(p)
    <3>1. jobs[p] # Idle /\ k = jobs[p].job
      BY <1>2, <2>2 DEF GoesOn
    <3>2. Taken(k)
      BY <3>1 DEF TakenInv, Occupied
    <3> QED
      BY <2>1, <3>1, <3>2, TakenStays
  <2>3. CASE \E job \in Jobs : Fresh(job) /\ Begun(p, job)
    <3>1. PICK job \in Jobs : Fresh(job) /\ Begun(p, job)
      BY <2>3
    <3>2. job = k
      BY <1>2, <3>1 DEF Begun
    <3>3. Taken(k)' /\ Fresh(k)
      BY <3>1, <3>2 DEF Fresh
    <3> QED
      BY <2>1, <3>1, <3>3 DEF Begun
  <2> QED
    BY <1>2, <2>2, <2>3, JobsOf
<1>3. ASSUME NEW p \in Workers, jobs'[p] # Idle PROVE Taken(jobs[p].job)'
  <2>1. PICK k : k = jobs'[p].job
    OBVIOUS
  <2>2. Taken(k)'
    BY <1>2, <1>3, <2>1
  <2> QED
    BY <2>1, <2>2
<1>4. ASSUME NEW p \in Workers, NEW q \in Workers, p # q, jobs'[p] # Idle, jobs'[q] # Idle
      PROVE  jobs'[p].job # jobs'[q].job
  <2>1. PICK k : k = jobs'[p].job
    OBVIOUS
  <2>2. PICK l : l = jobs'[q].job
    OBVIOUS
  <2>3. \A a, b \in Jobs : Before(a, b) => a # b
    BY FrontierIs DEF Before, Place
  <2>4. k \in Jobs /\ l \in Jobs
    BY <1>2, <1>4, <2>1, <2>2
  <2>5. CASE jobs[p] # Idle /\ k = jobs[p].job /\ Taken(k)
    <3>1. CASE jobs[q] # Idle /\ l = jobs[q].job
      BY <1>4, <2>1, <2>2, <2>5, <3>1 DEF TakenInv, Occupied
    <3>2. CASE Fresh(l)
      <4>1. Before(k, l)
        BY <2>4, <2>5, <3>2 DEF Fresh
      <4> QED
        BY <2>1, <2>2, <2>3, <2>4, <4>1
    <3> QED
      BY <1>2, <1>4, <2>2, <3>1, <3>2
  <2>6. CASE Fresh(k) /\ \A r \in Workers : r # p => jobs'[r] = jobs[r]
    <3>1. jobs[q] # Idle /\ l = jobs[q].job
      BY <1>4, <2>2, <2>6
    <3>2. Taken(l)
      BY <3>1 DEF TakenInv, Occupied
    <3>3. Before(l, k)
      BY <2>4, <2>6, <3>2 DEF Fresh
    <3> QED
      BY <2>1, <2>2, <2>3, <2>4, <3>3
  <2> QED
    BY <1>2, <1>4, <2>1, <2>5, <2>6
<1>5. ASSUME NEW j \in Jobs, Taken(j) PROVE Taken(j)' /\ RunHash(j)' = RunHash(j)
  BY <1>5, TakenStays, HashStays
<1>6. ASSUME NEW h \in db' PROVE \E j \in Jobs : Taken(j)' /\ h = RunHash(j)'
  <2>1. CASE h \in db
    <3>1. PICK j \in Jobs : Taken(j) /\ h = RunHash(j)
      BY <2>1 DEF TakenInv
    <3> QED
      BY <1>5, <3>1
  <2>2. CASE h \notin db /\ Ends
    <3>1. PICK p \in Workers : p \in Occupied /\ jobs[p].job \in Jobs /\ db' = db \cup {RunHash(jobs[p].job)}
      BY <2>2 DEF Ends
    <3>2. PICK j : j = jobs[p].job
      OBVIOUS
    <3>3. Taken(j) /\ j \in Jobs
      BY <3>1, <3>2 DEF TakenInv
    <3>4. h = RunHash(j)
      BY <1>6, <2>2, <3>1, <3>2
    <3> QED
      BY <1>5, <3>3, <3>4
  <2>3. CASE h \notin db /\ TakesOne
    <3>1. PICK p \in Workers, job \in Jobs : Fresh(job) /\ Begun(p, job)
      BY <2>3 DEF TakesOne
    <3>2. h = RunHash(job)
      BY <1>6, <2>3, <3>1 DEF Begun
    <3>3. RunHash(job)' = RunHash(job)
      BY <3>1, SameHash, ConfigStays, RegisteredStays DEF Fresh
    <3> QED
      BY <3>1, <3>2, <3>3 DEF Fresh
  <2>4. h \in db \/ db' # db
    OBVIOUS
  <2> QED
    BY <2>1, <2>2, <2>3, <2>4, JobChanges DEF Checks
<1> QED
  BY <1>1, <1>3, <1>4, <1>6 DEF TakenInv

(* A job that is active was active before, or is begun because its run is  *)
(* not in the database.                                                    *)
LEMMA StoreStep ==
  ASSUME TypeInv, QueueInv, TakenInv, StoreInv, [Next]_vars
  PROVE  StoreInv'
<1> SUFFICES ASSUME config.stores = "begin"
             PROVE  /\ \A p \in Workers : Active(p)' => RunHash(jobs[p].job)' \in db'
                    /\ \A p, q \in Workers :
                          p # q /\ Active(p)' /\ Active(q)' => RunHash(jobs[p].job)' # RunHash(jobs[q].job)'
  <2>1. config' = config
    BY ConfigStays
  <2> QED
    BY <2>1 DEF StoreInv
<1>1. db \subseteq db'
  <2>1. CASE TakesOne
    BY <2>1 DEF TakesOne, Begun
  <2>2. CASE Ends \/ db' = db
    BY <2>2 DEF Ends
  <2> QED
    BY <2>1, <2>2, JobChanges DEF Checks
<1>2. ASSUME NEW p \in Workers, NEW k, Active(p)', k = jobs'[p].job
      PROVE  /\ RunHash(k)' = RunHash(k) /\ RunHash(k) \in db'
             /\ \/ Active(p) /\ jobs[p].job = k /\ RunHash(k) \in db
                \/ RunHash(k) \notin db /\ \A q \in Workers : q # p => jobs'[q] = jobs[q]
  <2>1. jobs'[p] # Idle
    <3>1. Idle.status \notin {"Begin run", "Spawning", "Running"}
      BY DEF Idle
    <3>2. jobs'[p].status \in {"Begin run", "Spawning", "Running"}
      BY <1>2 DEF Active
    <3> QED
      BY <3>1, <3>2
  <2>2. k \in Jobs
    BY <1>2, <2>1, JobsOf
  <2>3. CASE jobs'[p] = jobs[p] \/ GoesOn(p)
    <3>1. Active(p) /\ k = jobs[p].job /\ jobs[p] # Idle
      BY <1>2, <2>1, <2>3 DEF GoesOn, Active
    <3>2. RunHash(k) \in db
      BY <3>1 DEF StoreInv
    <3>3. Taken(k)
      BY <3>1 DEF TakenInv, Occupied
    <3> QED
      BY <1>1, <2>2, <3>1, <3>2, <3>3, HashStays
  <2>4. CASE \E job \in Jobs : Fresh(job) /\ Begun(p, job)
    <3>1. Fresh(k) /\ Begun(p, k)
      BY <1>2, <2>4 DEF Begun
    <3>2. RunHash(k) \notin db
      BY <1>2, <3>1 DEF Begun, Active
    <3>3. RunHash(k)' = RunHash(k)
      BY <2>2, <3>1, SameHash, ConfigStays, RegisteredStays DEF Fresh
    <3> QED
      BY <3>1, <3>2, <3>3 DEF Begun
  <2> QED
    BY <2>1, <2>3, <2>4, JobsOf
<1>3. ASSUME NEW p \in Workers, Active(p)' PROVE RunHash(jobs[p].job)' \in db'
  <2>1. PICK k : k = jobs'[p].job
    OBVIOUS
  <2>2. RunHash(k)' \in db'
    BY <1>2, <1>3, <2>1
  <2> QED
    BY <2>1, <2>2
<1>4. ASSUME NEW p \in Workers, NEW q \in Workers, p # q, Active(p)', Active(q)'
      PROVE  RunHash(jobs[p].job)' # RunHash(jobs[q].job)'
  <2>1. PICK k : k = jobs'[p].job
    OBVIOUS
  <2>2. PICK l : l = jobs'[q].job
    OBVIOUS
  <2>3. RunHash(k)' = RunHash(k) /\ RunHash(l)' = RunHash(l)
    BY <1>2, <1>4, <2>1, <2>2
  <2>4. RunHash(k) # RunHash(l)
    <3>1. CASE Active(p) /\ jobs[p].job = k /\ RunHash(k) \in db
      <4>1. CASE Active(q) /\ jobs[q].job = l
        BY <1>4, <3>1, <4>1 DEF StoreInv
      <4>2. CASE RunHash(l) \notin db
        BY <3>1, <4>2
      <4> QED
        BY <1>2, <1>4, <2>2, <4>1, <4>2
    <3>2. CASE RunHash(k) \notin db /\ \A r \in Workers : r # p => jobs'[r] = jobs[r]
      <4>1. Active(q) /\ jobs[q].job = l
        BY <1>4, <2>2, <3>2 DEF Active
      <4>2. RunHash(l) \in db
        BY <4>1 DEF StoreInv
      <4> QED
        BY <3>2, <4>2
    <3> QED
      BY <1>2, <1>4, <2>1, <3>1, <3>2
  <2>5. RunHash(jobs[p].job)' = RunHash(k)' /\ RunHash(jobs[q].job)' = RunHash(l)'
    BY <2>1, <2>2
  <2> QED
    BY <2>3, <2>4, <2>5
<1> QED
  BY <1>3, <1>4

LEMMA FilesGrow ==
  ASSUME TypeInv, [Next]_vars
  PROVE  \A x \in Paths : files[x] \in Nat /\ files'[x] \in Nat /\ files[x] <= files'[x]
<1>1. files \in [Paths -> 0 .. 2]
  BY DEF TypeInv, Versions
<1>2. ASSUME NEW path, Rebuild(path) PROVE \A x \in Paths : files'[x] \in Nat /\ files[x] <= files'[x]
  <2>1. files[path] = 1 /\ files' = [files EXCEPT ![path] = 2]
    BY <1>2 DEF Rebuild
  <2> QED
    BY <1>1, <2>1
<1>3. [Next]_vars => files' = files \/ \E path : Rebuild(path)
  BY DEF Next, vars, Start, Launch, CallFails, Launched, Mapped, Kill, Take, CheckArtifacts, Spawn, Exit, TimeOut, End
<1> QED
  BY <1>1, <1>2, <1>3

LEMMA VersionStep ==
  ASSUME TypeInv, VersionInv, [Next]_vars
  PROVE  VersionInv'
<1>1. Names' = Names /\ \A n : PathOf(n)' = PathOf(n)
  BY ConfigStays, SameConfig
<1>2. \A n \in Names : PathOf(n) \in Paths
  BY NameIs DEF TypeInv
<1>3. starts \in Nat /\ registered \in Seq([Names -> Versions]) /\ Len(registered) = starts
  BY ListAssumption DEF TypeInv
<1>4. ASSUME NEW s \in 1 .. starts, NEW n \in Names PROVE registered'[s][n] <= files'[PathOf(n)]
  <2>1. registered'[s] = registered[s]
    BY RegisteredStays
  <2>2. registered[s][n] \in Nat
    BY <1>3 DEF Versions
  <2>3. registered[s][n] <= files[PathOf(n)]
    BY DEF VersionInv
  <2>4. files[PathOf(n)] \in Nat /\ files'[PathOf(n)] \in Nat /\ files[PathOf(n)] <= files'[PathOf(n)]
    BY <1>2, FilesGrow
  <2> QED
    BY <2>1, <2>2, <2>3, <2>4
<1>5. CASE Start
  <2>1. /\ starts' = starts + 1 /\ files' = files
        /\ registered' = Append(registered, [n \in Names |-> files[PathOf(n)]])
    BY <1>5 DEF Start, Names
  <2>2. registered'[starts + 1] = [n \in Names |-> files[PathOf(n)]]
    BY <1>3, <2>1
  <2>3. \A n \in Names : registered'[starts + 1][n] <= files'[PathOf(n)]
    <3> TAKE n \in Names
    <3>1. registered'[starts + 1][n] = files[PathOf(n)]
      BY <2>2
    <3>2. files[PathOf(n)] \in Nat /\ files'[PathOf(n)] = files[PathOf(n)]
      BY <1>2, <2>1, FilesGrow
    <3> QED
      BY <3>1, <3>2
  <2>4. \A s \in 1 .. starts' : s \in 1 .. starts \/ s = starts + 1
    BY <1>3, <2>1
  <2> QED
    BY <1>1, <1>4, <2>3, <2>4 DEF VersionInv
<1>6. [Next]_vars /\ ~ Start => starts' = starts
  BY DEF Next, vars, script, Launch, CallFails, Launched, Mapped, Kill, Take, CheckArtifacts, Spawn, Exit, TimeOut, End, Rebuild
<1> QED
  BY <1>1, <1>4, <1>5, <1>6 DEF VersionInv

LEMMA CallStep == ASSUME TypeInv, CallInv, [Next]_vars PROVE CallInv'
<1>1. config' = config
  BY ConfigStays
<1>2. CASE CallFails
  <2>1. ~CallFits
    BY <1>2 DEF CallFails
  <2>2. config.script \in {"spec2006", "boot_tests", "microbenchmark", "micro_tests"}
    BY ConfigIs DEF TypeInv
  <2> QED
    BY <1>1, <2>1, <2>2 DEF CallFits, StringsGiven, StringsRequired, CallInv
<1>3. [Next]_vars /\ ~ CallFails => pc' = pc \/ pc' # "failed"
  BY DEF Next, vars, script, Start, Launch, Launched, Mapped, Kill, Take, CheckArtifacts, Spawn, Exit, TimeOut, End, Rebuild
<1> QED
  BY <1>1, <1>2, <1>3 DEF CallInv

LEMMA SeenStep ==
  ASSUME TypeInv, QueueInv, TakenInv, SeenInv, [Next]_vars
  PROVE  SeenInv'
<1>1. Idle.status \notin {"Spawning", "Running"}
  BY DEF Idle
<1>2. ASSUME NEW p \in Workers, NEW k, jobs'[p].status \in {"Spawning", "Running"}, k = jobs'[p].job
      PROVE  \A u \in jobs'[p].seen : u \in Recorded(k)' \/ u[1] \in Unrecorded
  <2>1. jobs'[p] # Idle
    BY <1>1, <1>2
  <2>2. k \in Jobs
    BY <1>2, <2>1, JobsOf
  <2>3. ~ \E job \in Jobs : Fresh(job) /\ Begun(p, job)
    BY <1>2 DEF Begun
  <2>4. jobs[p] # Idle /\ k = jobs[p].job
    BY <1>2, <2>1, <2>3, JobsOf DEF GoesOn
  <2>5. Taken(k)
    BY <2>4 DEF TakenInv, Occupied
  <2>6. Recorded(k)' = Recorded(k)
    BY <2>2, <2>5, HashStays
  <2>7. CASE jobs[p].status \in {"Spawning", "Running"}
    <3>1. jobs'[p].seen = jobs[p].seen
      BY <2>1, <2>3, <2>7, JobsOf DEF GoesOn
    <3> QED
      BY <2>4, <2>6, <2>7, <3>1 DEF SeenInv
  <2>8. CASE jobs[p].status \notin {"Spawning", "Running"}
    <3>1. jobs'[p] # jobs[p]
      BY <1>2, <2>8
    <3>2. CheckArtifacts(p)
      <4>1. ~ Leaves
        BY <2>1, <3>1 DEF Leaves
      <4>2. CASE TakesOne
        <5>1. PICK q \in Workers, job \in Jobs : Fresh(job) /\ Begun(q, job)
          BY <4>2 DEF TakesOne
        <5>2. q = p
          BY <3>1, <5>1 DEF Begun
        <5> QED
          BY <2>3, <5>1, <5>2
      <4>3. CASE Checks
        <5>1. PICK q \in Workers : GoesOn(q) /\ (CheckArtifacts(q) \/ Spawn(q))
          BY <4>3 DEF Checks
        <5>2. q = p
          BY <3>1, <5>1 DEF GoesOn
        <5>3. ~ Spawn(p)
          BY <2>8 DEF Spawn
        <5> QED
          BY <5>1, <5>2, <5>3
      <4> QED
        BY <4>1, <4>2, <4>3, JobChanges
    <3>3. /\ jobs'[p].seen = Contents(k)
          /\ \A a \in Recorded(k) : files[a[1]] = a[2]
      BY <1>2, <2>4, <3>2, CheckIs
    <3>4. ASSUME NEW u \in Contents(k), u[1] \notin Unrecorded PROVE u \in Recorded(k)
      <4>1. PICK path \in Run(k).uses : u = <<path, files[path]>>
        BY DEF Contents
      <4>2. Reads(Run(k))
        BY <2>2, PlaceIs, RunReads DEF Run, TypeInv
      <4>3. u[1] = path
        BY <4>1
      <4>4. PICK n \in Run(k).artifacts : PathOf(n) = path
        BY <3>4, <4>1, <4>2, <4>3 DEF Reads
      <4>5. <<PathOf(n), registered[k[1]][n]>> \in Recorded(k)
        BY DEF Recorded
      <4>6. files[PathOf(n)] = registered[k[1]][n]
        BY <3>3, <4>5
      <4> QED
        BY <4>1, <4>4, <4>5, <4>6
    <3> QED
      BY <2>6, <3>3, <3>4
  <2> QED
    BY <2>7, <2>8
<1>3. ASSUME NEW p \in Workers, jobs'[p].status \in {"Spawning", "Running"}
      PROVE  \A u \in jobs'[p].seen : u \in Recorded(jobs[p].job)' \/ u[1] \in Unrecorded
  <2>1. PICK k : k = jobs'[p].job
    OBVIOUS
  <2>2. \A u \in jobs'[p].seen : u \in Recorded(k)' \/ u[1] \in Unrecorded
    BY <1>2, <1>3, <2>1
  <2>3. Recorded(jobs[p].job)' = Recorded(k)'
    BY <2>1
  <2> QED
    BY <2>2, <2>3
<1>4. Unrecorded' = Unrecorded
  BY DEF Unrecorded
<1> QED
  BY <1>1, <1>3, <1>4 DEF SeenInv

(* A job that is left out once stays one that may be left out: versions    *)
(* only grow, so an artifact that was changed remains different.           *)
LEMMA LeftOutStep ==
  ASSUME TypeInv, QueueInv, TakenInv, VersionInv, NoneLeftOut, [Next]_vars
  PROVE  NoneLeftOut'
<1>1. Occupied' = {p \in Workers : jobs'[p] # Idle} /\ config' = config
  BY ConfigStays DEF Occupied, Idle
<1> DEFINE Elsewhere == config.server = "elsewhere" /\ config.script = "spec2006"
<1>2. ASSUME NEW p \in Workers, jobs'[p] # Idle, jobs'[p].status = "in database"
      PROVE  jobs'[p].job[1] > 1
  <2>1. CASE jobs'[p] = jobs[p]
    BY <1>2, <2>1 DEF NoneLeftOut, Occupied
  <2>2. CASE GoesOn(p)
    BY <1>2, <2>2 DEF GoesOn
  <2>3. CASE \E job \in Jobs : Fresh(job) /\ Begun(p, job)
    <3>1. PICK job \in Jobs : Fresh(job) /\ Begun(p, job)
      BY <2>3
    <3>2. RunHash(job) \in db /\ jobs'[p].job = job
      BY <1>2, <3>1 DEF Begun
    <3>3. PICK j \in Jobs : Taken(j) /\ RunHash(job) = RunHash(j)
      BY <3>2 DEF TakenInv
    <3>4. j[2] = job[2]
      BY <3>3, PlaceIs, HashTells DEF TypeInv
    <3>5. Before(j, job)
      BY <3>1, <3>3 DEF Fresh
    <3>6. j[1] \in Nat \ {0} /\ job[1] \in Nat /\ j[2] \in Nat /\ job[2] \in Nat
      BY PlaceIs DEF TypeInv
    <3>7. job[1] > 1
      BY <3>4, <3>5, <3>6 DEF Before
    <3> QED
      BY <3>2, <3>7
  <2> QED
    BY <1>2, <2>1, <2>2, <2>3, JobsOf
<1>3. ASSUME NEW p \in Workers, NEW k, jobs'[p] # Idle, jobs'[p].status = "Failed artifact check", k = jobs'[p].job
      PROVE  (\E a \in Recorded(k)' : files'[a[1]] # a[2]) \/ Elsewhere
  <2>1. k \in Jobs
    BY <1>3, JobsOf
  <2>2. ~ \E job \in Jobs : Fresh(job) /\ Begun(p, job)
    BY <1>3 DEF Begun
  <2>3. jobs[p] # Idle /\ k = jobs[p].job
    BY <1>3, <2>2, JobsOf DEF GoesOn
  <2>4. Taken(k) /\ k[1] <= starts
    <3>1. Taken(k)
      BY <2>3 DEF TakenInv, Occupied
    <3> QED
      BY <2>1, <3>1, FrontierIs DEF Taken
  <2>5. Recorded(k)' = Recorded(k)
    BY <2>1, <2>4, HashStays
  <2>6. (\E a \in Recorded(k) : files[a[1]] # a[2]) \/ Elsewhere
    <3>1. CASE jobs[p].status = "Failed artifact check"
      BY <2>3, <3>1 DEF NoneLeftOut, Occupied
    <3>2. CASE jobs[p].status # "Failed artifact check"
      <4>1. jobs'[p] # jobs[p]
        BY <1>3, <3>2
      <4>2. CheckArtifacts(p)
        <5>1. ~ Leaves
          BY <1>3, <4>1 DEF Leaves
        <5>2. CASE TakesOne
          <6>1. PICK q \in Workers, job \in Jobs : Fresh(job) /\ Begun(q, job)
            BY <5>2 DEF TakesOne
          <6>2. q = p
            BY <4>1, <6>1 DEF Begun
          <6> QED
            BY <2>2, <6>1, <6>2
        <5>3. CASE Checks
          <6>1. PICK q \in Workers : GoesOn(q) /\ (CheckArtifacts(q) \/ Spawn(q))
            BY <5>3 DEF Checks
          <6>2. q = p
            BY <4>1, <6>1 DEF GoesOn
          <6>3. ~ Spawn(p)
            BY <1>3, SpawnIs DEF GoesOn
          <6> QED
            BY <6>1, <6>2, <6>3
        <5> QED
          BY <5>1, <5>2, <5>3, JobChanges
      <4>3. ~ (InWorkspace(p) /\ \A a \in Recorded(k) : files[a[1]] = a[2])
        BY <1>3, <2>3, <4>2, CheckIs
      <4>4. ~ InWorkspace(p) => Elsewhere
        BY ConfigIs DEF InWorkspace, PassesDirectory, TypeInv
      <4> QED
        BY <4>3, <4>4
    <3> QED
      BY <3>1, <3>2
  <2>7. ASSUME NEW a \in Recorded(k), files[a[1]] # a[2] PROVE files'[a[1]] # a[2]
    <3>1. PICK n \in Run(k).artifacts : a = <<PathOf(n), registered[k[1]][n]>>
      BY DEF Recorded
    <3>2. n \in Names
      BY <2>1, PlaceIs, RunReads DEF Reads, Run, TypeInv
    <3>3. PathOf(n) \in Paths
      BY <3>2, NameIs DEF TypeInv
    <3>4. k[1] \in 1 .. starts
      BY <2>1, <2>4, PlaceIs, ListAssumption DEF TypeInv
    <3>5. registered[k[1]][n] \in Nat
      <4>1. k[1] \in 1 .. Len(registered) /\ registered \in Seq([Names -> Versions])
        BY <3>4 DEF TypeInv
      <4>2. registered[k[1]] \in [Names -> Versions]
        BY <4>1
      <4>3. registered[k[1]][n] \in Versions
        BY <4>2, <3>2
      <4> QED
        BY <4>3 DEF Versions
    <3>6. registered[k[1]][n] <= files[PathOf(n)]
      BY <3>2, <3>4 DEF VersionInv
    <3>7. files[PathOf(n)] \in Nat /\ files'[PathOf(n)] \in Nat /\ files[PathOf(n)] <= files'[PathOf(n)]
      BY <3>3, FilesGrow
    <3>8. a[1] = PathOf(n) /\ a[2] = registered[k[1]][n]
      BY <3>1
    <3> QED
      BY <2>7, <3>5, <3>6, <3>7, <3>8
  <2> QED
    BY <2>5, <2>6, <2>7
<1>4. ASSUME NEW p \in Workers, jobs'[p] # Idle, jobs'[p].status = "Failed artifact check"
      PROVE  (\E a \in Recorded(jobs[p].job)' : files'[a[1]] # a[2]) \/ Elsewhere
  <2>1. PICK k : k = jobs'[p].job
    OBVIOUS
  <2>2. (\E a \in Recorded(k)' : files'[a[1]] # a[2]) \/ Elsewhere
    BY <1>3, <1>4, <2>1
  <2>3. Recorded(jobs[p].job)' = Recorded(k)'
    BY <2>1
  <2> QED
    BY <2>2, <2>3
<1> QED
  BY <1>1, <1>2, <1>4 DEF NoneLeftOut
---------------------------------------------------------------------------
LEMMA InitInv == ASSUME Init PROVE Inv
<1>1. config \in Configs /\ starts = 0 /\ pc = "stopped" /\ next = 1 /\ registered = <<>> /\ queue = <<>> /\ db = {}
  BY DEF Init
<1>2. jobs = [p \in Workers |-> Idle] /\ \A p \in Workers : jobs[p] = Idle
  BY DEF Init
<1>3. files \in [Paths -> Versions]
  BY DEF Init, Versions
<1>4. TypeInv
  <2>1. <<>> \in Seq([Names -> Versions]) /\ <<>> \in Seq(Jobs) /\ Len(<<>>) = 0
    OBVIOUS
  <2>2. jobs \in [Workers -> {Idle} \cup JobState]
    BY <1>2
  <2> QED
    BY <1>1, <1>3, <2>1, <2>2, ListAssumption DEF TypeInv
<1>5. Occupied = {} /\ \A p \in Workers : jobs[p].status = "idle"
  BY <1>2 DEF Occupied, Idle
<1>6. QueueInv /\ TakenInv /\ NoneLeftOut
  BY <1>1, <1>2, <1>5 DEF QueueInv, TakenInv, NoneLeftOut
<1>7. StoreInv /\ SeenInv
  BY <1>5 DEF StoreInv, SeenInv, Active
<1>8. VersionInv /\ CallInv
  BY <1>1 DEF VersionInv, CallInv
<1> QED
  BY <1>4, <1>6, <1>7, <1>8 DEF Inv

LEMMA NextInv == ASSUME Inv, [Next]_vars PROVE Inv'
  BY TypeStep, QueueStep, TakenStep, StoreStep, VersionStep, SeenStep, CallStep, LeftOutStep DEF Inv

LEMMA Invariance == Spec => []Inv
  BY InitInv, NextInv, PTL DEF Spec

(* The types; and Start (the registerArtifact calls of every script) ends  *)
(* in an error only for a file that is missing: each script assigns every  *)
(* input before it registers the artifact that is made from it.  Only      *)
(* launch_microbenchmark.py ends at a call that creates no run.            *)
THEOREM Types == Spec => []TypeOK
<1>1. Inv => TypeOK
  <2> SUFFICES ASSUME TypeInv, CallInv PROVE TypeOK
    BY DEF Inv
  <2>1. \A p \in Occupied : jobs[p].job \in Jobs /\ jobs[p].status \in Statuses
    BY JobIs DEF Occupied
  <2> QED
    BY <2>1 DEF TypeOK, TypeInv, CallInv, Versions
<1> QED
  BY <1>1, Invariance, PTL

(* What a simulator reads when nothing was built between the check of its  *)
(* artifacts and its spawn is what its run records, however many times the *)
(* script was started and files were built again while the job waited; but *)
(* for a microbenchmark, and for the gem5 that boot_tests registers at     *)
(* another path than it runs.                                              *)
THEOREM Reproducible == Spec => []UsesWhatItRecords
<1>1. Inv => UsesWhatItRecords
  <2> SUFFICES ASSUME SeenInv, NEW p \in Occupied, jobs[p].status = "Running", jobs[p].used = jobs[p].seen,
                      NEW u \in jobs[p].used
               PROVE  \/ u \in Recorded(jobs[p].job)
                      \/ u[1] \in Microbench \cup {"gem5/build/MOESI_CMP_directory/gem5.opt"}
    BY DEF Inv, UsesWhatItRecords
  <2> QED
    BY DEF SeenInv, Occupied, Unrecorded
<1> QED
  BY <1>1, Invariance, PTL

(* Two simulators that write into one directory are of different starts of *)
(* the script, and of runs that differ, unless a run is stored only when   *)
(* it ends.                                                                *)
THEOREM Directories == Spec => []OwnDirectory
<1>1. Inv => OwnDirectory
  <2> SUFFICES ASSUME TypeInv, TakenInv, StoreInv,
                      NEW p \in Occupied, NEW q \in Occupied,
                      p # q, jobs[p].status = "Running", jobs[q].status = "Running",
                      Run(jobs[p].job).outdir = Run(jobs[q].job).outdir
               PROVE  /\ jobs[p].job[1] # jobs[q].job[1]
                      /\ RunHash(jobs[p].job) # RunHash(jobs[q].job) \/ config.stores = "end"
    BY DEF Inv, OwnDirectory
  <2>1. /\ p \in Workers /\ q \in Workers /\ jobs[p] # Idle /\ jobs[q] # Idle
        /\ jobs[p].job \in Jobs /\ jobs[q].job \in Jobs
    BY JobIs DEF Occupied
  <2>3. jobs[p].job[2] = jobs[q].job[2]
    <3>1. jobs[p].job[2] \in 1 .. Len(Runs) /\ jobs[q].job[2] \in 1 .. Len(Runs) /\ config \in Configs
      BY <2>1, PlaceIs DEF TypeInv
    <3>2. Runs[jobs[p].job[2]].outdir = Runs[jobs[q].job[2]].outdir
      BY DEF Run
    <3> QED
      BY <3>1, <3>2, OutdirTells
  <2>4. jobs[p].job # jobs[q].job
    BY DEF TakenInv
  <2>5. jobs[p].job[1] # jobs[q].job[1]
    BY <2>1, <2>3, <2>4, PlaceIs DEF TypeInv
  <2>6. config.stores = "begin" => RunHash(jobs[p].job) # RunHash(jobs[q].job)
    BY <2>1 DEF StoreInv, Active
  <2> QED
    BY <2>5, <2>6, ConfigIs DEF TypeInv
<1> QED
  BY <1>1, Invariance, PTL

(* A job is found in the database only if the script was started before,   *)
(* and fails its check only if an artifact is no longer the registered one *)
(* or the server works elsewhere and was not told the directory.           *)
THEOREM LeftOut == Spec => []NoneLeftOut
  BY Invariance, PTL DEF Inv
=============================================================================
