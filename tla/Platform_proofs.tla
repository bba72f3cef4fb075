-------------------------- MODULE Platform_proofs --------------------------
(***************************************************************************)
(* The theorems about Platform, for every number of CPUs, size of the      *)
(* memory and place of the 64-bit bases that the assumptions allow.        *)
(*                                                                         *)
(* What a script builds does not depend on how far it has run, only on its *)
(* statements: a script lists a set of statements, and from the lists of   *)
(* its pieces follow the objects, the wires and the tables of the whole    *)
(* (Script), the part that is repeated for each CPU by induction on their  *)
(* number.  Executed says that the state is what the statements up to pc   *)
(* leave; so a script that is done has exactly the wires of WiresOf, and   *)
(* the firmware the tables of init_fs (Built).                             *)
(*                                                                         *)
(* On those wires Routed says where a request may be, which buses it has   *)
(* passed there and which addresses it may have (OnItsWay): each bus hands *)
(* it to one peer, because the ranges claimed on the bus do not meet       *)
(* (Apart), and only what may go to that place goes there.                 *)
(*                                                                         *)
(* TypeOK needs the order of the statements as well.  Sound says of a      *)
(* script that each statement finds the objects it names made and the      *)
(* ports it connects free; sound scripts that connect different ports can  *)
(* be put together (SoundJoined), and so every program is sound            *)
(* (ProgramSound).                                                         *)
(***************************************************************************)
EXTENDS Platform, TLAPS, WellFoundedInduction, FiniteSetTheorems

(* Induction over the natural numbers, for a set instead of a predicate: *)
(* every set of numbers that is not empty has a least one.               *)
LEMMA Smaller == ASSUME NEW x \in Nat, NEW y \in Nat
                 PROVE  <<x, y>> \in OpToRel(<, Nat) <=> x < y
  BY DEF OpToRel

LEMMA Least == ASSUME NEW T, T \subseteq Nat, T # {}
               PROVE  \E x \in T : \A y \in T : x <= y
<1> DEFINE R == OpToRel(<, Nat)
<1>1. IsWellFoundedOn(R, Nat)
  BY NatLessThanWellFounded
<1>2. \A x, y \in Nat : <<x, y>> \in R <=> x < y
  BY Smaller
<1> HIDE DEF R
<1>3. PICK x \in T : \A y \in T : ~ (<<y, x>> \in R)
  BY <1>1, WFMin
<1>4. ASSUME NEW y \in T PROVE x <= y
  <2>1. x \in Nat /\ y \in Nat
    OBVIOUS
  <2>2. ~ (<<y, x>> \in R)
    BY <1>3
  <2>3. ~ (y < x)
    BY <2>1, <2>2, <1>2
  <2> QED
    BY <2>1, <2>3
<1> QED
  BY <1>4

LEMMA Induct == ASSUME NEW S, 0 \in S, \A n \in Nat : n \in S => n + 1 \in S
                PROVE  Nat \subseteq S
<1> SUFFICES ASSUME NEW m \in Nat, m \notin S
             PROVE  FALSE
  OBVIOUS
<1> DEFINE T == {n \in Nat : n \notin S}
<1>1. PICK x \in T : \A y \in T : x <= y
  <2>1. T \subseteq Nat /\ T # {}
    OBVIOUS
  <2> HIDE DEF T
  <2> QED
    BY <2>1, Least
<1>2. x \in Nat \ {0} /\ x \notin S
  OBVIOUS
<1>3. x - 1 \in Nat /\ x = (x - 1) + 1
  BY <1>2
<1>4. x - 1 \notin S
  BY <1>2, <1>3
<1>5. x - 1 \in T
  BY <1>3, <1>4
<1>6. x <= x - 1
  BY <1>1, <1>5
<1> QED
  BY <1>2, <1>6
---------------------------------------------------------------------------
(* The sequence s is made of the elements of A.                          *)
Lists(s, A) == s \in Seq(A) /\ A = {s[k] : k \in 1 .. Len(s)}

(* A sequence that is joined to another lists the elements of both.      *)
LEMMA Joined == ASSUME NEW s, NEW A, Lists(s, A), NEW t, NEW B, Lists(t, B)
                PROVE  Lists(s \o t, A \cup B)
<1> USE DEF Lists
<1>1. s \o t \in Seq(A \cup B) /\ Len(s) \in Nat /\ Len(t) \in Nat /\ Len(s \o t) = Len(s) + Len(t)
  OBVIOUS
<1>2. ASSUME NEW x \in A \cup B PROVE \E k \in 1 .. Len(s \o t) : (s \o t)[k] = x
  <2>1. CASE x \in A
    <3>1. PICK k \in 1 .. Len(s) : x = s[k]
      BY <2>1
    <3> QED
      BY <3>1, <1>1
  <2>2. CASE x \in B
    <3>1. PICK k \in 1 .. Len(t) : x = t[k]
      BY <2>2
    <3>2. Len(s) + k \in 1 .. Len(s \o t) /\ (s \o t)[Len(s) + k] = t[k]
      BY SMTT(30), <3>1, <1>1
    <3> QED
      BY <3>1, <3>2
  <2> QED
    BY <2>1, <2>2
<1>3. ASSUME NEW k \in 1 .. Len(s \o t) PROVE (s \o t)[k] \in A \cup B
  BY <1>1
<1> QED
  BY <1>1, <1>2, <1>3

(* The sequences a script is written with.                               *)
LEMMA ListOf0 == Lists(<< >>, {})
  BY DEF Lists
LEMMA ListOf1 == ASSUME NEW a PROVE Lists(<<a>>, {a})
  BY DEF Lists
LEMMA ListOf2 == ASSUME NEW a, NEW b PROVE Lists(<<a, b>>, {a, b})
  BY DEF Lists
LEMMA ListOf3 == ASSUME NEW a, NEW b, NEW c PROVE Lists(<<a, b, c>>, {a, b, c})
  BY DEF Lists
LEMMA ListOf4 == ASSUME NEW a, NEW b, NEW c, NEW d PROVE Lists(<<a, b, c, d>>, {a, b, c, d})
  BY DEF Lists
LEMMA ListOf5 == ASSUME NEW a, NEW b, NEW c, NEW d, NEW e PROVE Lists(<<a, b, c, d, e>>, {a, b, c, d, e})
  BY DEF Lists
LEMMA ListOf7 == ASSUME NEW a, NEW b, NEW c, NEW d, NEW e, NEW f, NEW g
                 PROVE  Lists(<<a, b, c, d, e, f, g>>, {a, b, c, d, e, f, g})
  BY DEF Lists

(* ForEachCPU is a recursive function: one that satisfies its equation   *)
(* exists for every number of CPUs, and it lists the steps of all of     *)
(* them.                                                                 *)
Unrolls(g, n, steps) == g = [m \in 0 .. n |-> IF m = 0 THEN << >> ELSE g[m - 1] \o steps[m - 1]]

LEMMA Unrolled == ASSUME NEW steps PROVE \A n \in Nat : \E g : Unrolls(g, n, steps)
<1> DEFINE S == {n \in Nat : \E g : Unrolls(g, n, steps)}
<1>1. 0 \in S
  <2>1. Unrolls([m \in 0 .. 0 |-> << >>], 0, steps)
    BY DEF Unrolls
  <2> QED
    BY <2>1
<1>2. ASSUME NEW n \in Nat, n \in S PROVE n + 1 \in S
  <2>1. PICK g : Unrolls(g, n, steps)
    BY <1>2
  <2> DEFINE h == [m \in 0 .. n + 1 |-> IF m = n + 1 THEN g[n] \o steps[n] ELSE g[m]]
  <2>2. \A m \in 0 .. n : g[m] = IF m = 0 THEN << >> ELSE g[m - 1] \o steps[m - 1]
    BY <2>1 DEF Unrolls
  <2>3. ASSUME NEW m \in 0 .. n + 1 PROVE h[m] = IF m = 0 THEN << >> ELSE h[m - 1] \o steps[m - 1]
    <3>1. CASE m = n + 1
      <4>1. m - 1 = n /\ n # n + 1 /\ n \in 0 .. n + 1 /\ m # 0
        BY <3>1
      <4>2. h[m] = g[n] \o steps[n] /\ h[n] = g[n]
        BY <3>1, <4>1
      <4> HIDE DEF h
      <4> QED
        BY <4>1, <4>2
    <3>2. CASE m \in 0 .. n
      <4>1. h[m] = g[m] /\ (m # 0 => h[m - 1] = g[m - 1])
        BY <3>2
      <4> HIDE DEF h
      <4> QED
        BY <4>1, <2>2, <3>2
    <3> QED
      BY <3>1, <3>2
  <2>4. h = [m \in 0 .. n + 1 |-> h[m]]
    OBVIOUS
  <2> HIDE DEF h
  <2>5. Unrolls(h, n + 1, steps)
    BY <2>3, <2>4 DEF Unrolls
  <2> QED
    BY <2>5
<1>3. \A n \in Nat : n \in S => n + 1 \in S
  BY <1>2
<1> HIDE DEF S
<1>4. Nat \subseteq S
  BY <1>1, <1>3, Induct
<1> QED
  BY <1>4 DEF S

(* The union of a family.                                                *)
All(A, I) == UNION {A[i] : i \in I}

(* A script repeated for each CPU lists the statements of each.          *)
LEMMA ForEachCPULists ==
  ASSUME NEW cpus \in Nat, NEW steps, NEW A, \A i \in 0 .. cpus - 1 : Lists(steps[i], A[i])
  PROVE  Lists(ForEachCPU(cpus, steps), All(A, 0 .. cpus - 1))
<1> DEFINE g == CHOOSE f : Unrolls(f, cpus, steps)
<1>1. Unrolls(g, cpus, steps)
  BY Unrolled
<1>2. ForEachCPU(cpus, steps) = g[cpus]
  BY DEF ForEachCPU, Unrolls
<1> HIDE DEF g
<1>3. \A m \in 0 .. cpus : g[m] = IF m = 0 THEN << >> ELSE g[m - 1] \o steps[m - 1]
  BY <1>1 DEF Unrolls
<1> DEFINE T(m) == UNION {A[i] : i \in 0 .. m - 1}
           S == {m \in Nat : m <= cpus => Lists(g[m], T(m))}
<1>4. 0 \in S
  <2>1. g[0] = << >>
    <3>1. 0 \in 0 .. cpus
      OBVIOUS
    <3> QED
      BY <1>3, <3>1
  <2>2. T(0) = {}
    OBVIOUS
  <2> HIDE DEF T
  <2> QED
    BY <2>1, <2>2, ListOf0
<1>5. ASSUME NEW m \in Nat, m \in S PROVE m + 1 \in S
  <2> SUFFICES ASSUME m + 1 <= cpus PROVE Lists(g[m + 1], T(m + 1))
    OBVIOUS
  <2>1. g[m + 1] = g[m] \o steps[m]
    <3>1. m + 1 \in 0 .. cpus /\ m + 1 # 0 /\ (m + 1) - 1 = m
      OBVIOUS
    <3> QED
      BY <1>3, <3>1
  <2>2. T(m + 1) = T(m) \cup A[m]
    <3>1. 0 .. (m + 1) - 1 = (0 .. m - 1) \cup {m}
      OBVIOUS
    <3> QED
      BY <3>1
  <2>3. Lists(g[m], T(m)) /\ Lists(steps[m], A[m])
    BY <1>5
  <2> HIDE DEF T
  <2> QED
    BY <2>1, <2>2, <2>3, Joined
<1>6. \A m \in Nat : m \in S => m + 1 \in S
  BY <1>5
<1>7. Nat \subseteq S
  <2> HIDE DEF S
  <2> QED
    BY <1>4, <1>6, Induct
<1>8. Lists(g[cpus], T(cpus))
  BY <1>7
<1> QED
  BY <1>2, <1>8 DEF All
---------------------------------------------------------------------------
(* The wire that ConnectPorts adds for a statement.                      *)
Wire(p, q) == IF RequestPort(p) THEN <<p, q>> ELSE <<q, p>>

(* The elements of A are statements.                                     *)
Statements(A) == \A x \in A : \/ \E o : x = Make(o)
                              \/ \E p, q : x = Bind(p, q)
                              \/ \E f : x = ReadOption(f)
                              \/ \E t : x = Install(t)

(* What the statements of A make, connect and install.                   *)
Builds(A, objects, ws, tables) ==
    /\ Statements(A)
    /\ \A o : Make(o) \in A <=> o \in objects
    /\ \A p, q : Bind(p, q) \in A => Wire(p, q) \in ws
    /\ \A w \in ws : \E p, q : Bind(p, q) \in A /\ w = Wire(p, q)
    /\ \A t : Install(t) \in A <=> t \in tables

(* Statements of different kinds differ, and each says what it is about. *)
LEMMA Distinct ==
  /\ \A o, u : Make(o) = Make(u) <=> o = u
  /\ \A p, q, r, s : Bind(p, q) = Bind(r, s) <=> p = r /\ q = s
  /\ \A t, u : Install(t) = Install(u) <=> t = u
  /\ \A o, p, q : Make(o) # Bind(p, q)
  /\ \A o, f : Make(o) # ReadOption(f)
  /\ \A o, t : Make(o) # Install(t)
  /\ \A p, q, f : Bind(p, q) # ReadOption(f)
  /\ \A p, q, t : Bind(p, q) # Install(t)
  /\ \A f, t : ReadOption(f) # Install(t)
<1>1. \A o : Make(o).op = "make" /\ Make(o).a = o
  BY DEF Make
<1>2. \A p, q : Bind(p, q).op = "bind" /\ Bind(p, q).a = p /\ Bind(p, q).b = q
  BY DEF Bind
<1>3. \A f : ReadOption(f).op = "option"
  BY DEF ReadOption
<1>4. \A t : Install(t).op = "install" /\ Install(t).a = t
  BY DEF Install
<1>5. "make" # "bind" /\ "make" # "option" /\ "make" # "install" /\ "bind" # "option" /\ "bind" # "install"
          /\ "option" # "install"
  OBVIOUS
<1>6. \A p, q, r, s : Bind(p, q) = Bind(r, s) => p = r /\ q = s
  BY <1>2
<1>7. \A o, p, q : Make(o) # Bind(p, q)
  BY <1>1, <1>2, <1>5
<1>8. \A p, q, f : Bind(p, q) # ReadOption(f)
  BY <1>2, <1>3, <1>5
<1>9. \A p, q, t : Bind(p, q) # Install(t)
  BY <1>2, <1>4, <1>5
<1> QED
  BY <1>1, <1>3, <1>4, <1>5, <1>6, <1>7, <1>8, <1>9

(* Two sets of statements build what each of them builds, and so does a  *)
(* family of them.                                                       *)
LEMMA BuildsJoined ==
  ASSUME NEW A, NEW B, NEW o1, NEW o2, NEW w1, NEW w2, NEW f1, NEW f2,
         Builds(A, o1, w1, f1), Builds(B, o2, w2, f2)
  PROVE  Builds(A \cup B, o1 \cup o2, w1 \cup w2, f1 \cup f2)
  BY DEF Builds, Statements

LEMMA BuildsEach ==
  ASSUME NEW I, NEW A, NEW o, NEW w, \A i \in I : Builds(A[i], o[i], w[i], {})
  PROVE  Builds(All(A, I), All(o, I), All(w, I), {})
<1> DEFINE U == UNION {A[i] : i \in I}
<1>1. \A x : x \in U <=> \E i \in I : x \in A[i]
  OBVIOUS
<1>2. \A x : x \in UNION {o[i] : i \in I} <=> \E i \in I : x \in o[i]
  OBVIOUS
<1>3. \A x : x \in UNION {w[i] : i \in I} <=> \E i \in I : x \in w[i]
  OBVIOUS
<1> DEFINE O == UNION {o[i] : i \in I}
           W == UNION {w[i] : i \in I}
<1> HIDE DEF U, O, W
<1>4. Statements(U)
  BY <1>1 DEF Builds, Statements
<1>5. \A t : Install(t) \in U <=> t \in {}
  BY <1>1 DEF Builds
<1>6. \A x : Make(x) \in U <=> x \in O
  BY <1>1, <1>2 DEF Builds, O
<1>7. \A p, q : Bind(p, q) \in U => Wire(p, q) \in W
  BY <1>1, <1>3 DEF Builds, W
<1>8. \A x \in W : \E p, q : Bind(p, q) \in U /\ x = Wire(p, q)
  BY <1>1, <1>3 DEF Builds, W
<1>9. Builds(U, O, W, {})
  BY <1>4, <1>5, <1>6, <1>7, <1>8 DEF Builds
<1> QED
  BY <1>9 DEF U, O, W, All

(* What one statement builds.                                            *)
LEMMA BuildsMake == ASSUME NEW o PROVE Builds({Make(o)}, {o}, {}, {})
  BY Distinct DEF Builds, Statements
LEMMA BuildsBind == ASSUME NEW p, NEW q PROVE Builds({Bind(p, q)}, {}, {Wire(p, q)}, {})
  BY Distinct DEF Builds, Statements
LEMMA BuildsInstall == ASSUME NEW t PROVE Builds({Install(t)}, {}, {}, {t})
  BY Distinct DEF Builds, Statements
---------------------------------------------------------------------------
(* What a script builds.                                                 *)
Script(s, objects, ws, tables) == \E A : Lists(s, A) /\ Builds(A, objects, ws, tables)

(* Scripts that are put together build what their parts build.           *)
LEMMA ScriptJoined ==
  ASSUME NEW s, NEW o1, NEW w1, NEW f1, Script(s, o1, w1, f1),
         NEW t, NEW o2, NEW w2, NEW f2, Script(t, o2, w2, f2)
  PROVE  Script(s \o t, o1 \cup o2, w1 \cup w2, f1 \cup f2)
<1>1. PICK A : Lists(s, A) /\ Builds(A, o1, w1, f1)
  BY DEF Script
<1>2. PICK B : Lists(t, B) /\ Builds(B, o2, w2, f2)
  BY DEF Script
<1>3. Lists(s \o t, A \cup B)
  BY <1>1, <1>2, Joined
<1>4. Builds(A \cup B, o1 \cup o2, w1 \cup w2, f1 \cup f2)
  BY <1>1, <1>2, BuildsJoined
<1> QED
  BY <1>3, <1>4 DEF Script

LEMMA ScriptChain ==
  ASSUME NEW s1, NEW o1, NEW w1, NEW f1, Script(s1, o1, w1, f1),
         NEW s2, NEW o2, NEW w2, NEW f2, Script(s2, o2, w2, f2),
         NEW s3, NEW o3, NEW w3, NEW f3, Script(s3, o3, w3, f3),
         NEW s4, NEW o4, NEW w4, NEW f4, Script(s4, o4, w4, f4)
  PROVE  Script(s1 \o s2 \o s3 \o s4, o1 \cup o2 \cup o3 \cup o4, w1 \cup w2 \cup w3 \cup w4,
                f1 \cup f2 \cup f3 \cup f4)
<1>1. Script(s1 \o s2, o1 \cup o2, w1 \cup w2, f1 \cup f2)
  BY ScriptJoined
<1>2. Script(s1 \o s2 \o s3, o1 \cup o2 \cup o3, w1 \cup w2 \cup w3, f1 \cup f2 \cup f3)
  BY <1>1, ScriptJoined
<1> QED
  BY <1>2, ScriptJoined

LEMMA ScriptEach ==
  ASSUME NEW n \in Nat, NEW steps, NEW o, NEW w,
         \A i \in 0 .. n - 1 : Script(steps[i], o[i], w[i], {})
  PROVE  Script(ForEachCPU(n, steps), All(o, 0 .. n - 1), All(w, 0 .. n - 1), {})
<1> DEFINE A == [i \in 0 .. n - 1 |-> CHOOSE a : Lists(steps[i], a) /\ Builds(a, o[i], w[i], {})]
<1>1. \A i \in 0 .. n - 1 : Lists(steps[i], A[i]) /\ Builds(A[i], o[i], w[i], {})
  BY DEF Script
<1> HIDE DEF A
<1>2. Lists(ForEachCPU(n, steps), All(A, 0 .. n - 1))
  BY <1>1, ForEachCPULists
<1>3. Builds(All(A, 0 .. n - 1), All(o, 0 .. n - 1), All(w, 0 .. n - 1), {})
  BY <1>1, BuildsEach
<1> QED
  BY <1>2, <1>3 DEF Script

(* Scripts of one statement.                                             *)
LEMMA ScriptMake == ASSUME NEW o PROVE Script(<<Make(o)>>, {o}, {}, {})
  BY ListOf1, BuildsMake DEF Script
LEMMA ScriptBind == ASSUME NEW p, NEW q PROVE Script(<<Bind(p, q)>>, {}, {Wire(p, q)}, {})
  BY ListOf1, BuildsBind DEF Script
LEMMA ScriptInstall == ASSUME NEW t PROVE Script(<<Install(t)>>, {}, {}, {t})
  BY ListOf1, BuildsInstall DEF Script
LEMMA ScriptNothing == Script(<< >>, {}, {}, {})
<1>1. Builds({}, {}, {}, {})
  BY DEF Builds, Statements
<1> QED
  BY <1>1, ListOf0 DEF Script

(* A wire from a request port to a response port; the wires of the       *)
(* board.                                                                *)
Wired(p, q) == <<p, q>>

AttachWires == {Wired(<<"io_apic", 0, "int_master">>, Slave("iobus")),
                   Wired(Master("iobus"), <<"io_apic", 0, "pio">>),
                Wired(<<"ide", 0, "dma">>, Slave("iobus")),
                    Wired(<<"iobus", 0, "default">>, <<"pci_host", 0, "pio">>)}

(* Pc.attachIO and the I/O system build the objects and the wires of the *)
(* board.                                                                *)
LEMMA AttachScript == Script(AttachIO, {One("io_apic"), One("ide"), One("pci_host")}, AttachWires, {})
<1> DEFINE A == {Make(One("io_apic")), Make(One("ide")), Make(One("pci_host")),
                 Bind(<<"io_apic", 0, "int_master">>, Slave("iobus")),
                 Bind(<<"io_apic", 0, "pio">>, Master("iobus")),
                 Bind(<<"ide", 0, "dma">>, Slave("iobus")),
                 Bind(<<"iobus", 0, "default">>, <<"pci_host", 0, "pio">>)}
<1>1. Lists(AttachIO, A)
  BY ListOf7 DEF AttachIO
<1>2. /\ Wire(<<"io_apic", 0, "int_master">>, Slave("iobus"))
             = Wired(<<"io_apic", 0, "int_master">>, Slave("iobus"))
      /\ Wire(<<"io_apic", 0, "pio">>, Master("iobus")) = Wired(Master("iobus"), <<"io_apic", 0, "pio">>)
      /\ Wire(<<"ide", 0, "dma">>, Slave("iobus")) = Wired(<<"ide", 0, "dma">>, Slave("iobus"))
      /\ Wire(<<"iobus", 0, "default">>, <<"pci_host", 0, "pio">>)
             = Wired(<<"iobus", 0, "default">>, <<"pci_host", 0, "pio">>)
  BY DEF Wire, Wired, RequestPort, Master, Slave
<1>3. Builds(A, {One("io_apic"), One("ide"), One("pci_host")}, AttachWires, {})
  BY <1>2, Distinct DEF Builds, Statements, AttachWires
<1> QED
  BY <1>1, <1>3 DEF Script

(* The wires of the two bridges and of the I/O cache.                    *)
BridgeWires == {Wired(<<"bridge", 0, "master">>, Slave("iobus")), Wired(Master("membus"), <<"bridge", 0, "slave">>),
                Wired(Master("iobus"), <<"apicbridge", 0, "slave">>),
                    Wired(<<"apicbridge", 0, "master">>, Slave("membus"))}
IOCacheWires == {Wired(Master("iobus"), <<"iocache", 0, "cpu_side">>),
                    Wired(<<"iocache", 0, "mem_side">>, Slave("membus"))}
BoardObjects == {One("iobus"), One("bridge"), One("apicbridge"), One("io_apic"), One("ide"), One("pci_host"),
                    One("iocache")}
BoardWires == BridgeWires \cup AttachWires \cup IOCacheWires

LEMMA IOSystemScript == Script(IOSystem, BoardObjects, BoardWires, {})
<1> DEFINE s == <<Make(One("iobus")), Make(One("bridge")),
                  Bind(<<"bridge", 0, "master">>, Slave("iobus")),
                  Bind(<<"bridge", 0, "slave">>, Master("membus")),
                  Make(One("apicbridge")),
                  Bind(<<"apicbridge", 0, "slave">>, Master("iobus")),
                  Bind(<<"apicbridge", 0, "master">>, Slave("membus"))>>
           A == {Make(One("iobus")), Make(One("bridge")),
                  Bind(<<"bridge", 0, "master">>, Slave("iobus")),
                  Bind(<<"bridge", 0, "slave">>, Master("membus")),
                  Make(One("apicbridge")),
                  Bind(<<"apicbridge", 0, "slave">>, Master("iobus")),
                  Bind(<<"apicbridge", 0, "master">>, Slave("membus"))}
           t == <<Make(One("iocache")),
                  Bind(<<"iocache", 0, "cpu_side">>, Master("iobus")),
                  Bind(<<"iocache", 0, "mem_side">>, Slave("membus"))>>
           B == {Make(One("iocache")),
                  Bind(<<"iocache", 0, "cpu_side">>, Master("iobus")),
                  Bind(<<"iocache", 0, "mem_side">>, Slave("membus"))}
<1>1. Lists(s, A) /\ Lists(t, B)
  BY ListOf7, ListOf3
<1>2. /\ Wire(<<"bridge", 0, "master">>, Slave("iobus")) = Wired(<<"bridge", 0, "master">>, Slave("iobus"))
      /\ Wire(<<"bridge", 0, "slave">>, Master("membus")) = Wired(Master("membus"), <<"bridge", 0, "slave">>)
      /\ Wire(<<"apicbridge", 0, "slave">>, Master("iobus")) = Wired(Master("iobus"), <<"apicbridge", 0, "slave">>)
      /\ Wire(<<"apicbridge", 0, "master">>, Slave("membus"))
             = Wired(<<"apicbridge", 0, "master">>, Slave("membus"))
      /\ Wire(<<"iocache", 0, "cpu_side">>, Master("iobus")) = Wired(Master("iobus"), <<"iocache", 0, "cpu_side">>)
      /\ Wire(<<"iocache", 0, "mem_side">>, Slave("membus")) = Wired(<<"iocache", 0, "mem_side">>, Slave("membus"))
  BY DEF Wire, Wired, RequestPort, Master, Slave
<1>3. Builds(A, {One("iobus"), One("bridge"), One("apicbridge")}, BridgeWires, {})
  BY <1>2, Distinct DEF Builds, Statements, BridgeWires
<1>4. Builds(B, {One("iocache")}, IOCacheWires, {})
  BY <1>2, Distinct DEF Builds, Statements, IOCacheWires
<1>5. IOSystem = s \o AttachIO \o t
  BY DEF IOSystem
<1> HIDE DEF s, t, A, B
<1>6. Script(s, {One("iobus"), One("bridge"), One("apicbridge")}, BridgeWires, {})
          /\ Script(t, {One("iocache")}, IOCacheWires, {})
  BY <1>1, <1>3, <1>4 DEF Script
<1>7. Script(s \o AttachIO, {One("iobus"), One("bridge"), One("apicbridge")}
          \cup {One("io_apic"), One("ide"), One("pci_host")},
             BridgeWires \cup AttachWires, {} \cup {})
  BY <1>6, AttachScript, ScriptJoined
<1>8. Script(IOSystem, {One("iobus"), One("bridge"), One("apicbridge")}
          \cup {One("io_apic"), One("ide"), One("pci_host")} \cup {One("iocache")},
             BridgeWires \cup AttachWires \cup IOCacheWires, {} \cup {} \cup {})
  BY <1>5, <1>6, <1>7, ScriptJoined
<1>9. /\ {One("iobus"), One("bridge"), One("apicbridge")} \cup {One("io_apic"), One("ide"), One("pci_host")}
             \cup {One("iocache")} = BoardObjects
      /\ {} \cup {} \cup {} = {}
  BY DEF BoardObjects
<1> QED
  BY <1>8, <1>9 DEF BoardWires
---------------------------------------------------------------------------
(* A cache that reads its size from the options.                         *)
LEMMA ScriptSized == ASSUME NEW o, NEW f PROVE Script(<<Make(o), ReadOption(f)>>, {o}, {}, {})
<1>1. Builds({Make(o), ReadOption(f)}, {o}, {}, {})
  BY Distinct DEF Builds, Statements
<1> QED
  BY <1>1, ListOf2 DEF Script

(* The small pieces that the scripts share.                              *)
LEMMA PieceScripts ==
  /\ \A i : Script(L1ICache(i), {<<"icache", i>>}, {}, {})
  /\ \A i : Script(L1DCache(i), {<<"dcache", i>>}, {}, {})
  /\ Script(L2Cache, {One("l2cache")}, {}, {})
  /\ \A i : Script(ConnectICacheCPU(i), {}, {Wired(<<"cpu", i, "icache_port">>, <<"icache", i, "cpu_side">>)}, {})
  /\ \A i : Script(ConnectDCacheCPU(i), {}, {Wired(<<"cpu", i, "dcache_port">>, <<"dcache", i, "cpu_side">>)}, {})
  /\ \A c, i, bus : Script(ConnectBus(c, i, bus), {}, {Wired(<<c, i, "mem_side">>, Slave(bus))}, {})
  /\ \A bus : Script(ConnectCPUSideBus(bus), {}, {Wired(Master(bus), <<"l2cache", 0, "cpu_side">>)}, {})
  /\ \A bus : Script(ConnectMemSideBus(bus), {}, {Wired(<<"l2cache", 0, "mem_side">>, Slave(bus))}, {})
  /\ \A i : Script(CreateInterrupts(i), {<<"interrupts", i>>}, {}, {})
  /\ \A bus : Script(SystemPort(bus), {}, {Wired(<<"system", 0, "system_port">>, Slave(bus))}, {})
<1>1. /\ \A i : Wire(<<"icache", i, "cpu_side">>, <<"cpu", i, "icache_port">>)
             = Wired(<<"cpu", i, "icache_port">>, <<"icache", i, "cpu_side">>)
      /\ \A i : Wire(<<"dcache", i, "cpu_side">>, <<"cpu", i, "dcache_port">>)
             = Wired(<<"cpu", i, "dcache_port">>, <<"dcache", i, "cpu_side">>)
  BY DEF Wire, Wired, RequestPort
<1>2. \A c, i, bus : Wire(<<c, i, "mem_side">>, Slave(bus)) = Wired(<<c, i, "mem_side">>, Slave(bus))
  BY DEF Wire, Wired, RequestPort
<1>3. \A bus : Wire(<<"l2cache", 0, "cpu_side">>, Master(bus)) = Wired(Master(bus), <<"l2cache", 0, "cpu_side">>)
  BY DEF Wire, Wired, RequestPort
<1>4. \A bus : Wire(<<"system", 0, "system_port">>, Slave(bus)) = Wired(<<"system", 0, "system_port">>, Slave(bus))
  BY DEF Wire, Wired, RequestPort
<1>5. \A i : Script(L1ICache(i), {<<"icache", i>>}, {}, {})
  BY ScriptSized DEF L1ICache
<1>6. \A i : Script(L1DCache(i), {<<"dcache", i>>}, {}, {})
  BY ScriptSized DEF L1DCache
<1>7. Script(L2Cache, {One("l2cache")}, {}, {})
  BY ScriptSized DEF L2Cache
<1>8. \A i : Script(ConnectICacheCPU(i), {}, {Wired(<<"cpu", i, "icache_port">>, <<"icache", i, "cpu_side">>)}, {})
  BY <1>1, ScriptBind DEF ConnectICacheCPU
<1>9. \A i : Script(ConnectDCacheCPU(i), {}, {Wired(<<"cpu", i, "dcache_port">>, <<"dcache", i, "cpu_side">>)}, {})
  BY <1>1, ScriptBind DEF ConnectDCacheCPU
<1>10. \A c, i, bus : Script(ConnectBus(c, i, bus), {}, {Wired(<<c, i, "mem_side">>, Slave(bus))}, {})
  BY <1>2, ScriptBind DEF ConnectBus
<1>11. \A bus : Script(ConnectCPUSideBus(bus), {}, {Wired(Master(bus), <<"l2cache", 0, "cpu_side">>)}, {})
  BY <1>3, ScriptBind DEF ConnectCPUSideBus
<1>12. \A bus : Script(ConnectMemSideBus(bus), {}, {Wired(<<"l2cache", 0, "mem_side">>, Slave(bus))}, {})
  BY <1>2, ScriptBind DEF ConnectMemSideBus
<1>13. \A i : Script(CreateInterrupts(i), {<<"interrupts", i>>}, {}, {})
  BY ScriptMake DEF CreateInterrupts
<1>14. \A bus : Script(SystemPort(bus), {}, {Wired(<<"system", 0, "system_port">>, Slave(bus))}, {})
  BY <1>4, ScriptBind DEF SystemPort
<1> QED
  BY <1>5, <1>6, <1>7, <1>8, <1>9, <1>10, <1>11, <1>12, <1>13, <1>14

(* The wires of the interrupt controller of a CPU, and of the memory     *)
(* controller.                                                           *)
InterruptWires(i, bus) == {Wired(Master(bus), <<"interrupts", i, "pio">>),
                              Wired(<<"interrupts", i, "int_master">>, Slave(bus)),
                           Wired(Master(bus), <<"interrupts", i, "int_slave">>)}
MemoryWires(bus) == {Wired(Master(bus), <<"mem_ctrl", 0, "port">>)}

(* WireInterrupts builds the three wires of the interrupt controller.    *)
LEMMA InterruptScript == ASSUME NEW i, NEW bus PROVE Script(WireInterrupts(i, bus), {}, InterruptWires(i, bus), {})
<1> DEFINE A == {Bind(<<"interrupts", i, "pio">>, Master(bus)), Bind(<<"interrupts", i, "int_master">>, Slave(bus)),
                 Bind(<<"interrupts", i, "int_slave">>, Master(bus))}
<1>1. Lists(WireInterrupts(i, bus), A)
  BY ListOf3 DEF WireInterrupts
<1>2. /\ Wire(<<"interrupts", i, "pio">>, Master(bus)) = Wired(Master(bus), <<"interrupts", i, "pio">>)
      /\ Wire(<<"interrupts", i, "int_master">>, Slave(bus)) = Wired(<<"interrupts", i, "int_master">>, Slave(bus))
      /\ Wire(<<"interrupts", i, "int_slave">>, Master(bus)) = Wired(Master(bus), <<"interrupts", i, "int_slave">>)
  BY DEF Wire, Wired, RequestPort
<1>3. Builds(A, {}, InterruptWires(i, bus), {})
  BY <1>2, Distinct DEF Builds, Statements, InterruptWires
<1> QED
  BY <1>1, <1>3 DEF Script

(* Memory builds the memory controller and its wire.                     *)
LEMMA MemoryScript == ASSUME NEW bus PROVE Script(Memory(bus), {One("mem_ctrl")}, MemoryWires(bus), {})
<1> DEFINE A == {Make(One("mem_ctrl")), Bind(<<"mem_ctrl", 0, "port">>, Master(bus))}
<1>1. Lists(Memory(bus), A)
  BY ListOf2 DEF Memory
<1>2. Wire(<<"mem_ctrl", 0, "port">>, Master(bus)) = Wired(Master(bus), <<"mem_ctrl", 0, "port">>)
  BY DEF Wire, Wired, RequestPort
<1>3. Builds(A, {One("mem_ctrl")}, MemoryWires(bus), {})
  BY <1>2, Distinct DEF Builds, Statements, MemoryWires
<1> QED
  BY <1>1, <1>3 DEF Script

(* The wires of the caches and the table walkers of a CPU.               *)
HierarchyWires(i) ==
    {Wired(<<"cpu", i, "icache_port">>, <<"icache", i, "cpu_side">>),
        Wired(<<"cpu", i, "dcache_port">>, <<"dcache", i, "cpu_side">>),
     Wired(<<"icache", i, "mem_side">>, Slave("membus")), Wired(<<"dcache", i, "mem_side">>, Slave("membus")),
     Wired(<<"cpu", i, "itb_walker">>, Slave("membus")), Wired(<<"cpu", i, "dtb_walker">>, Slave("membus"))}

(* createCacheHierarchy builds the two caches of a CPU and their wires.  *)
LEMMA HierarchyScript ==
  ASSUME NEW i
  PROVE  Script(CreateCacheHierarchy(i), {<<"icache", i>>, <<"dcache", i>>}, HierarchyWires(i), {})
<1> DEFINE t == <<Bind(<<"cpu", i, "itb_walker">>, Slave("membus")),
                    Bind(<<"cpu", i, "dtb_walker">>, Slave("membus"))>>
           w == {Wired(<<"cpu", i, "itb_walker">>, Slave("membus")),
                    Wired(<<"cpu", i, "dtb_walker">>, Slave("membus"))}
<1>1. Script(t, {}, w, {})
  <2> DEFINE A == {Bind(<<"cpu", i, "itb_walker">>, Slave("membus")),
                      Bind(<<"cpu", i, "dtb_walker">>, Slave("membus"))}
  <2>1. Lists(t, A)
    BY ListOf2
  <2>2. /\ Wire(<<"cpu", i, "itb_walker">>, Slave("membus")) = Wired(<<"cpu", i, "itb_walker">>, Slave("membus"))
        /\ Wire(<<"cpu", i, "dtb_walker">>, Slave("membus")) = Wired(<<"cpu", i, "dtb_walker">>, Slave("membus"))
    BY DEF Wire, Wired, RequestPort
  <2>3. Builds(A, {}, w, {})
    BY <2>2, Distinct DEF Builds, Statements
  <2> QED
    BY <2>1, <2>3 DEF Script
<1>2. CreateCacheHierarchy(i) =
         L1ICache(i) \o L1DCache(i) \o ConnectICacheCPU(i) \o ConnectDCacheCPU(i)
         \o ConnectBus("icache", i, "membus") \o ConnectBus("dcache", i, "membus") \o t
  BY DEF CreateCacheHierarchy
<1> HIDE DEF t
<1>3. PICK w1, w2, w3, w4 : /\ w1 = {Wired(<<"cpu", i, "icache_port">>, <<"icache", i, "cpu_side">>)}
                            /\ w2 = {Wired(<<"cpu", i, "dcache_port">>, <<"dcache", i, "cpu_side">>)}
                            /\ w3 = {Wired(<<"icache", i, "mem_side">>, Slave("membus"))}
                            /\ w4 = {Wired(<<"dcache", i, "mem_side">>, Slave("membus"))}
  OBVIOUS
<1>4. PICK o1, o2 : o1 = {<<"icache", i>>} /\ o2 = {<<"dcache", i>>}
  OBVIOUS
<1>5. /\ Script(L1ICache(i), o1, {}, {}) /\ Script(L1DCache(i), o2, {}, {})
      /\ Script(ConnectICacheCPU(i), {}, w1, {}) /\ Script(ConnectDCacheCPU(i), {}, w2, {})
      /\ Script(ConnectBus("icache", i, "membus"), {}, w3, {})
             /\ Script(ConnectBus("dcache", i, "membus"), {}, w4, {})
  BY <1>3, <1>4, PieceScripts
<1>6. HierarchyWires(i) = {} \cup {} \cup w1 \cup w2 \cup w3 \cup w4 \cup w
  BY <1>3 DEF HierarchyWires
<1> HIDE DEF w
<1>7. PICK a, o, v, f :
         /\ a = L1ICache(i) \o L1DCache(i) \o ConnectICacheCPU(i) \o ConnectDCacheCPU(i)
         /\ o = o1 \cup o2 \cup {} \cup {} /\ v = {} \cup {} \cup w1 \cup w2 /\ f = {} \cup {} \cup {} \cup {}
  OBVIOUS
<1>8. Script(a, o, v, f)
  BY <1>5, <1>7, ScriptChain
<1>9. Script(a \o ConnectBus("icache", i, "membus") \o ConnectBus("dcache", i, "membus") \o t,
             o \cup {} \cup {} \cup {}, v \cup w3 \cup w4 \cup w, f \cup {} \cup {} \cup {})
  BY <1>1, <1>5, <1>8, ScriptChain
<1>10. /\ o \cup {} \cup {} \cup {} = {<<"icache", i>>, <<"dcache", i>>}
       /\ v \cup w3 \cup w4 \cup w = HierarchyWires(i)
       /\ f \cup {} \cup {} \cup {} = {}
  BY <1>4, <1>6, <1>7
<1> QED
  BY <1>2, <1>7, <1>9, <1>10

(* The wires of the system port and of the default port of the memory    *)
(* bus; all objects and wires of the full system with n CPUs.            *)
SystemWires(bus) == {Wired(<<"system", 0, "system_port">>, Slave(bus))}
FrontWires == {Wired(<<"membus", 0, "default">>, <<"badaddr", 0, "pio">>)}

FSObjects(n) == {One("system"), One("membus"), One("badaddr")} \cup BoardObjects
                \cup All([i \in 0 .. n - 1 |-> {<<"cpu", i>>}], 0 .. n - 1)
                \cup All([i \in 0 .. n - 1 |-> {<<"icache", i>>, <<"dcache", i>>}], 0 .. n - 1)
                \cup {One("mem_ctrl")}
                \cup All([i \in 0 .. n - 1 |-> {<<"interrupts", i>>}], 0 .. n - 1)
FSWires(n) == FrontWires \cup SystemWires("membus") \cup BoardWires
              \cup All([i \in 0 .. n - 1 |-> {}], 0 .. n - 1)
              \cup All([i \in 0 .. n - 1 |-> HierarchyWires(i)], 0 .. n - 1)
              \cup MemoryWires("membus")
              \cup All([i \in 0 .. n - 1 |-> InterruptWires(i, "membus")], 0 .. n - 1)

(* MySystem builds these objects and wires and installs the tables for n *)
(* CPUs, whatever n is.                                                  *)
LEMMA FSScript == ASSUME NEW n \in Nat
                  PROVE  Script(MySystem(n, InitFS(n)), FSObjects(n), FSWires(n), {Firmware(n)})
<1> DEFINE front == <<Make(One("system")), Make(One("membus")), Make(One("badaddr")),
                      Bind(<<"membus", 0, "default">>, <<"badaddr", 0, "pio">>)>>
           o1 == {One("system"), One("membus"), One("badaddr")}
<1>1. Script(front, o1, FrontWires, {})
  <2> DEFINE A == {Make(One("system")), Make(One("membus")), Make(One("badaddr")),
                   Bind(<<"membus", 0, "default">>, <<"badaddr", 0, "pio">>)}
  <2>1. Lists(front, A)
    BY ListOf4
  <2>2. Wire(<<"membus", 0, "default">>, <<"badaddr", 0, "pio">>)
            = Wired(<<"membus", 0, "default">>, <<"badaddr", 0, "pio">>)
    BY DEF Wire, Wired, RequestPort
  <2>3. Builds(A, o1, FrontWires, {})
    BY <2>2, Distinct DEF Builds, Statements, FrontWires
  <2> QED
    BY <2>1, <2>3 DEF Script
<1>2. Script(SystemPort("membus"), {}, SystemWires("membus"), {})
  BY PieceScripts DEF SystemWires
<1>3. Script(InitFS(n), BoardObjects, BoardWires, {Firmware(n)})
  <2>1. Script(IOSystem \o <<Install(Firmware(n))>>, BoardObjects \cup {}, BoardWires \cup {}, {}
            \cup {Firmware(n)})
    BY IOSystemScript, ScriptInstall, ScriptJoined
  <2>2. BoardObjects \cup {} = BoardObjects /\ BoardWires \cup {} = BoardWires
            /\ {} \cup {Firmware(n)} = {Firmware(n)}
    OBVIOUS
  <2> QED
    BY <2>1, <2>2 DEF InitFS
<1> DEFINE cpus == [i \in 0 .. n - 1 |-> CreateCPU(i)]
           o4 == [i \in 0 .. n - 1 |-> {<<"cpu", i>>}]
           w4 == [i \in 0 .. n - 1 |-> {}]
           caches == [i \in 0 .. n - 1 |-> CreateCacheHierarchy(i)]
           o5 == [i \in 0 .. n - 1 |-> {<<"icache", i>>, <<"dcache", i>>}]
           w5 == [i \in 0 .. n - 1 |-> HierarchyWires(i)]
           ints == [i \in 0 .. n - 1 |-> SetupInterrupts(i)]
           o7 == [i \in 0 .. n - 1 |-> {<<"interrupts", i>>}]
           w7 == [i \in 0 .. n - 1 |-> InterruptWires(i, "membus")]
<1>4. Script(ForEachCPU(n, cpus), All(o4, 0 .. n - 1), All(w4, 0 .. n - 1), {})
  <2>1. \A i \in 0 .. n - 1 : Script(CreateCPU(i), {<<"cpu", i>>}, {}, {})
    BY ScriptMake DEF CreateCPU
  <2>2. \A i \in 0 .. n - 1 : Script(cpus[i], o4[i], w4[i], {})
    BY <2>1
  <2> HIDE DEF cpus, o4, w4
  <2> QED
    BY <2>2, ScriptEach
<1>5. Script(ForEachCPU(n, caches), All(o5, 0 .. n - 1), All(w5, 0 .. n - 1), {})
  <2>1. \A i \in 0 .. n - 1 : Script(caches[i], o5[i], w5[i], {})
    BY HierarchyScript
  <2> HIDE DEF caches, o5, w5
  <2> QED
    BY <2>1, ScriptEach
<1>6. Script(Memory("membus"), {One("mem_ctrl")}, MemoryWires("membus"), {})
  BY MemoryScript
<1>7. Script(ForEachCPU(n, ints), All(o7, 0 .. n - 1), All(w7, 0 .. n - 1), {})
  <2>1. ASSUME NEW i \in 0 .. n - 1 PROVE Script(ints[i], o7[i], w7[i], {})
    <3>1. Script(CreateInterrupts(i) \o WireInterrupts(i, "membus"), {<<"interrupts", i>>} \cup {},
                 {} \cup InterruptWires(i, "membus"), {} \cup {})
      BY PieceScripts, InterruptScript, ScriptJoined
    <3>2. {<<"interrupts", i>>} \cup {} = {<<"interrupts", i>>}
              /\ {} \cup InterruptWires(i, "membus") = InterruptWires(i, "membus")
          /\ {} \cup {} = {}
      OBVIOUS
    <3> QED
      BY <3>1, <3>2 DEF SetupInterrupts
  <2> HIDE DEF ints, o7, w7
  <2> QED
    BY <2>1, ScriptEach
<1>8. MySystem(n, InitFS(n)) = front \o SystemPort("membus") \o InitFS(n) \o ForEachCPU(n, cpus)
                               \o ForEachCPU(n, caches) \o Memory("membus") \o ForEachCPU(n, ints)
  BY DEF MySystem
<1>9. /\ FSObjects(n) = o1 \cup BoardObjects \cup All(o4, 0 .. n - 1) \cup All(o5, 0 .. n - 1)
             \cup {One("mem_ctrl")} \cup All(o7, 0 .. n - 1)
      /\ FSWires(n) = FrontWires \cup SystemWires("membus") \cup BoardWires \cup All(w4, 0 .. n - 1)
                      \cup All(w5, 0 .. n - 1) \cup MemoryWires("membus") \cup All(w7, 0 .. n - 1)
  BY DEF FSObjects, FSWires
<1> HIDE DEF front, o1, cpus, o4, w4, caches, o5, w5, ints, o7, w7
<1>10. PICK a, o, w, f :
         /\ a = front \o SystemPort("membus") \o InitFS(n) \o ForEachCPU(n, cpus)
         /\ o = o1 \cup {} \cup BoardObjects \cup All(o4, 0 .. n - 1)
         /\ w = FrontWires \cup SystemWires("membus") \cup BoardWires \cup All(w4, 0 .. n - 1)
         /\ f = {} \cup {} \cup {Firmware(n)} \cup {}
  OBVIOUS
<1>11. Script(a, o, w, f)
  BY <1>1, <1>2, <1>3, <1>4, <1>10, ScriptChain
<1>12. Script(a \o ForEachCPU(n, caches) \o Memory("membus") \o ForEachCPU(n, ints),
              o \cup All(o5, 0 .. n - 1) \cup {One("mem_ctrl")} \cup All(o7, 0 .. n - 1),
              w \cup All(w5, 0 .. n - 1) \cup MemoryWires("membus") \cup All(w7, 0 .. n - 1),
              f \cup {} \cup {} \cup {})
  BY <1>5, <1>6, <1>7, <1>11, ScriptChain
<1>13. /\ o \cup All(o5, 0 .. n - 1) \cup {One("mem_ctrl")} \cup All(o7, 0 .. n - 1) = FSObjects(n)
       /\ w \cup All(w5, 0 .. n - 1) \cup MemoryWires("membus") \cup All(w7, 0 .. n - 1) = FSWires(n)
       /\ f \cup {} \cup {} \cup {} = {Firmware(n)}
  <2>1. f \cup {} \cup {} \cup {} = {Firmware(n)}
    BY <1>10
  <2>2. w \cup All(w5, 0 .. n - 1) \cup MemoryWires("membus") \cup All(w7, 0 .. n - 1) = FSWires(n)
    BY <1>9, <1>10
  <2>3. o = o1 \cup BoardObjects \cup All(o4, 0 .. n - 1)
    BY <1>10
  <2> QED
    BY <1>9, <2>1, <2>2, <2>3
<1> QED
  BY <1>8, <1>10, <1>12, <1>13
---------------------------------------------------------------------------
(* The wires of the other scripts: the interrupt controller has some     *)
(* only on x86.                                                          *)
OptionalInterruptWires(isa) == IF isa = "x86" THEN InterruptWires(0, "membus") ELSE {}
CPUWires == {Wired(<<"cpu", 0, "icache_port">>, Slave("membus")),
                Wired(<<"cpu", 0, "dcache_port">>, Slave("membus"))}
SimpleWires(isa) == CPUWires \cup OptionalInterruptWires(isa) \cup MemoryWires("membus") \cup SystemWires("membus")
TwoLevelWires(isa) ==
    {Wired(<<"cpu", 0, "icache_port">>, <<"icache", 0, "cpu_side">>),
        Wired(<<"cpu", 0, "dcache_port">>, <<"dcache", 0, "cpu_side">>),
     Wired(<<"icache", 0, "mem_side">>, Slave("l2bus")), Wired(<<"dcache", 0, "mem_side">>, Slave("l2bus")),
     Wired(Master("l2bus"), <<"l2cache", 0, "cpu_side">>), Wired(<<"l2cache", 0, "mem_side">>, Slave("membus"))}
    \cup OptionalInterruptWires(isa) \cup SystemWires("membus") \cup MemoryWires("membus")
MemobjWires ==
    {Wired(<<"cpu", 0, "icache_port">>, <<"memobj", 0, "inst_port">>),
        Wired(<<"cpu", 0, "dcache_port">>, <<"memobj", 0, "data_port">>),
     Wired(<<"memobj", 0, "mem_side">>, Slave("membus"))}
    \cup InterruptWires(0, "membus") \cup MemoryWires("membus") \cup SystemWires("membus")
CacheWires ==
    {Wired(<<"cpu", 0, "icache_port">>, <<"cache", 0, "cpu_side">>),
        Wired(<<"cpu", 0, "dcache_port">>, <<"cache", 0, "cpu_side">>),
     Wired(<<"cache", 0, "mem_side">>, Slave("membus"))}
    \cup InterruptWires(0, "membus") \cup MemoryWires("membus") \cup SystemWires("membus")

(* The statements about interrupts that are there only for x86.          *)
LEMMA OptionalInterruptScript ==
  ASSUME NEW isa
  PROVE  Script(IF isa = "x86" THEN WireInterrupts(0, "membus") ELSE << >>, {}, OptionalInterruptWires(isa), {})
<1>1. CASE isa = "x86"
  <2>1. Script(WireInterrupts(0, "membus"), {}, InterruptWires(0, "membus"), {})
    BY InterruptScript
  <2> QED
    BY <1>1, <2>1 DEF OptionalInterruptWires
<1>2. CASE isa # "x86"
  BY <1>2, ScriptNothing DEF OptionalInterruptWires
<1> QED
  BY <1>1, <1>2

(* The end that all of these scripts have, and five pieces in a row.     *)
LEMMA MemorySideScripts ==
  /\ Script(CreateInterrupts(0), {<<"interrupts", 0>>}, {}, {})
  /\ Script(WireInterrupts(0, "membus"), {}, InterruptWires(0, "membus"), {})
  /\ Script(Memory("membus"), {One("mem_ctrl")}, MemoryWires("membus"), {})
  /\ Script(SystemPort("membus"), {}, SystemWires("membus"), {})
  BY PieceScripts, InterruptScript, MemoryScript DEF SystemWires

LEMMA FiveScripts ==
  ASSUME NEW s1, NEW o1, NEW w1, Script(s1, o1, w1, {}), NEW s2, NEW w2, Script(s2, {}, w2, {})
  PROVE  \E o : Script(s1 \o CreateInterrupts(0) \o s2 \o Memory("membus") \o SystemPort("membus"), o,
                       w1 \cup w2 \cup MemoryWires("membus") \cup SystemWires("membus"), {})
<1>1. PICK o, w, f : /\ o = o1 \cup {<<"interrupts", 0>>} \cup {} \cup {One("mem_ctrl")}
                     /\ w = w1 \cup {} \cup w2 \cup MemoryWires("membus")
                     /\ f = {} \cup {} \cup {} \cup {}
  OBVIOUS
<1>2. Script(s1 \o CreateInterrupts(0) \o s2 \o Memory("membus"), o, w, f)
  BY <1>1, MemorySideScripts, ScriptChain
<1>3. Script(s1 \o CreateInterrupts(0) \o s2 \o Memory("membus") \o SystemPort("membus"), o \cup {}, w
          \cup SystemWires("membus"), f \cup {})
  BY <1>2, MemorySideScripts, ScriptJoined
<1>4. w \cup SystemWires("membus") = w1 \cup w2 \cup MemoryWires("membus") \cup SystemWires("membus")
          /\ f \cup {} = {}
  BY <1>1
<1> QED
  BY <1>3, <1>4

(* What simple.py builds.                                                *)
LEMMA SimpleScript == ASSUME NEW isa PROVE \E o : Script(Simple(isa), o, SimpleWires(isa), {})
<1> DEFINE s == <<Make(One("system")), Make(<<"cpu", 0>>), Make(One("membus")),
                  Bind(<<"cpu", 0, "icache_port">>, Slave("membus")),
                  Bind(<<"cpu", 0, "dcache_port">>, Slave("membus"))>>
           A == {Make(One("system")), Make(<<"cpu", 0>>), Make(One("membus")),
                  Bind(<<"cpu", 0, "icache_port">>, Slave("membus")),
                  Bind(<<"cpu", 0, "dcache_port">>, Slave("membus"))}
           i == IF isa = "x86" THEN WireInterrupts(0, "membus") ELSE << >>
<1>1. Lists(s, A)
  BY ListOf5
<1>2. /\ Wire(<<"cpu", 0, "icache_port">>, Slave("membus")) = Wired(<<"cpu", 0, "icache_port">>, Slave("membus"))
      /\ Wire(<<"cpu", 0, "dcache_port">>, Slave("membus")) = Wired(<<"cpu", 0, "dcache_port">>, Slave("membus"))
  BY DEF Wire, Wired, RequestPort
<1>3. Builds(A, {One("system"), <<"cpu", 0>>, One("membus")}, CPUWires, {})
  BY <1>2, Distinct DEF Builds, Statements, CPUWires
<1>4. Script(s, {One("system"), <<"cpu", 0>>, One("membus")}, CPUWires, {})
  BY <1>1, <1>3 DEF Script
<1>5. Script(i, {}, OptionalInterruptWires(isa), {})
  BY OptionalInterruptScript
<1>6. Simple(isa) = s \o CreateInterrupts(0) \o i \o Memory("membus") \o SystemPort("membus")
  BY DEF Simple
<1> HIDE DEF s, A, i
<1>7. \E o : Script(s \o CreateInterrupts(0) \o i \o Memory("membus")
          \o SystemPort("membus"), o, SimpleWires(isa), {})
  BY <1>4, <1>5, FiveScripts DEF SimpleWires
<1> QED
  BY <1>6, <1>7

(* What simple_memobj.py builds.                                         *)
LEMMA MemobjScript == \E o : Script(SimpleMemobjScript, o, MemobjWires, {})
<1> DEFINE s == <<Make(One("system")), Make(<<"cpu", 0>>), Make(One("memobj")),
                  Bind(<<"cpu", 0, "icache_port">>, <<"memobj", 0, "inst_port">>),
                  Bind(<<"cpu", 0, "dcache_port">>, <<"memobj", 0, "data_port">>),
                  Make(One("membus")), Bind(<<"memobj", 0, "mem_side">>, Slave("membus"))>>
           A == {Make(One("system")), Make(<<"cpu", 0>>), Make(One("memobj")),
                  Bind(<<"cpu", 0, "icache_port">>, <<"memobj", 0, "inst_port">>),
                  Bind(<<"cpu", 0, "dcache_port">>, <<"memobj", 0, "data_port">>),
                  Make(One("membus")), Bind(<<"memobj", 0, "mem_side">>, Slave("membus"))}
           w == {Wired(<<"cpu", 0, "icache_port">>, <<"memobj", 0, "inst_port">>),
                    Wired(<<"cpu", 0, "dcache_port">>, <<"memobj", 0, "data_port">>),
                 Wired(<<"memobj", 0, "mem_side">>, Slave("membus"))}
           o1 == {One("system"), <<"cpu", 0>>, One("memobj"), One("membus")}
<1>1. Lists(s, A)
  BY ListOf7
<1>2. /\ Wire(<<"cpu", 0, "icache_port">>, <<"memobj", 0, "inst_port">>)
             = Wired(<<"cpu", 0, "icache_port">>, <<"memobj", 0, "inst_port">>)
      /\ Wire(<<"cpu", 0, "dcache_port">>, <<"memobj", 0, "data_port">>)
             = Wired(<<"cpu", 0, "dcache_port">>, <<"memobj", 0, "data_port">>)
      /\ Wire(<<"memobj", 0, "mem_side">>, Slave("membus")) = Wired(<<"memobj", 0, "mem_side">>, Slave("membus"))
  BY DEF Wire, Wired, RequestPort
<1>3. Builds(A, o1, w, {})
  BY <1>2, Distinct DEF Builds, Statements
<1>4. Script(s, o1, w, {})
  BY <1>1, <1>3 DEF Script
<1>5. SimpleMemobjScript = s \o CreateInterrupts(0) \o WireInterrupts(0, "membus") \o Memory("membus")
          \o SystemPort("membus")
  BY DEF SimpleMemobjScript
<1>6. MemobjWires = w \cup InterruptWires(0, "membus") \cup MemoryWires("membus") \cup SystemWires("membus")
  BY DEF MemobjWires
<1> HIDE DEF s, A, w, o1
<1>7. \E o : Script(s \o CreateInterrupts(0) \o WireInterrupts(0, "membus") \o Memory("membus")
          \o SystemPort("membus"), o, MemobjWires, {})
  BY <1>4, <1>6, MemorySideScripts, FiveScripts
<1> QED
  BY <1>5, <1>7

(* What simple_cache.py builds.                                          *)
LEMMA CacheScript == \E o : Script(SimpleCacheScript, o, CacheWires, {})
<1> DEFINE s == <<Make(One("system")), Make(<<"cpu", 0>>), Make(One("membus")), Make(One("cache")),
                  Bind(<<"cpu", 0, "icache_port">>, CacheSide("icache_port")),
                  Bind(<<"cpu", 0, "dcache_port">>, CacheSide("dcache_port")),
                  Bind(<<"cache", 0, "mem_side">>, Slave("membus"))>>
           A == {Make(One("system")), Make(<<"cpu", 0>>), Make(One("membus")), Make(One("cache")),
                  Bind(<<"cpu", 0, "icache_port">>, CacheSide("icache_port")),
                  Bind(<<"cpu", 0, "dcache_port">>, CacheSide("dcache_port")),
                  Bind(<<"cache", 0, "mem_side">>, Slave("membus"))}
           w == {Wired(<<"cpu", 0, "icache_port">>, <<"cache", 0, "cpu_side">>),
                    Wired(<<"cpu", 0, "dcache_port">>, <<"cache", 0, "cpu_side">>),
                 Wired(<<"cache", 0, "mem_side">>, Slave("membus"))}
           o1 == {One("system"), <<"cpu", 0>>, One("cache"), One("membus")}
<1>1. Lists(s, A)
  BY ListOf7
<1>2. /\ Wire(<<"cpu", 0, "icache_port">>, CacheSide("icache_port"))
             = Wired(<<"cpu", 0, "icache_port">>, <<"cache", 0, "cpu_side">>)
      /\ Wire(<<"cpu", 0, "dcache_port">>, CacheSide("dcache_port"))
             = Wired(<<"cpu", 0, "dcache_port">>, <<"cache", 0, "cpu_side">>)
      /\ Wire(<<"cache", 0, "mem_side">>, Slave("membus")) = Wired(<<"cache", 0, "mem_side">>, Slave("membus"))
  BY DEF Wire, Wired, RequestPort, CacheSide
<1>3. Builds(A, o1, w, {})
  BY <1>2, Distinct DEF Builds, Statements
<1>4. Script(s, o1, w, {})
  BY <1>1, <1>3 DEF Script
<1>5. SimpleCacheScript = s \o CreateInterrupts(0) \o WireInterrupts(0, "membus") \o Memory("membus")
          \o SystemPort("membus")
  BY DEF SimpleCacheScript
<1>6. CacheWires = w \cup InterruptWires(0, "membus") \cup MemoryWires("membus") \cup SystemWires("membus")
  BY DEF CacheWires
<1> HIDE DEF s, A, w, o1
<1>7. \E o : Script(s \o CreateInterrupts(0) \o WireInterrupts(0, "membus") \o Memory("membus")
          \o SystemPort("membus"), o, CacheWires, {})
  BY <1>4, <1>6, MemorySideScripts, FiveScripts
<1> QED
  BY <1>5, <1>7

(* What two_level.py builds.                                             *)
LEMMA TwoLevelScript == ASSUME NEW isa PROVE \E o : Script(TwoLevel(isa), o, TwoLevelWires(isa), {})
<1> DEFINE s == <<Make(One("system")), Make(<<"cpu", 0>>)>>
           i == IF isa = "x86" THEN WireInterrupts(0, "membus") ELSE << >>
<1>1. Script(s, {One("system"), <<"cpu", 0>>}, {}, {})
  <2>1. Builds({Make(One("system")), Make(<<"cpu", 0>>)}, {One("system"), <<"cpu", 0>>}, {}, {})
    BY Distinct DEF Builds, Statements
  <2> QED
    BY <2>1, ListOf2 DEF Script
<1>2. Script(<<Make(One("l2bus"))>>, {One("l2bus")}, {}, {})
          /\ Script(<<Make(One("membus"))>>, {One("membus")}, {}, {})
  BY ScriptMake
<1>3. Script(i, {}, OptionalInterruptWires(isa), {})
  BY OptionalInterruptScript
<1>4. TwoLevel(isa) =
         s \o L1ICache(0) \o L1DCache(0) \o ConnectICacheCPU(0) \o ConnectDCacheCPU(0) \o <<Make(One("l2bus"))>>
         \o ConnectBus("icache", 0, "l2bus") \o ConnectBus("dcache", 0, "l2bus") \o L2Cache
             \o ConnectCPUSideBus("l2bus")
         \o <<Make(One("membus"))>> \o ConnectMemSideBus("membus") \o CreateInterrupts(0) \o i
         \o SystemPort("membus") \o Memory("membus")
  BY DEF TwoLevel
<1> HIDE DEF s, i
<1>5. PICK l, m : l = <<Make(One("l2bus"))>> /\ m = <<Make(One("membus"))>>
  OBVIOUS
<1>6. PICK w1, w2, w3, w4, w5, w6 :
         /\ w1 = {Wired(<<"cpu", 0, "icache_port">>, <<"icache", 0, "cpu_side">>)}
         /\ w2 = {Wired(<<"cpu", 0, "dcache_port">>, <<"dcache", 0, "cpu_side">>)}
         /\ w3 = {Wired(<<"icache", 0, "mem_side">>, Slave("l2bus"))}
         /\ w4 = {Wired(<<"dcache", 0, "mem_side">>, Slave("l2bus"))}
         /\ w5 = {Wired(Master("l2bus"), <<"l2cache", 0, "cpu_side">>)}
         /\ w6 = {Wired(<<"l2cache", 0, "mem_side">>, Slave("membus"))}
  OBVIOUS
<1>7. PICK o0, o1, o2, o3, o4, o5, o6, o7 :
         /\ o0 = {One("system"), <<"cpu", 0>>} /\ o1 = {<<"icache", 0>>} /\ o2 = {<<"dcache", 0>>}
                /\ o3 = {One("l2bus")}
         /\ o4 = {One("l2cache")} /\ o5 = {One("membus")} /\ o6 = {<<"interrupts", 0>>} /\ o7 = {One("mem_ctrl")}
  OBVIOUS
<1>8. /\ Script(s, o0, {}, {})
      /\ Script(L1ICache(0), o1, {}, {}) /\ Script(L1DCache(0), o2, {}, {})
      /\ Script(ConnectICacheCPU(0), {}, w1, {}) /\ Script(ConnectDCacheCPU(0), {}, w2, {})
      /\ Script(l, o3, {}, {})
      /\ Script(ConnectBus("icache", 0, "l2bus"), {}, w3, {})
             /\ Script(ConnectBus("dcache", 0, "l2bus"), {}, w4, {})
      /\ Script(L2Cache, o4, {}, {}) /\ Script(ConnectCPUSideBus("l2bus"), {}, w5, {})
      /\ Script(m, o5, {}, {}) /\ Script(ConnectMemSideBus("membus"), {}, w6, {})
      /\ Script(CreateInterrupts(0), o6, {}, {})
      /\ Script(SystemPort("membus"), {}, SystemWires("membus"), {})
      /\ Script(Memory("membus"), o7, MemoryWires("membus"), {})
  BY <1>1, <1>2, <1>5, <1>6, <1>7, PieceScripts, MemorySideScripts
<1>9. PICK a, u, v, f :
         /\ a = s \o L1ICache(0) \o L1DCache(0) \o ConnectICacheCPU(0)
         /\ u = o0 \cup o1 \cup o2 \cup {} /\ v = {} \cup {} \cup {} \cup w1 /\ f = {} \cup {} \cup {} \cup {}
  OBVIOUS
<1>10. Script(a, u, v, f)
  BY <1>8, <1>9, ScriptChain
<1>11. PICK a2, u2, v2, f2 :
         /\ a2 = a \o ConnectDCacheCPU(0) \o l \o ConnectBus("icache", 0, "l2bus")
         /\ u2 = u \cup {} \cup o3 \cup {} /\ v2 = v \cup w2 \cup {} \cup w3 /\ f2 = f \cup {} \cup {} \cup {}
  OBVIOUS
<1>12. Script(a2, u2, v2, f2)
  BY <1>8, <1>10, <1>11, ScriptChain
<1>13. PICK a3, u3, v3, f3 :
         /\ a3 = a2 \o ConnectBus("dcache", 0, "l2bus") \o L2Cache \o ConnectCPUSideBus("l2bus")
         /\ u3 = u2 \cup {} \cup o4 \cup {} /\ v3 = v2 \cup w4 \cup {} \cup w5 /\ f3 = f2 \cup {} \cup {} \cup {}
  OBVIOUS
<1>14. Script(a3, u3, v3, f3)
  BY <1>8, <1>12, <1>13, ScriptChain
<1>15. PICK a4, u4, v4, f4 :
         /\ a4 = a3 \o m \o ConnectMemSideBus("membus") \o CreateInterrupts(0)
         /\ u4 = u3 \cup o5 \cup {} \cup o6 /\ v4 = v3 \cup {} \cup w6 \cup {} /\ f4 = f3 \cup {} \cup {} \cup {}
  OBVIOUS
<1>16. Script(a4, u4, v4, f4)
  BY <1>8, <1>14, <1>15, ScriptChain
<1>17. PICK a5, u5, v5, f5 :
         /\ a5 = a4 \o i \o SystemPort("membus") \o Memory("membus")
         /\ u5 = u4 \cup {} \cup {} \cup o7
         /\ v5 = v4 \cup OptionalInterruptWires(isa) \cup SystemWires("membus") \cup MemoryWires("membus")
         /\ f5 = f4 \cup {} \cup {} \cup {}
  OBVIOUS
<1>18. Script(a5, u5, v5, f5)
  BY <1>3, <1>8, <1>16, <1>17, ScriptChain
<1>19. a5 = TwoLevel(isa)
  BY <1>4, <1>5, <1>9, <1>11, <1>13, <1>15, <1>17
<1>20. v5 = TwoLevelWires(isa)
  <2>1. v2 = w1 \cup w2 \cup w3 /\ v4 = v2 \cup w4 \cup w5 \cup w6
    BY <1>9, <1>11, <1>13, <1>15
  <2>2. v4 = w1 \cup w2 \cup w3 \cup w4 \cup w5 \cup w6
    BY <2>1
  <2> QED
    BY <1>6, <1>17, <2>2 DEF TwoLevelWires
<1>21. f5 = {}
  BY <1>9, <1>11, <1>13, <1>15, <1>17
<1> QED
  BY <1>18, <1>19, <1>20, <1>21

(* two_level_opts.py builds the same.                                    *)
LEMMA SameAsTwoLevel == ASSUME NEW isa PROVE TwoLevelOpts(isa) = TwoLevel(isa)
<1>1. /\ OptsCache(<<"icache", 0>>, "l1i_size") = L1ICache(0)
             /\ OptsCache(<<"dcache", 0>>, "l1d_size") = L1DCache(0)
      /\ OptsCache(One("l2cache"), "l2_size") = L2Cache
  BY DEF OptsCache, L1ICache, L1DCache, L2Cache
<1>2. \A c, bus : OptsConnectBus(c, bus) = ConnectBus(c, 0, bus)
  BY DEF OptsConnectBus, ConnectBus
<1> QED
  BY <1>1, <1>2 DEF TwoLevelOpts, TwoLevel

LEMMA TwoLevelOptsScript == ASSUME NEW isa PROVE \E o : Script(TwoLevelOpts(isa), o, TwoLevelWires(isa), {})
  BY SameAsTwoLevel, TwoLevelScript
---------------------------------------------------------------------------
(* The wires of a configuration, and the tables its script installs.     *)
WiresOf(c) == CASE c.script = "simple"         -> SimpleWires(c.isa)
                [] c.script \in {"two_level", "two_level_opts"} -> TwoLevelWires(c.isa)
                [] c.script = "simple_memobj"  -> MemobjWires
                [] c.script = "simple_cache"   -> CacheWires
                [] c.script \in {"system", "system_mp"} -> FSWires(c.cpus)
Tables == IF FullSystem THEN {Firmware(config.cpus)} ELSE {}

(* The scripts there are, and that all but system_mp have one CPU.       *)
LEMMA ConfigFacts ==
  ASSUME config \in Configs
  PROVE  /\ config.script \in {"simple", "two_level", "two_level_opts", "simple_memobj", "simple_cache",
                "system", "system_mp"}
         /\ config.isa \in {"x86", "arm"}
         /\ config.script \in {"simple_memobj", "simple_cache", "system", "system_mp"} => config.isa = "x86"
         /\ config.cpus \in Nat \ {0}
         /\ config.script # "system_mp" => config.cpus = 1
         /\ config.script = "system_mp" => config.cpus \in CPUCounts
<1> DEFINE Run(script, isas, cpus, opts) == [script : {script}, isa : isas, cpus : cpus, opts : opts]
           parsed == {{ScriptOptions}, {ScriptOptions \cup CacheOptions}}
<1>1. \A script, isas, cpus, opts : \A c \in Run(script, isas, cpus, opts) : c.script = script /\ c.isa \in isas
          /\ c.cpus \in cpus
  OBVIOUS
<1>2. \/ config \in Run("simple", {"x86", "arm"}, {1}, {{}})
      \/ config \in Run("two_level", {"x86", "arm"}, {1}, {{}})
      \/ config \in Run("two_level_opts", {"x86", "arm"}, {1}, {{ParsedOptions}})
      \/ config \in Run("simple_memobj", {"x86"}, {1}, {{}})
      \/ config \in Run("simple_cache", {"x86"}, {1}, {{}})
      \/ config \in Run("system", {"x86"}, {1}, parsed)
      \/ config \in Run("system_mp", {"x86"}, CPUCounts, parsed)
  BY DEF Configs
<1> HIDE DEF Run, parsed
<1>3. CPUCounts \subseteq Nat \ {0} /\ {1} \subseteq Nat \ {0}
  BY CountsAssumption
<1>4. \/ config.script = "simple" /\ config.isa \in {"x86", "arm"} /\ config.cpus \in {1}
      \/ config.script = "two_level" /\ config.isa \in {"x86", "arm"} /\ config.cpus \in {1}
      \/ config.script = "two_level_opts" /\ config.isa \in {"x86", "arm"} /\ config.cpus \in {1}
      \/ config.script = "simple_memobj" /\ config.isa \in {"x86"} /\ config.cpus \in {1}
      \/ config.script = "simple_cache" /\ config.isa \in {"x86"} /\ config.cpus \in {1}
      \/ config.script = "system" /\ config.isa \in {"x86"} /\ config.cpus \in {1}
      \/ config.script = "system_mp" /\ config.isa \in {"x86"} /\ config.cpus \in CPUCounts
  BY <1>1, <1>2
<1> QED
  BY <1>3, <1>4

(* Every script builds the wires of its configuration; of the full       *)
(* system the objects are known as well.                                 *)
LEMMA ProgramScript ==
  ASSUME config \in Configs
  PROVE  \E o : Script(Program, o, WiresOf(config), Tables) /\ (FullSystem => o = FSObjects(config.cpus))
<1>1. CASE config.script = "simple"
  <2>1. Program = Simple(config.isa) /\ WiresOf(config) = SimpleWires(config.isa) /\ Tables = {} /\ ~FullSystem
    BY <1>1 DEF Program, WiresOf, Tables, FullSystem
  <2> QED
    BY <2>1, SimpleScript
<1>2. CASE config.script = "two_level"
  <2>1. Program = TwoLevel(config.isa) /\ WiresOf(config) = TwoLevelWires(config.isa) /\ Tables = {} /\ ~FullSystem
    BY <1>2 DEF Program, WiresOf, Tables, FullSystem
  <2> QED
    BY <2>1, TwoLevelScript
<1>3. CASE config.script = "two_level_opts"
  <2>1. Program = TwoLevelOpts(config.isa) /\ WiresOf(config) = TwoLevelWires(config.isa) /\ Tables = {}
            /\ ~FullSystem
    BY <1>3 DEF Program, WiresOf, Tables, FullSystem
  <2> QED
    BY <2>1, TwoLevelOptsScript
<1>4. CASE config.script = "simple_memobj"
  <2>1. Program = SimpleMemobjScript /\ WiresOf(config) = MemobjWires /\ Tables = {} /\ ~FullSystem
    BY <1>4 DEF Program, WiresOf, Tables, FullSystem
  <2> QED
    BY <2>1, MemobjScript
<1>5. CASE config.script = "simple_cache"
  <2>1. Program = SimpleCacheScript /\ WiresOf(config) = CacheWires /\ Tables = {} /\ ~FullSystem
    BY <1>5 DEF Program, WiresOf, Tables, FullSystem
  <2> QED
    BY <2>1, CacheScript
<1>6. CASE config.script \in {"system", "system_mp"}
  <2>1. Program = MySystem(config.cpus, InitFS(config.cpus))
    BY <1>6, ConfigFacts DEF Program, InitFSOfOne
  <2>2. WiresOf(config) = FSWires(config.cpus) /\ Tables = {Firmware(config.cpus)} /\ config.cpus \in Nat
    BY <1>6, ConfigFacts DEF WiresOf, Tables, FullSystem
  <2> QED
    BY <2>1, <2>2, FSScript
<1> QED
  BY <1>1, <1>2, <1>3, <1>4, <1>5, <1>6, ConfigFacts

(* What the statements up to pc have done. *)
MadeSoFar      == \A o : o \in made <=> \E j \in 1 .. pc : Program[j] = Make(o)
WiresSoFar     == /\ \A w \in wires : \E j \in 1 .. pc : \E p, q : Program[j] = Bind(p, q) /\ w = Wire(p, q)
                  /\ \A j \in 1 .. pc : \A p, q : Program[j] = Bind(p, q) => Wire(p, q) \in wires
InstalledSoFar == \A j \in 1 .. pc : \A t : Program[j] = Install(t) => firmware = t

(* The state is what the statements so far leave, unless one has failed; *)
(* the inductive invariant of building a system.                         *)
Executed ==
    /\ config \in Configs
    /\ pc \in 0 .. Len(Program)
    /\ status # "failed" => MadeSoFar /\ WiresSoFar /\ InstalledSoFar
    /\ status \notin {"building", "failed"} => pc = Len(Program)

(* The next statement is of the kind its tag says.                       *)
LEMMA StatementKinds ==
  ASSUME config \in Configs, pc \in Nat, pc < Len(Program)
  PROVE  /\ Statement.op = "make" => Statement = Make(Statement.a)
         /\ Statement.op = "bind" => Statement = Bind(Statement.a, Statement.b)
         /\ Statement.op = "install" => Statement = Install(Statement.a)
         /\ \A o : Statement = Make(o) => Statement.op = "make"
         /\ \A p, q : Statement = Bind(p, q) => Statement.op = "bind"
         /\ \A t : Statement = Install(t) => Statement.op = "install" /\ t \in Tables
<1>1. PICK A, o, w : Lists(Program, A) /\ Builds(A, o, w, Tables)
  BY ProgramScript DEF Script
<1>2. Statement \in A
  BY <1>1 DEF Lists, Statement
<1>3. Statements(A) /\ \A t : Install(t) \in A <=> t \in Tables
  BY <1>1 DEF Builds
<1> DEFINE x == Statement
<1>4. \/ \E u : x = Make(u)
      \/ \E p, q : x = Bind(p, q)
      \/ \E f : x = ReadOption(f)
      \/ \E t : x = Install(t)
  BY <1>2, <1>3 DEF Statements
<1>5. \A t : x = Install(t) => t \in Tables
  BY <1>2, <1>3
<1> HIDE DEF x
<1>6. /\ \A u : Make(u).op = "make" /\ Make(u).a = u
      /\ \A p, q : Bind(p, q).op = "bind" /\ Bind(p, q).a = p /\ Bind(p, q).b = q
      /\ \A f : ReadOption(f).op = "option"
      /\ \A t : Install(t).op = "install" /\ Install(t).a = t
  BY DEF Make, Bind, ReadOption, Install
<1>7. "make" # "bind" /\ "make" # "option" /\ "make" # "install" /\ "bind" # "option" /\ "bind" # "install"
          /\ "option" # "install"
  OBVIOUS
<1>8. /\ x.op = "make" => x = Make(x.a)
      /\ x.op = "bind" => x = Bind(x.a, x.b)
      /\ x.op = "install" => x = Install(x.a)
      /\ \A u : x = Make(u) => x.op = "make"
      /\ \A p, q : x = Bind(p, q) => x.op = "bind"
      /\ \A t : x = Install(t) => x.op = "install"
  BY <1>4, <1>6, <1>7
<1> QED
  BY <1>5, <1>8 DEF x

LEMMA Extends ==   \* what one more statement adds to the statements so far
  ASSUME pc \in Nat
  PROVE  1 .. (pc + 1) = (1 .. pc) \cup {pc + 1}
  OBVIOUS

(* A run keeps to its script.                                            *)
LEMMA SameScript ==
  ASSUME config' = config
  PROVE  Program' = Program /\ Tables' = Tables
  BY DEF Program, Tables, FullSystem

(* Executed holds at first.                                              *)
LEMMA ExecutedInit == Init => Executed
<1> SUFFICES ASSUME Init PROVE Executed
  OBVIOUS
<1>1. PICK A : Lists(Program, A)
  BY ProgramScript DEF Init, Script
<1>2. Len(Program) \in Nat
  BY <1>1 DEF Lists
<1>3. 1 .. pc = {}
  BY DEF Init
<1> QED
  BY <1>2, <1>3 DEF Init, Executed, MadeSoFar, WiresSoFar, InstalledSoFar

(* Each statement adds what it stands for; what comes after the script   *)
(* changes nothing of it.                                                *)
LEMMA ExecutedStep == Executed /\ [Next]_vars => Executed'
<1> SUFFICES ASSUME Executed, [Next]_vars PROVE Executed'
  OBVIOUS
<1>1. PICK A : Lists(Program, A)
  BY ProgramScript DEF Executed, Script
<1>2. Len(Program) \in Nat
  BY <1>1 DEF Lists
<1>3. ASSUME config' = config, pc' = pc, made' = made, wires' = wires, firmware' = firmware,
             status # "failed", status' # "building", status = "building" => pc = Len(Program)
      PROVE  Executed'
  <2>1. Program' = Program
    BY <1>3, SameScript
  <2> QED
    BY <1>3, <2>1 DEF Executed, MadeSoFar, WiresSoFar, InstalledSoFar
<1>4. ASSUME pc \in Nat, pc < Len(Program), status = "building", config' = config, pc' = pc + 1,
             Program' = Program
      PROVE  /\ config' \in Configs /\ pc' \in 0 .. Len(Program')
             /\ MadeSoFar /\ WiresSoFar /\ InstalledSoFar
             /\ Statement = Program[pc + 1] /\ 1 .. pc' = (1 .. pc) \cup {pc + 1}
             /\ (\A o : Statement # Make(o)) /\ made' = made => MadeSoFar'
             /\ (\A p, q : Statement # Bind(p, q)) /\ wires' = wires => WiresSoFar'
             /\ (\A t : Statement # Install(t)) /\ firmware' = firmware => InstalledSoFar'
  <2>1. config' \in Configs /\ pc' \in 0 .. Len(Program') /\ MadeSoFar /\ WiresSoFar /\ InstalledSoFar
    BY <1>2, <1>4 DEF Executed
  <2>2. Statement = Program[pc + 1] /\ 1 .. pc' = (1 .. pc) \cup {pc + 1}
    BY <1>4, Extends DEF Statement
  <2>3. (\A o : Statement # Make(o)) /\ made' = made => MadeSoFar'
    BY <1>4, <2>1, <2>2 DEF MadeSoFar
  <2>4. (\A p, q : Statement # Bind(p, q)) /\ wires' = wires => WiresSoFar'
    BY <1>4, <2>1, <2>2 DEF WiresSoFar
  <2>5. (\A t : Statement # Install(t)) /\ firmware' = firmware => InstalledSoFar'
    BY <1>4, <2>1, <2>2 DEF InstalledSoFar
  <2> QED
    BY <2>1, <2>2, <2>3, <2>4, <2>5
<1>5. ASSUME NEW op, Executes(op)
      PROVE  /\ pc \in Nat /\ pc < Len(Program) /\ status = "building" /\ config' = config /\ pc' = pc + 1
             /\ Program' = Program /\ Statement.op = op /\ config \in Configs
  BY <1>5, SameScript DEF Executes, Executed
<1>6. CASE MakeObject
  <2>1. Executes("make") /\ made' = made \cup {Statement.a} /\ wires' = wires /\ firmware' = firmware
            /\ status' = status
    BY <1>6 DEF MakeObject
  <2>2. Statement = Make(Statement.a) /\ (\A p, q : Statement # Bind(p, q)) /\ (\A t : Statement # Install(t))
    BY <1>5, <2>1, StatementKinds, Distinct
  <2>3. PICK o : o = Statement.a
    OBVIOUS
  <2>4. MadeSoFar'
    <3>1. /\ \A u : u \in made' <=> u \in made \/ u = o
          /\ \A u : Statement = Make(u) <=> u = o
      BY <2>1, <2>2, <2>3, Distinct
    <3>2. /\ \A u : u \in made <=> \E j \in 1 .. pc : Program[j] = Make(u)
          /\ Statement = Program[pc + 1] /\ 1 .. pc' = (1 .. pc) \cup {pc + 1} /\ Program' = Program
      BY <1>4, <1>5, <2>1 DEF MadeSoFar
    <3> QED
      BY <3>1, <3>2 DEF MadeSoFar
  <2>5. WiresSoFar' /\ InstalledSoFar' /\ config' \in Configs /\ pc' \in 0 .. Len(Program') /\ status' = "building"
    BY <1>4, <1>5, <2>1, <2>2
  <2> QED
    BY <2>4, <2>5 DEF Executed
<1>7. ASSUME status' = "failed", NEW op, Executes(op) PROVE Executed'
  BY <1>4, <1>5, <1>7 DEF Executed
<1>8. CASE ConnectPorts
  <2>1. Executes("bind")
    BY <1>8 DEF ConnectPorts
  <2>2. CASE status' = "failed"
    BY <1>7, <2>1, <2>2
  <2>3. CASE status' # "failed"
    <3>1. PICK p, q : p = Statement.a /\ q = Statement.b
      OBVIOUS
    <3>2. wires' = wires \cup {Wire(p, q)} /\ made' = made /\ firmware' = firmware /\ status' = status
      BY <1>8, <2>3, <3>1 DEF ConnectPorts, Fail, Wire
    <3>3. Statement = Bind(p, q) /\ (\A o : Statement # Make(o)) /\ (\A t : Statement # Install(t))
      BY <1>5, <2>1, <3>1, StatementKinds, Distinct
    <3>4. WiresSoFar'
      <4>1. \A r, s : Statement = Bind(r, s) <=> r = p /\ s = q
        BY <3>3, Distinct
      <4>2. /\ \A w \in wires : \E j \in 1 .. pc : \E r, s : Program[j] = Bind(r, s) /\ w = Wire(r, s)
            /\ \A j \in 1 .. pc : \A r, s : Program[j] = Bind(r, s) => Wire(r, s) \in wires
            /\ Statement = Program[pc + 1] /\ 1 .. pc' = (1 .. pc) \cup {pc + 1} /\ Program' = Program
        BY <1>4, <1>5, <2>1 DEF WiresSoFar
      <4>3. \A w \in wires' : \E j \in 1 .. pc' : \E r, s : Program[j] = Bind(r, s) /\ w = Wire(r, s)
        <5> SUFFICES ASSUME NEW w \in wires'
                     PROVE  \E j \in 1 .. pc' : \E r, s : Program[j] = Bind(r, s) /\ w = Wire(r, s)
          OBVIOUS
        <5>1. CASE w \in wires
          <6>1. PICK j \in 1 .. pc : \E r, s : Program[j] = Bind(r, s) /\ w = Wire(r, s)
            BY <4>2, <5>1
          <6> QED
            BY <4>2, <6>1
        <5>2. CASE w = Wire(p, q)
          <6>1. pc + 1 \in 1 .. pc' /\ Program[pc + 1] = Bind(p, q)
            BY <3>3, <4>2
          <6> QED
            BY <5>2, <6>1
        <5> QED
          BY <3>2, <5>1, <5>2
      <4>4. \A j \in 1 .. pc' : \A r, s : Program[j] = Bind(r, s) => Wire(r, s) \in wires'
        BY <3>2, <4>1, <4>2
      <4> QED
        BY <4>2, <4>3, <4>4 DEF WiresSoFar
    <3>5. MadeSoFar' /\ InstalledSoFar' /\ config' \in Configs /\ pc' \in 0 .. Len(Program') /\ status' = "building"
      BY <1>4, <1>5, <2>1, <3>2, <3>3
    <3> QED
      BY <3>4, <3>5 DEF Executed
  <2> QED
    BY <2>2, <2>3
<1>9. CASE ReadSize
  <2>1. Executes("option") /\ made' = made /\ wires' = wires /\ firmware' = firmware
            /\ status' \in {status, "failed"}
    BY <1>9 DEF ReadSize, Fail
  <2>2. (\A o : Statement # Make(o)) /\ (\A p, q : Statement # Bind(p, q)) /\ (\A t : Statement # Install(t))
    BY <1>5, <2>1, StatementKinds
  <2> QED
    BY <1>4, <1>5, <2>1, <2>2 DEF Executed
<1>10. CASE InstallFirmware
  <2>1. Executes("install") /\ made' = made /\ wires' = wires /\ firmware' = Statement.a /\ status' = status
    BY <1>10 DEF InstallFirmware
  <2>2. Statement = Install(Statement.a) /\ (\A o : Statement # Make(o)) /\ (\A p, q : Statement # Bind(p, q))
    BY <1>5, <2>1, StatementKinds, Distinct
  <2>3. \A t : Install(t) \in {Program[j] : j \in 1 .. Len(Program)} => t \in Tables
    <3>1. PICK B, o, w : Lists(Program, B) /\ Builds(B, o, w, Tables)
      BY <1>5, <2>1, ProgramScript DEF Script
    <3> QED
      BY <3>1 DEF Lists, Builds
  <2>4. \A t, u \in Tables : t = u
    BY DEF Tables
  <2>5. InstalledSoFar'
    <3> SUFFICES ASSUME NEW j \in 1 .. pc', NEW t, Program'[j] = Install(t) PROVE firmware' = t
      BY DEF InstalledSoFar
    <3>1. pc' \in 0 .. Len(Program) /\ Program' = Program /\ pc + 1 = pc'
      BY <1>4, <1>5, <2>1
    <3>2. j \in 1 .. Len(Program)
      BY <1>2, <3>1
    <3>3. t \in Tables
      BY <2>3, <3>1, <3>2
    <3>4. firmware' \in Tables
      BY <1>5, <2>1, <2>2, StatementKinds
    <3> QED
      BY <2>4, <3>3, <3>4
  <2>6. WiresSoFar' /\ MadeSoFar' /\ config' \in Configs /\ pc' \in 0 .. Len(Program') /\ status' = "building"
    BY <1>4, <1>5, <2>1, <2>2
  <2> QED
    BY <2>5, <2>6 DEF Executed
<1>11. CASE Instantiate
  BY <1>3, <1>11 DEF Instantiate
<1>12. CASE Send
  BY <1>3, <1>12 DEF Send
<1>13. CASE ThroughBus
  <2>1. status' \in {status, "loop", "overlap", "nowhere"} /\ status = "running"
    <3>1. status = "running"
      BY <1>13 DEF ThroughBus, Sending
    <3> DEFINE claimants == {p \in Peers(Port(Here, "mem_side_ports")) : Claims(p, req.addr)}
               nexts     == IF claimants = {} THEN Peers(Port(Here, "default")) ELSE claimants
               trouble   == CASE Here \in req.path      -> "loop"
                              [] Cardinality(nexts) > 1 -> "overlap"
                              [] nexts = {}             -> "nowhere"
                              [] OTHER                  -> "none"
    <3>2. trouble \in {"loop", "overlap", "nowhere", "none"}
      <4> HIDE DEF claimants, nexts
      <4> QED
        OBVIOUS
    <3>3. \/ trouble = "none" /\ \E p \in nexts : GoOn(p)
          \/ trouble # "none" /\ status' = trouble /\ UNCHANGED req
      BY <1>13, Zenon DEF ThroughBus
    <3> HIDE DEF trouble, nexts
    <3> QED
      BY <3>1, <3>2, <3>3 DEF GoOn
  <2> QED
    BY <1>3, <1>13, <2>1 DEF ThroughBus, Sending
<1>14. CASE ThroughCache
  BY <1>3, <1>14 DEF ThroughCache, Sending, GoOn
<1>15. CASE ThroughBridge
  BY <1>3, <1>15 DEF ThroughBridge, Sending, GoOn
<1>16. CASE Answer
  BY <1>3, <1>16 DEF Answer
<1>17. CASE UNCHANGED vars
  <2>1. Program' = Program
    BY <1>17, SameScript DEF vars
  <2> QED
    BY <1>17, <2>1 DEF vars, Executed, MadeSoFar, WiresSoFar, InstalledSoFar
<1> QED
  BY <1>6, <1>8, <1>9, <1>10, <1>11, <1>12, <1>13, <1>14, <1>15, <1>16, <1>17 DEF Next

(* The script has been executed to its end.                              *)
Done == status \notin {"building", "failed"}

(* At the end of the script the system is exactly what it builds.        *)
LEMMA BuiltAtEnd ==
  ASSUME Executed, pc = Len(Program), status # "failed"
  PROVE  /\ \A w : w \in wires <=> w \in WiresOf(config)
         /\ \A w \in wires : \E p, q : w = Wired(p, q)
         /\ FullSystem => \A o : o \in made <=> o \in FSObjects(config.cpus)
         /\ FullSystem => firmware = Firmware(config.cpus)
<1>1. PICK o, A : /\ Lists(Program, A) /\ Builds(A, o, WiresOf(config), Tables)
                  /\ FullSystem => o = FSObjects(config.cpus)
  BY ProgramScript DEF Executed, Script
<1>2. pc = Len(Program) /\ MadeSoFar /\ WiresSoFar /\ InstalledSoFar
  BY DEF Executed
<1>3. \A x : x \in A <=> \E j \in 1 .. pc : Program[j] = x
  BY <1>1, <1>2 DEF Lists
<1>4. \A u : u \in made <=> u \in o
  <2>1. \A u : u \in made <=> Make(u) \in A
    BY <1>2, <1>3 DEF MadeSoFar
  <2> QED
    BY <1>1, <2>1 DEF Builds
<1>5. ASSUME NEW w \in wires PROVE w \in WiresOf(config)
  <2>1. PICK j \in 1 .. pc : \E p, q : Program[j] = Bind(p, q) /\ w = Wire(p, q)
    BY <1>2, <1>5 DEF WiresSoFar
  <2>2. PICK p, q : Program[j] = Bind(p, q) /\ w = Wire(p, q)
    BY <2>1
  <2>3. Bind(p, q) \in A
    BY <1>3, <2>2
  <2> QED
    BY <1>1, <2>2, <2>3 DEF Builds
<1>6. ASSUME NEW w \in WiresOf(config) PROVE w \in wires
  <2>1. PICK p, q : Bind(p, q) \in A /\ w = Wire(p, q)
    BY <1>1, <1>6 DEF Builds
  <2>2. PICK j \in 1 .. pc : Program[j] = Bind(p, q)
    BY <1>3, <2>1
  <2> QED
    BY <1>2, <2>1, <2>2 DEF WiresSoFar
<1>7. ASSUME FullSystem PROVE firmware = Firmware(config.cpus)
  <2>1. Install(Firmware(config.cpus)) \in A
    BY <1>1, <1>7 DEF Builds, Tables
  <2>2. PICK j \in 1 .. pc : Program[j] = Install(Firmware(config.cpus))
    BY <1>3, <2>1
  <2> QED
    BY <1>2, <2>2 DEF InstalledSoFar
<1>8. \A w \in wires : \E p, q : w = Wired(p, q)
  BY <1>2 DEF WiresSoFar, Wire, Wired
<1> QED
  BY <1>1, <1>4, <1>5, <1>6, <1>7, <1>8

LEMMA Built ==
  ASSUME Executed, Done
  PROVE  /\ \A w : w \in wires <=> w \in WiresOf(config)
         /\ \A w \in wires : \E p, q : w = Wired(p, q)
         /\ FullSystem => \A o : o \in made <=> o \in FSObjects(config.cpus)
         /\ FullSystem => firmware = Firmware(config.cpus)
<1>1. pc = Len(Program) /\ status # "failed"
  BY DEF Executed, Done
<1> QED
  BY <1>1, BuiltAtEnd

(* At every point of a run, the objects, the wires and the firmware are  *)
(* those of the statements executed so far.                              *)
THEOREM ExecutedCorrect == Spec => []Executed
  BY ExecutedInit, ExecutedStep, PTL DEF Spec
---------------------------------------------------------------------------
(* The pins of the ISA interrupts are 1 to 14, one for each.             *)
LEMMA ISAPinFacts ==
  \A r \in ISAPins : /\ r[2] \in 1 .. 14
                     /\ \A s \in ISAPins : r[2] = s[2] => r[1] = s[1]
<1>1. \A r \in ISAPins : r = <<0, 2>> \/ r = <<1, 1>> \/ \E i \in 3 .. 14 : r = <<i, i>>
  BY DEF ISAPins
<1>2. \A r \in ISAPins : \/ r[1] = 0 /\ r[2] = 2
                         \/ r[1] = 1 /\ r[2] = 1
                         \/ r[1] \in 3 .. 14 /\ r[2] = r[1]
  BY <1>1
<1> QED
  BY <1>2

(* An entry of the interrupt table is the one of the disk controller,    *)
(* one of the 8259 or one of an ISA pin.                                 *)
LEMMA IntFacts ==
  ASSUME NEW n, NEW x \in MPTable(n).ints
  PROVE  /\ x.dest = n /\ x.bus \in {0, 1}
         /\ \/ x = [type |-> "INT", bus |-> 0, irq |-> 16, dest |-> n, pin |-> 16]
            \/ x.type = "ExtInt" /\ x.pin = 0
            \/ \E r \in ISAPins : x = [type |-> "INT", bus |-> 1, irq |-> r[1], dest |-> n, pin |-> r[2]]
<1>1. MPTable(n).ints = {[type |-> "INT", bus |-> 0, irq |-> 16, dest |-> n, pin |-> 16]}
                        \cup UNION {AssignISAInt(p[1], p[2], n) : p \in ISAPins}
  BY DEF MPTable
<1>2. \/ x = [type |-> "INT", bus |-> 0, irq |-> 16, dest |-> n, pin |-> 16]
      \/ \E p \in ISAPins : x \in AssignISAInt(p[1], p[2], n)
  BY <1>1
<1>3. CASE x = [type |-> "INT", bus |-> 0, irq |-> 16, dest |-> n, pin |-> 16]
  BY <1>3
<1>4. ASSUME NEW p \in ISAPins, x \in AssignISAInt(p[1], p[2], n)
      PROVE  /\ x.dest = n /\ x.bus = 1
             /\ \/ x.type = "ExtInt" /\ x.pin = 0
                \/ x = [type |-> "INT", bus |-> 1, irq |-> p[1], dest |-> n, pin |-> p[2]]
  BY <1>4 DEF AssignISAInt
<1> QED
  BY <1>2, <1>3, <1>4

(* Two different entries with the same pin are both of the 8259.         *)
LEMMA PinsDistinct ==
  ASSUME NEW n, NEW x \in MPTable(n).ints, NEW y \in MPTable(n).ints, x.pin = y.pin, x # y
  PROVE  x.type = "ExtInt" /\ y.type = "ExtInt"
<1> DEFINE PCI == [type |-> "INT", bus |-> 0, irq |-> 16, dest |-> n, pin |-> 16]
           ISA(r) == [type |-> "INT", bus |-> 1, irq |-> r[1], dest |-> n, pin |-> r[2]]
<1>1. /\ x = PCI \/ (x.type = "ExtInt" /\ x.pin = 0) \/ \E r \in ISAPins : x = ISA(r)
      /\ y = PCI \/ (y.type = "ExtInt" /\ y.pin = 0) \/ \E r \in ISAPins : y = ISA(r)
  BY IntFacts
<1>2. PCI.pin = 16 /\ \A r \in ISAPins : ISA(r).pin = r[2] /\ r[2] \in 1 .. 14
  BY ISAPinFacts
<1>3. \A r, s \in ISAPins : r[2] = s[2] => ISA(r) = ISA(s)
  BY ISAPinFacts
<1> HIDE DEF PCI, ISA
<1>4. /\ x = PCI \/ (x.type = "ExtInt" /\ x.pin = 0)
             \/ (x.pin \in 1 .. 14 /\ \E r \in ISAPins : x = ISA(r) /\ x.pin = r[2])
      /\ y = PCI \/ (y.type = "ExtInt" /\ y.pin = 0)
             \/ (y.pin \in 1 .. 14 /\ \E r \in ISAPins : y = ISA(r) /\ y.pin = r[2])
  BY <1>1, <1>2
<1>5. ~ (x.pin \in 1 .. 14 /\ y.pin \in 1 .. 14)
  <2> SUFFICES ASSUME x.pin \in 1 .. 14, y.pin \in 1 .. 14 PROVE FALSE
    OBVIOUS
  <2>1. PICK r \in ISAPins, s \in ISAPins : x = ISA(r) /\ y = ISA(s) /\ x.pin = r[2] /\ y.pin = s[2]
    BY <1>2, <1>4
  <2> QED
    BY <1>3, <2>1
<1> QED
  BY <1>2, <1>4, <1>5

(* The processors of the table are numbered from 0, and one is the       *)
(* bootstrap processor.                                                  *)
LEMMA Processors ==
  ASSUME NEW n \in Nat \ {0}
  PROVE  /\ {p.id : p \in MPTable(n).processors} = 0 .. n - 1
         /\ Cardinality({p \in MPTable(n).processors : p.bootstrap}) = 1
<1> DEFINE P == {[id |-> i, bootstrap |-> i = 0] : i \in 0 .. n - 1}
<1>1. MPTable(n).processors = P
  BY DEF MPTable
<1>2. \A p \in P : p.id \in 0 .. n - 1 /\ p = [id |-> p.id, bootstrap |-> p.id = 0]
  OBVIOUS
<1>3. \A i \in 0 .. n - 1 : [id |-> i, bootstrap |-> i = 0] \in P
  OBVIOUS
<1> HIDE DEF P
<1>4. {p.id : p \in P} = 0 .. n - 1
  <2>1. \A p \in P : p.id \in 0 .. n - 1
    BY <1>2
  <2>2. ASSUME NEW i \in 0 .. n - 1 PROVE \E p \in P : p.id = i
    <3>1. [id |-> i, bootstrap |-> i = 0].id = i
      OBVIOUS
    <3> QED
      BY <1>3, <3>1
  <2>3. \A i : i \in {p.id : p \in P} <=> \E p \in P : p.id = i
    BY Zenon
  <2> QED
    BY <2>1, <2>2, <2>3
<1>5. {p \in P : p.bootstrap} = {[id |-> 0, bootstrap |-> 0 = 0]}
  <2>1. 0 \in 0 .. n - 1 /\ [id |-> 0, bootstrap |-> 0 = 0] \in P
    BY <1>3
  <2>2. ASSUME NEW p \in P PROVE p.bootstrap <=> p.id = 0
    <3>1. PICK i \in 0 .. n - 1 : p = [id |-> i, bootstrap |-> i = 0]
      BY DEF P
    <3>2. p.id = i
      BY <3>1
    <3>3. p.bootstrap = (i = 0)
      BY <3>1, Zenon
    <3> QED
      BY <3>2, <3>3
  <2>3. [id |-> 0, bootstrap |-> 0 = 0].id = 0
    OBVIOUS
  <2>4. ASSUME NEW p \in P, p.id = 0 PROVE p = [id |-> 0, bootstrap |-> 0 = 0]
    BY <1>2, <2>4
  <2>5. PICK z : z = [id |-> 0, bootstrap |-> 0 = 0]
    OBVIOUS
  <2> QED
    BY <2>1, <2>2, <2>3, <2>4, <2>5
<1>6. Cardinality({p \in P : p.bootstrap}) = 1
  BY <1>5, FS_Singleton
<1> QED
  BY <1>1, <1>4, <1>6

LEMMA Boards ==   \* an interrupt controller for each CPU, and no other
  ASSUME NEW n \in Nat
  PROVE  {o[2] : o \in {q \in FSObjects(n) : q[1] = "interrupts"}} = 0 .. n - 1
<1>1. ASSUME NEW o \in FSObjects(n), o[1] = "interrupts" PROVE \E i \in 0 .. n - 1 : o = <<"interrupts", i>>
  <2>1. \/ o \in {One("system"), One("membus"), One("badaddr"), One("mem_ctrl")} \cup BoardObjects
        \/ \E i \in 0 .. n - 1 : o = <<"cpu", i>> \/ o = <<"icache", i>> \/ o = <<"dcache", i>>
        \/ \E i \in 0 .. n - 1 : o = <<"interrupts", i>>
    BY <1>1 DEF FSObjects, All
  <2>2. \A u \in {One("system"), One("membus"), One("badaddr"), One("mem_ctrl")}
            \cup BoardObjects : u[1] # "interrupts"
    BY DEF BoardObjects, One
  <2>3. \A i : <<"cpu", i>>[1] # "interrupts" /\ <<"icache", i>>[1] # "interrupts"
            /\ <<"dcache", i>>[1] # "interrupts"
    OBVIOUS
  <2> QED
    BY <1>1, <2>1, <2>2, <2>3
<1>2. \A i \in 0 .. n - 1 : <<"interrupts", i>> \in FSObjects(n)
  BY DEF FSObjects, All
<1> DEFINE Q == {q \in FSObjects(n) : q[1] = "interrupts"}
<1>3. \A o : o \in Q <=> \E i \in 0 .. n - 1 : o = <<"interrupts", i>>
  <2>1. \A i : <<"interrupts", i>>[1] = "interrupts"
    OBVIOUS
  <2> QED
    BY <1>1, <1>2, <2>1
<1> HIDE DEF Q
<1>4. {o[2] : o \in Q} = 0 .. n - 1
  <2>1. \A i : <<"interrupts", i>>[2] = i
    OBVIOUS
  <2>2. ASSUME NEW x \in {o[2] : o \in Q} PROVE x \in 0 .. n - 1
    <3>1. PICK o \in Q : x = o[2]
      OBVIOUS
    <3>2. PICK i \in 0 .. n - 1 : o = <<"interrupts", i>>
      BY <1>3, <3>1
    <3> QED
      BY <3>1, <3>2
  <2>3. ASSUME NEW x \in 0 .. n - 1 PROVE x \in {o[2] : o \in Q}
    <3>1. <<"interrupts", x>> \in Q
      BY <1>3
    <3> QED
      BY <2>1, <3>1
  <2>4. \A x : x \in {o[2] : o \in Q} <=> x \in 0 .. n - 1
    BY <2>2, <2>3
  <2> QED
    BY <2>4
<1> QED
  BY <1>4 DEF Q

(* The MP table that init_fs leaves describes the machine that MySystem  *)
(* builds, for any number of CPUs: a processor for each interrupt        *)
(* controller, one bootstrap processor, an I/O APIC with an id of its    *)
(* own that the south bridge was told too, and one source for each pin   *)
(* but the 8259's.                                                       *)
THEOREM MPTableCorrect == Spec => []MPTableOK
<1>1. Executed => MPTableOK
  <2> SUFFICES ASSUME Executed, status = "running", FullSystem PROVE MPTableOK
    BY DEF MPTableOK
  <2> DEFINE n == config.cpus
             mp == MPTable(n)
  <2>1. n \in Nat \ {0} /\ firmware = Firmware(n) /\ \A o : o \in made <=> o \in FSObjects(n)
    BY Built, ConfigFacts DEF Executed, Done
  <2>2. firmware.mp = mp /\ firmware.ioapicId = n
    BY <2>1 DEF Firmware
  <2>3. made = FSObjects(n)
    BY <2>1
  <2>4. mp.ioapic = n /\ mp.parent.bus = 1 /\ mp.parent.parent = 0 /\ mp.busses = {0, 1}
    BY DEF MPTable
  <2> HIDE DEF n, mp
  <2>5. {p.id : p \in mp.processors} = {o[2] : o \in {q \in made : q[1] = "interrupts"}}
    BY <2>1, <2>3, Processors, Boards DEF mp
  <2>6. Cardinality({p \in mp.processors : p.bootstrap}) = 1
    BY <2>1, Processors DEF mp
  <2>7. mp.ioapic \notin {p.id : p \in mp.processors}
    <3>1. {p.id : p \in mp.processors} = 0 .. n - 1
      BY <2>1, Processors DEF mp
    <3> QED
      BY <2>1, <2>4, <3>1
  <2>8. \A i \in mp.ints : i.dest = mp.ioapic /\ i.bus \in mp.busses
    BY <2>4, IntFacts DEF mp
  <2>9. \A i, k \in mp.ints : i.pin = k.pin /\ i # k => i.type = "ExtInt" /\ k.type = "ExtInt"
    BY PinsDistinct DEF mp
  <2> QED
    BY <2>2, <2>4, <2>5, <2>6, <2>7, <2>8, <2>9 DEF MPTableOK
<1> QED
  BY <1>1, ExecutedCorrect, PTL

(* The e820 map of init_fs, for any size of memory below 3GB: usable     *)
(* only where there is memory, no two entries overlap, and there is no   *)
(* gap below 3GB.                                                        *)
THEOREM MemoryMapCorrect == Spec => []MemoryMapOK
<1>1. Executed => MemoryMapOK
  <2> SUFFICES ASSUME Executed, status = "running", FullSystem PROVE MemoryMapOK
    BY DEF MemoryMapOK
  <2>1. firmware = Firmware(config.cpus)
    BY Built DEF Executed, Done
  <2>2. firmware.e820 = E820
    BY <2>1 DEF Firmware
  <2> DEFINE End(e) == e.addr + e.size
             a == E820Entry(0, 639, 1)
             b == E820Entry(639, 385, 2)
             c == E820Entry(1024, MemSize - 1024, 1)
             d == E820Entry(MemSize, GB3 - MemSize, 2)
             f == E820Entry(M5Ops, 64, 2)
  <2>3. E820 = {a, b, c, d, f}
    BY DEF E820
  <2>4. /\ a.addr = 0 /\ a.size = 639 /\ a.type = 1
        /\ b.addr = 639 /\ b.size = 385 /\ b.type = 2
        /\ c.addr = 1024 /\ c.size = MemSize - 1024 /\ c.type = 1
        /\ d.addr = MemSize /\ d.size = GB3 - MemSize /\ d.type = 2
        /\ f.addr = M5Ops /\ f.size = 64 /\ f.type = 2
    BY DEF E820Entry
  <2>5. /\ End(a) = 639 /\ End(b) = 1024 /\ End(c) = MemSize /\ End(d) = GB3 /\ End(f) = GB4
    BY <2>4, MemSizeAssumption DEF GB3, GB4, M5Ops
  <2>6. MemSize \in Nat /\ 1024 < MemSize /\ MemSize < GB3 /\ GB3 < M5Ops /\ M5Ops < GB4
    BY MemSizeAssumption DEF GB3, GB4, M5Ops
  <2> HIDE DEF End, a, b, c, d, f
  <2>7. \A e \in E820 : e.size > 0 /\ (e.type = 1 => End(e) <= MemSize)
    BY <2>3, <2>4, <2>5, <2>6 DEF GB3
  <2>8. \A e, g \in E820 : e # g => End(e) <= g.addr \/ End(g) <= e.addr
    BY <2>3, <2>4, <2>5, <2>6 DEF GB3, M5Ops, GB4
  <2>9. \A e \in E820 : End(e) \in {g.addr : g \in E820} \cup {GB3, GB4}
    <3>1. {a.addr, b.addr, c.addr, d.addr, f.addr} \subseteq {g.addr : g \in E820}
      BY <2>3
    <3>2. End(a) = b.addr /\ End(b) = c.addr /\ End(c) = d.addr
      BY <2>4, <2>5
    <3> QED
      BY <2>3, <2>5, <3>1, <3>2
  <2>10. (\E e \in E820 : e.addr = 0) /\ \E e \in E820 : End(e) = GB3
    BY <2>3, <2>4, <2>5
  <2> QED
    BY <2>2, <2>7, <2>8, <2>9, <2>10 DEF MemoryMapOK, End
<1> QED
  BY <1>1, ExecutedCorrect, PTL
---------------------------------------------------------------------------
(* Ports and wires are equal when their parts are.                       *)
LEMMA Pairs == \A p, q, r, s : Wired(p, q) = Wired(r, s) <=> p = r /\ q = s
  BY DEF Wired

Joins(p, q, n) ==   \* the wires of the full system
    \/ p = <<"membus", 0, "default">> /\ q = <<"badaddr", 0, "pio">>
    \/ p = <<"system", 0, "system_port">> /\ q = Slave("membus")
    \/ p = <<"bridge", 0, "master">> /\ q = Slave("iobus")
    \/ p = Master("membus") /\ q = <<"bridge", 0, "slave">>
    \/ p = Master("iobus") /\ q = <<"apicbridge", 0, "slave">>
    \/ p = <<"apicbridge", 0, "master">> /\ q = Slave("membus")
    \/ p = <<"io_apic", 0, "int_master">> /\ q = Slave("iobus")
    \/ p = Master("iobus") /\ q = <<"io_apic", 0, "pio">>
    \/ p = <<"ide", 0, "dma">> /\ q = Slave("iobus")
    \/ p = <<"iobus", 0, "default">> /\ q = <<"pci_host", 0, "pio">>
    \/ p = Master("iobus") /\ q = <<"iocache", 0, "cpu_side">>
    \/ p = <<"iocache", 0, "mem_side">> /\ q = Slave("membus")
    \/ p = Master("membus") /\ q = <<"mem_ctrl", 0, "port">>
    \/ \E i \in 0 .. n - 1 :
          \/ p = <<"cpu", i, "icache_port">> /\ q = <<"icache", i, "cpu_side">>
          \/ p = <<"cpu", i, "dcache_port">> /\ q = <<"dcache", i, "cpu_side">>
          \/ p = <<"icache", i, "mem_side">> /\ q = Slave("membus")
          \/ p = <<"dcache", i, "mem_side">> /\ q = Slave("membus")
          \/ p = <<"cpu", i, "itb_walker">> /\ q = Slave("membus")
          \/ p = <<"cpu", i, "dtb_walker">> /\ q = Slave("membus")
          \/ p = Master("membus") /\ q = <<"interrupts", i, "pio">>
          \/ p = <<"interrupts", i, "int_master">> /\ q = Slave("membus")
          \/ p = Master("membus") /\ q = <<"interrupts", i, "int_slave">>

(* Joins is membership in the wires of the full system.                  *)
LEMMA FSJoins ==
  ASSUME NEW n \in Nat
  PROVE  \A p, q : Wired(p, q) \in FSWires(n) <=> Joins(p, q, n)
<1> SUFFICES ASSUME NEW p, NEW q PROVE Wired(p, q) \in FSWires(n) <=> Joins(p, q, n)
  OBVIOUS
<1>1. Wired(p, q) \in FSWires(n) <=>
         \/ Wired(p, q) \in FrontWires \cup SystemWires("membus") \cup BoardWires \cup MemoryWires("membus")
         \/ \E i \in 0 .. n - 1 : Wired(p, q) \in HierarchyWires(i) \/ Wired(p, q) \in InterruptWires(i, "membus")
  <2> DEFINE w == Wired(p, q)
  <2>1. w \in All([i \in 0 .. n - 1 |-> {}], 0 .. n - 1) <=> FALSE
    BY DEF All
  <2>2. w \in All([i \in 0 .. n - 1 |-> HierarchyWires(i)], 0 .. n - 1)
            <=> \E i \in 0 .. n - 1 : w \in HierarchyWires(i)
    BY DEF All
  <2>3. w \in All([i \in 0 .. n - 1 |-> InterruptWires(i, "membus")], 0 .. n - 1)
           <=> \E i \in 0 .. n - 1 : w \in InterruptWires(i, "membus")
    BY DEF All
  <2> HIDE DEF w
  <2>4. w \in FSWires(n) <=>
           \/ w \in FrontWires \cup SystemWires("membus") \cup BoardWires \cup MemoryWires("membus")
           \/ w \in All([i \in 0 .. n - 1 |-> {}], 0 .. n - 1)
           \/ w \in All([i \in 0 .. n - 1 |-> HierarchyWires(i)], 0 .. n - 1)
           \/ w \in All([i \in 0 .. n - 1 |-> InterruptWires(i, "membus")], 0 .. n - 1)
    BY DEF FSWires
  <2> QED
    BY <2>1, <2>2, <2>3, <2>4 DEF w
<1>2. Wired(p, q) \in FrontWires \cup SystemWires("membus") \cup BoardWires \cup MemoryWires("membus") <=>
    \/ p = <<"membus", 0, "default">> /\ q = <<"badaddr", 0, "pio">>
    \/ p = <<"system", 0, "system_port">> /\ q = Slave("membus")
    \/ p = <<"bridge", 0, "master">> /\ q = Slave("iobus")
    \/ p = Master("membus") /\ q = <<"bridge", 0, "slave">>
    \/ p = Master("iobus") /\ q = <<"apicbridge", 0, "slave">>
    \/ p = <<"apicbridge", 0, "master">> /\ q = Slave("membus")
    \/ p = <<"io_apic", 0, "int_master">> /\ q = Slave("iobus")
    \/ p = Master("iobus") /\ q = <<"io_apic", 0, "pio">>
    \/ p = <<"ide", 0, "dma">> /\ q = Slave("iobus")
    \/ p = <<"iobus", 0, "default">> /\ q = <<"pci_host", 0, "pio">>
    \/ p = Master("iobus") /\ q = <<"iocache", 0, "cpu_side">>
    \/ p = <<"iocache", 0, "mem_side">> /\ q = Slave("membus")
    \/ p = Master("membus") /\ q = <<"mem_ctrl", 0, "port">>
  BY Pairs DEF FrontWires, SystemWires, BoardWires, BridgeWires, AttachWires, IOCacheWires, MemoryWires
<1>3. ASSUME NEW i
      PROVE  Wired(p, q) \in HierarchyWires(i) \/ Wired(p, q) \in InterruptWires(i, "membus") <=>
          \/ p = <<"cpu", i, "icache_port">> /\ q = <<"icache", i, "cpu_side">>
          \/ p = <<"cpu", i, "dcache_port">> /\ q = <<"dcache", i, "cpu_side">>
          \/ p = <<"icache", i, "mem_side">> /\ q = Slave("membus")
          \/ p = <<"dcache", i, "mem_side">> /\ q = Slave("membus")
          \/ p = <<"cpu", i, "itb_walker">> /\ q = Slave("membus")
          \/ p = <<"cpu", i, "dtb_walker">> /\ q = Slave("membus")
          \/ p = Master("membus") /\ q = <<"interrupts", i, "pio">>
          \/ p = <<"interrupts", i, "int_master">> /\ q = Slave("membus")
          \/ p = Master("membus") /\ q = <<"interrupts", i, "int_slave">>
  BY Pairs DEF HierarchyWires, InterruptWires
<1> QED
  BY <1>1, <1>2, <1>3 DEF Joins

(* The peers of the ports of the board.                                  *)
LEMMA BoardPeers ==
  ASSUME NEW n \in Nat
  PROVE  /\ \A q : Joins(Master("membus"), q, n) <=>
                      \/ q = <<"bridge", 0, "slave">> \/ q = <<"mem_ctrl", 0, "port">>
                      \/ \E i \in 0 .. n - 1 : q = <<"interrupts", i, "pio">>
                             \/ q = <<"interrupts", i, "int_slave">>
         /\ \A q : Joins(<<"membus", 0, "default">>, q, n) <=> q = <<"badaddr", 0, "pio">>
         /\ \A q : Joins(Master("iobus"), q, n) <=>
                      q \in {<<"apicbridge", 0, "slave">>, <<"io_apic", 0, "pio">>, <<"iocache", 0, "cpu_side">>}
         /\ \A q : Joins(<<"iobus", 0, "default">>, q, n) <=> q = <<"pci_host", 0, "pio">>
         /\ \A q : Joins(<<"iocache", 0, "mem_side">>, q, n) <=> q = Slave("membus")
         /\ \A q : Joins(<<"bridge", 0, "master">>, q, n) <=> q = Slave("iobus")
         /\ \A q : Joins(<<"apicbridge", 0, "master">>, q, n) <=> q = Slave("membus")
         /\ \A q : Joins(<<"system", 0, "system_port">>, q, n) <=> q = Slave("membus")
         /\ \A q : Joins(<<"ide", 0, "dma">>, q, n) <=> q = Slave("iobus")
         /\ \A q : Joins(<<"io_apic", 0, "int_master">>, q, n) <=> q = Slave("iobus")
<1>1. \A q : Joins(Master("membus"), q, n) <=>
                      \/ q = <<"bridge", 0, "slave">> \/ q = <<"mem_ctrl", 0, "port">>
                      \/ \E i \in 0 .. n - 1 : q = <<"interrupts", i, "pio">>
                             \/ q = <<"interrupts", i, "int_slave">>
  BY DEF Joins, Master, Slave
<1>2. \A q : Joins(<<"membus", 0, "default">>, q, n) <=> q = <<"badaddr", 0, "pio">>
  BY DEF Joins, Master, Slave
<1>3. \A q : Joins(Master("iobus"), q, n) <=>
                      q \in {<<"apicbridge", 0, "slave">>, <<"io_apic", 0, "pio">>, <<"iocache", 0, "cpu_side">>}
  BY DEF Joins, Master, Slave
<1>4. \A q : Joins(<<"iobus", 0, "default">>, q, n) <=> q = <<"pci_host", 0, "pio">>
  BY DEF Joins, Master, Slave
<1>5. \A q : Joins(<<"iocache", 0, "mem_side">>, q, n) <=> q = Slave("membus")
  BY DEF Joins, Master, Slave
<1>6. \A q : Joins(<<"bridge", 0, "master">>, q, n) <=> q = Slave("iobus")
  BY DEF Joins, Master, Slave
<1>7. \A q : Joins(<<"apicbridge", 0, "master">>, q, n) <=> q = Slave("membus")
  BY DEF Joins, Master, Slave
<1>8. \A q : Joins(<<"system", 0, "system_port">>, q, n) <=> q = Slave("membus")
  BY DEF Joins, Master, Slave
<1>9. \A q : Joins(<<"ide", 0, "dma">>, q, n) <=> q = Slave("iobus")
  BY DEF Joins, Master, Slave
<1>10. \A q : Joins(<<"io_apic", 0, "int_master">>, q, n) <=> q = Slave("iobus")
  BY DEF Joins, Master, Slave
<1> QED
  BY <1>1, <1>2, <1>3, <1>4, <1>5, <1>6, <1>7, <1>8, <1>9, <1>10

MemoryJoins(p, q, x86) ==   \* the wires the other scripts have in common
    \/ /\ x86
       /\ \/ p = Master("membus") /\ q = <<"interrupts", 0, "pio">>
          \/ p = <<"interrupts", 0, "int_master">> /\ q = Slave("membus")
          \/ p = Master("membus") /\ q = <<"interrupts", 0, "int_slave">>
    \/ p = Master("membus") /\ q = <<"mem_ctrl", 0, "port">>
    \/ p = <<"system", 0, "system_port">> /\ q = Slave("membus")

CPUJoins(p, q, i, d) == \/ p = <<"cpu", 0, "icache_port">> /\ q = i
                        \/ p = <<"cpu", 0, "dcache_port">> /\ q = d

LevelJoins(p, q) ==
    \/ p = <<"icache", 0, "mem_side">> /\ q = Slave("l2bus")
    \/ p = <<"dcache", 0, "mem_side">> /\ q = Slave("l2bus")
    \/ p = Master("l2bus") /\ q = <<"l2cache", 0, "cpu_side">>
    \/ p = <<"l2cache", 0, "mem_side">> /\ q = Slave("membus")

(* The same for the wires of the other scripts.                          *)
LEMMA PlainJoins ==
  /\ \A p, q, isa : Wired(p, q) \in SimpleWires(isa) <=>
        CPUJoins(p, q, Slave("membus"), Slave("membus")) \/ MemoryJoins(p, q, isa = "x86")
  /\ \A p, q, isa : Wired(p, q) \in TwoLevelWires(isa) <=>
        \/ CPUJoins(p, q, <<"icache", 0, "cpu_side">>, <<"dcache", 0, "cpu_side">>)
        \/ LevelJoins(p, q) \/ MemoryJoins(p, q, isa = "x86")
  /\ \A p, q : Wired(p, q) \in MemobjWires <=>
        \/ CPUJoins(p, q, <<"memobj", 0, "inst_port">>, <<"memobj", 0, "data_port">>)
        \/ p = <<"memobj", 0, "mem_side">> /\ q = Slave("membus")
        \/ MemoryJoins(p, q, TRUE)
  /\ \A p, q : Wired(p, q) \in CacheWires <=>
        \/ CPUJoins(p, q, <<"cache", 0, "cpu_side">>, <<"cache", 0, "cpu_side">>)
        \/ p = <<"cache", 0, "mem_side">> /\ q = Slave("membus")
        \/ MemoryJoins(p, q, TRUE)
<1>1. \A p, q, isa : Wired(p, q) \in OptionalInterruptWires(isa) \cup MemoryWires("membus")
          \cup SystemWires("membus")
         <=> MemoryJoins(p, q, isa = "x86")
  <2> SUFFICES ASSUME NEW p, NEW q, NEW isa
               PROVE  Wired(p, q) \in OptionalInterruptWires(isa) \cup MemoryWires("membus")
                          \cup SystemWires("membus")
                         <=> MemoryJoins(p, q, isa = "x86")
    OBVIOUS
  <2>1. CASE isa = "x86"
    BY <2>1, Pairs DEF OptionalInterruptWires, InterruptWires, MemoryWires, SystemWires, MemoryJoins
  <2>2. CASE isa # "x86"
    BY <2>2, Pairs DEF OptionalInterruptWires, MemoryWires, SystemWires, MemoryJoins
  <2> QED
    BY <2>1, <2>2
<1>2. \A p, q : Wired(p, q) \in InterruptWires(0, "membus") \cup MemoryWires("membus") \cup SystemWires("membus")
         <=> MemoryJoins(p, q, TRUE)
  BY Pairs DEF InterruptWires, MemoryWires, SystemWires, MemoryJoins
<1>3. \A p, q, isa : Wired(p, q) \in SimpleWires(isa) <=>
        CPUJoins(p, q, Slave("membus"), Slave("membus")) \/ MemoryJoins(p, q, isa = "x86")
  <2>1. \A p, q : Wired(p, q) \in CPUWires <=> CPUJoins(p, q, Slave("membus"), Slave("membus"))
    BY Pairs DEF CPUWires, CPUJoins
  <2> QED
    BY <1>1, <2>1 DEF SimpleWires
<1>4. \A p, q, isa : Wired(p, q) \in TwoLevelWires(isa) <=>
        \/ CPUJoins(p, q, <<"icache", 0, "cpu_side">>, <<"dcache", 0, "cpu_side">>)
        \/ LevelJoins(p, q) \/ MemoryJoins(p, q, isa = "x86")
  <2> DEFINE L == {Wired(<<"cpu", 0, "icache_port">>, <<"icache", 0, "cpu_side">>),
                   Wired(<<"cpu", 0, "dcache_port">>, <<"dcache", 0, "cpu_side">>),
                   Wired(<<"icache", 0, "mem_side">>, Slave("l2bus")),
                       Wired(<<"dcache", 0, "mem_side">>, Slave("l2bus")),
                   Wired(Master("l2bus"), <<"l2cache", 0, "cpu_side">>),
                       Wired(<<"l2cache", 0, "mem_side">>, Slave("membus"))}
  <2>1. \A p, q : Wired(p, q) \in L <=>
           \/ CPUJoins(p, q, <<"icache", 0, "cpu_side">>, <<"dcache", 0, "cpu_side">>)
           \/ LevelJoins(p, q)
    BY Pairs DEF CPUJoins, LevelJoins
  <2>2. \A isa : TwoLevelWires(isa) = L \cup OptionalInterruptWires(isa) \cup SystemWires("membus")
            \cup MemoryWires("membus")
    BY DEF TwoLevelWires
  <2> HIDE DEF L
  <2>3. \A x, isa : x \in TwoLevelWires(isa) <=>
           x \in L \/ x \in OptionalInterruptWires(isa) \cup MemoryWires("membus") \cup SystemWires("membus")
    BY <2>2
  <2> QED
    BY <1>1, <2>1, <2>3
<1>5. \A p, q : Wired(p, q) \in MemobjWires <=>
        \/ CPUJoins(p, q, <<"memobj", 0, "inst_port">>, <<"memobj", 0, "data_port">>)
        \/ p = <<"memobj", 0, "mem_side">> /\ q = Slave("membus")
        \/ MemoryJoins(p, q, TRUE)
  <2> DEFINE L == {Wired(<<"cpu", 0, "icache_port">>, <<"memobj", 0, "inst_port">>),
                   Wired(<<"cpu", 0, "dcache_port">>, <<"memobj", 0, "data_port">>),
                   Wired(<<"memobj", 0, "mem_side">>, Slave("membus"))}
  <2>1. \A p, q : Wired(p, q) \in L <=>
           \/ CPUJoins(p, q, <<"memobj", 0, "inst_port">>, <<"memobj", 0, "data_port">>)
           \/ p = <<"memobj", 0, "mem_side">> /\ q = Slave("membus")
    BY Pairs DEF CPUJoins
  <2>2. MemobjWires = L \cup InterruptWires(0, "membus") \cup MemoryWires("membus") \cup SystemWires("membus")
    BY DEF MemobjWires
  <2> HIDE DEF L
  <2>3. \A x : x \in MemobjWires <=>
           x \in L \/ x \in InterruptWires(0, "membus") \cup MemoryWires("membus") \cup SystemWires("membus")
    BY <2>2
  <2> QED
    BY <1>2, <2>1, <2>3
<1>6. \A p, q : Wired(p, q) \in CacheWires <=>
        \/ CPUJoins(p, q, <<"cache", 0, "cpu_side">>, <<"cache", 0, "cpu_side">>)
        \/ p = <<"cache", 0, "mem_side">> /\ q = Slave("membus")
        \/ MemoryJoins(p, q, TRUE)
  <2> DEFINE L == {Wired(<<"cpu", 0, "icache_port">>, <<"cache", 0, "cpu_side">>),
                   Wired(<<"cpu", 0, "dcache_port">>, <<"cache", 0, "cpu_side">>),
                   Wired(<<"cache", 0, "mem_side">>, Slave("membus"))}
  <2>1. \A p, q : Wired(p, q) \in L <=>
           \/ CPUJoins(p, q, <<"cache", 0, "cpu_side">>, <<"cache", 0, "cpu_side">>)
           \/ p = <<"cache", 0, "mem_side">> /\ q = Slave("membus")
    BY Pairs DEF CPUJoins
  <2>2. CacheWires = L \cup InterruptWires(0, "membus") \cup MemoryWires("membus") \cup SystemWires("membus")
    BY DEF CacheWires
  <2> HIDE DEF L
  <2>3. \A x : x \in CacheWires <=>
           x \in L \/ x \in InterruptWires(0, "membus") \cup MemoryWires("membus") \cup SystemWires("membus")
    BY <2>2
  <2> QED
    BY <1>2, <2>1, <2>3
<1> QED
  BY <1>3, <1>4, <1>5, <1>6

PlainWire(c, p, q) ==   \* the wires of the scripts without a board
    \/ CASE c.script = "simple" -> CPUJoins(p, q, Slave("membus"), Slave("membus"))
         [] c.script \in {"two_level", "two_level_opts"} ->
               CPUJoins(p, q, <<"icache", 0, "cpu_side">>, <<"dcache", 0, "cpu_side">>) \/ LevelJoins(p, q)
         [] c.script = "simple_memobj" ->
               \/ CPUJoins(p, q, <<"memobj", 0, "inst_port">>, <<"memobj", 0, "data_port">>)
               \/ p = <<"memobj", 0, "mem_side">> /\ q = Slave("membus")
         [] c.script = "simple_cache" ->
               \/ CPUJoins(p, q, <<"cache", 0, "cpu_side">>, <<"cache", 0, "cpu_side">>)
               \/ p = <<"cache", 0, "mem_side">> /\ q = Slave("membus")
    \/ MemoryJoins(p, q, c.isa = "x86")

(* PlainWire is membership in the wires of a script without a board.     *)
LEMMA PlainWires ==
  ASSUME config \in Configs, ~FullSystem
  PROVE  \A p, q : Wired(p, q) \in WiresOf(config) <=> PlainWire(config, p, q)
<1> SUFFICES ASSUME NEW p, NEW q PROVE Wired(p, q) \in WiresOf(config) <=> PlainWire(config, p, q)
  OBVIOUS
<1>1. CASE config.script = "simple"
  BY <1>1, PlainJoins DEF WiresOf, PlainWire
<1>2. CASE config.script \in {"two_level", "two_level_opts"}
  BY <1>2, PlainJoins DEF WiresOf, PlainWire
<1>3. CASE config.script = "simple_memobj"
  BY <1>3, PlainJoins, ConfigFacts DEF WiresOf, PlainWire
<1>4. CASE config.script = "simple_cache"
  BY <1>4, PlainJoins, ConfigFacts DEF WiresOf, PlainWire
<1> QED
  BY <1>1, <1>2, <1>3, <1>4, ConfigFacts DEF FullSystem

(* In a system that is done, the peers of a port are those its script    *)
(* gives it.                                                             *)
LEMMA PeersAre ==
  ASSUME Executed, Done, NEW p, NEW q
  PROVE  q \in Peers(p) <=> Wired(p, q) \in WiresOf(config)
<1>1. /\ \A w : w \in wires <=> w \in WiresOf(config)
      /\ \A w \in wires : \E r, s : w = Wired(r, s)
  BY Built
<1>2. q \in Peers(p) <=> \E w \in wires : w[1] = p /\ q = w[2]
  BY DEF Peers
<1>3. \A r, s : Wired(r, s)[1] = r /\ Wired(r, s)[2] = s
  BY DEF Wired
<1>4. q \in Peers(p) => Wired(p, q) \in wires
  <2>1. ASSUME q \in Peers(p) PROVE Wired(p, q) \in wires
    <3>1. PICK w \in wires : w[1] = p /\ q = w[2]
      BY <1>2, <2>1
    <3>2. PICK r, s : w = Wired(r, s)
      BY <1>1, <3>1
    <3> QED
      BY <1>3, <3>1, <3>2
  <2> QED
    BY <2>1
<1>5. Wired(p, q) \in wires => q \in Peers(p)
  BY <1>2, <1>3
<1> QED
  BY <1>1, <1>4, <1>5

LEMMA BoardPeersAre ==
  ASSUME Executed, Done, FullSystem
  PROVE  config.cpus \in Nat \ {0} /\ \A p, q : q \in Peers(p) <=> Joins(p, q, config.cpus)
<1>1. config.cpus \in Nat \ {0} /\ WiresOf(config) = FSWires(config.cpus)
  BY ConfigFacts DEF Executed, WiresOf, FullSystem
<1> QED
  BY <1>1, PeersAre, FSJoins

LEMMA PlainPeersAre ==
  ASSUME Executed, Done, ~FullSystem
  PROVE  \A p, q : q \in Peers(p) <=> PlainWire(config, p, q)
  BY PeersAre, PlainWires DEF Executed

(* A port that is connected to one other.                                *)
OnlyPeer(p, t) == \A q : q \in Peers(p) <=> q = t

LEMMA PeerIs ==
  ASSUME NEW p, NEW t, OnlyPeer(p, t)
  PROVE  Peer(p) = t
  BY DEF Peer, OnlyPeer
---------------------------------------------------------------------------
(* Addresses. *)
InRAM(a)        == a \in 0 .. MemSize - 1
InGap(a)        == a \in MemSize .. GB3 - 1
InHole(a)       == a \in GB3 .. GB3 + IOHole - 1
InBridge(a)     == a \in GB3 .. M5Ops \/ a \in IOBase .. InterruptBase - 1 \/ a \in PCIBase .. AddrMax
InIOAPIC(a)     == a \in IOAPICAddress .. IOAPICAddress + APICSize - 1
InAPIC(a, i)    == a \in LocalAPICBase + i * APICSize .. LocalAPICBase + i * APICSize + APICSize - 1
InPage(a, i)    == a \in InterruptBase + i * APICSize .. InterruptBase + i * APICSize + APICSize - 1
InInterrupts(a, n) == a \in InterruptBase .. InterruptBase + n * APICSize - 1
Mapped(a, n)    == \/ InRAM(a) \/ InGap(a) \/ InInterrupts(a, n) \/ \E i \in 0 .. n - 1 : InAPIC(a, i)
                   \/ InBridge(a) /\ (InIOAPIC(a) => a = IOAPICAddress)

(* What the assumptions say of the constants, in the form the proofs     *)
(* use.                                                                  *)
LEMMA Bases ==
  /\ MemSize \in Nat /\ 1024 < MemSize /\ MemSize < GB3
  /\ LocalAPICBase \in Nat /\ IOBase \in Nat /\ InterruptBase \in Nat /\ PCIBase \in Nat /\ AddrMax \in Nat
  /\ \A n \in CPUCounts \cup {1} : n \in Nat \ {0} /\ LocalAPICBase + n * 4 <= IOBase
         /\ InterruptBase + n * 4 <= PCIBase
  /\ M5Ops < LocalAPICBase /\ LocalAPICBase < IOBase
  /\ IOBase < InterruptBase /\ InterruptBase < PCIBase /\ PCIBase < AddrMax
  /\ GB3 \in Nat /\ IOHole \in Nat \ {0} /\ IOAPICAddress \in Nat /\ M5Ops \in Nat
  /\ GB3 + IOHole <= IOAPICAddress /\ IOAPICAddress + APICSize <= M5Ops
  /\ APICSize = 4
<1>1. \A n \in CPUCounts \cup {1} : n \in Nat \ {0} /\ LocalAPICBase + n * 4 <= IOBase
          /\ InterruptBase + n * 4 <= PCIBase
  BY BasesAssumption, CountsAssumption DEF APICSize
<1>2. 1 \in CPUCounts \cup {1}
  OBVIOUS
<1>3. LocalAPICBase \in Nat /\ IOBase \in Nat /\ InterruptBase \in Nat /\ PCIBase \in Nat /\ AddrMax \in Nat
  BY BasesAssumption
<1>4. LocalAPICBase + 1 * 4 <= IOBase /\ InterruptBase + 1 * 4 <= PCIBase
  BY <1>1, <1>2
<1>5. /\ GB3 \in Nat /\ IOHole \in Nat \ {0} /\ IOAPICAddress \in Nat /\ M5Ops \in Nat /\ GB4 \in Nat
      /\ GB3 + IOHole <= IOAPICAddress /\ IOAPICAddress + APICSize <= M5Ops /\ M5Ops < GB4
      /\ APICSize = 4
  BY SMT DEF GB3, GB4, M5Ops, IOHole, IOAPICAddress, APICSize
<1>6. GB4 <= LocalAPICBase /\ IOBase < InterruptBase /\ PCIBase < AddrMax
  BY BasesAssumption
<1>7. M5Ops < LocalAPICBase /\ LocalAPICBase < IOBase /\ InterruptBase < PCIBase
  BY <1>3, <1>4, <1>5, <1>6
<1>8. MemSize \in Nat /\ 1024 < MemSize /\ MemSize < GB3
  BY MemSizeAssumption
<1> QED
  BY <1>1, <1>3, <1>5, <1>6, <1>7, <1>8

(* The local APICs, and the pages of the interrupts, do not overlap.     *)
LEMMA Pages ==
  ASSUME NEW n \in CPUCounts \cup {1}, NEW a \in Int
  PROVE  /\ \A i \in 0 .. n - 1 : InAPIC(a, i) =>
               LocalAPICBase <= a /\ a < IOBase /\ (a - LocalAPICBase) \div APICSize = i
         /\ \A i \in 0 .. n - 1 : InPage(a, i) =>
               InInterrupts(a, n) /\ a < PCIBase /\ (a - InterruptBase) \div APICSize = i
         /\ InInterrupts(a, n) => \E i \in 0 .. n - 1 : InPage(a, i)
<1>1. \A b \in Nat : \A i \in Nat : a \in b + i * 4 .. b + i * 4 + 4 - 1 => (a - b) \div 4 = i
  OBVIOUS
<1>2. \A i \in 0 .. n - 1 : i \in Nat /\ i * 4 + 4 <= n * 4
  BY Bases
<1>3. ASSUME NEW i \in 0 .. n - 1, InAPIC(a, i)
      PROVE  LocalAPICBase <= a /\ a < IOBase /\ (a - LocalAPICBase) \div APICSize = i
  <2>1. a \in LocalAPICBase + i * 4 .. LocalAPICBase + i * 4 + 4 - 1
    BY <1>3 DEF InAPIC, APICSize
  <2>2. (a - LocalAPICBase) \div 4 = i
    BY <1>1, <1>2, <2>1, Bases
  <2>3. i \in Nat /\ i * 4 + 4 <= n * 4 /\ LocalAPICBase + n * 4 <= IOBase /\ LocalAPICBase \in Nat
            /\ IOBase \in Nat /\ n \in Nat
    BY <1>2, Bases
  <2>4. LocalAPICBase <= a /\ a < IOBase
    BY <2>1, <2>3
  <2> QED
    BY <2>2, <2>4 DEF APICSize
<1>4. ASSUME NEW i \in 0 .. n - 1, InPage(a, i)
      PROVE  InInterrupts(a, n) /\ a < PCIBase /\ (a - InterruptBase) \div APICSize = i
  <2>1. a \in InterruptBase + i * 4 .. InterruptBase + i * 4 + 4 - 1
    BY <1>4 DEF InPage, APICSize
  <2>2. (a - InterruptBase) \div 4 = i
    BY <1>1, <1>2, <2>1, Bases
  <2>3. i \in Nat /\ i * 4 + 4 <= n * 4 /\ InterruptBase + n * 4 <= PCIBase /\ InterruptBase \in Nat
            /\ PCIBase \in Nat /\ n \in Nat
    BY <1>2, Bases
  <2>4. a \in InterruptBase .. InterruptBase + n * 4 - 1 /\ a < PCIBase
    BY <2>1, <2>3
  <2> QED
    BY <2>2, <2>4 DEF APICSize, InInterrupts
<1>5. ASSUME InInterrupts(a, n) PROVE \E i \in 0 .. n - 1 : InPage(a, i)
  <2>1. a \in InterruptBase .. InterruptBase + n * 4 - 1 /\ InterruptBase \in Nat /\ n \in Nat
    BY <1>5, Bases DEF InInterrupts, APICSize
  <2>2. PICK i \in Int : i = (a - InterruptBase) \div 4
    BY <2>1
  <2>3. i \in 0 .. n - 1 /\ a \in InterruptBase + i * 4 .. InterruptBase + i * 4 + 4 - 1
    BY <2>1, <2>2
  <2> QED
    BY <2>3 DEF InPage, APICSize
<1> QED
  BY <1>3, <1>4, <1>5

LEMMA Apart ==   \* the parts of the memory map do not meet
  ASSUME NEW n \in CPUCounts \cup {1}, NEW a \in Int
  PROVE  /\ InRAM(a) => ~InGap(a) /\ ~InBridge(a) /\ ~InInterrupts(a, n) /\ \A i \in 0 .. n - 1 : ~InAPIC(a, i)
                /\ ~InPage(a, i)
         /\ InGap(a) => ~InBridge(a) /\ ~InInterrupts(a, n) /\ \A i \in 0 .. n - 1 : ~InAPIC(a, i) /\ ~InPage(a, i)
         /\ InBridge(a) => ~InInterrupts(a, n) /\ \A i \in 0 .. n - 1 : ~InAPIC(a, i) /\ ~InPage(a, i)
         /\ InInterrupts(a, n) => \A i \in 0 .. n - 1 : ~InAPIC(a, i)
         /\ InHole(a) => InBridge(a) /\ ~InIOAPIC(a)
         /\ InIOAPIC(a) => InBridge(a) /\ ~InHole(a)
<1>1. \A i \in 0 .. n - 1 : /\ InAPIC(a, i) => LocalAPICBase <= a /\ a < IOBase
                            /\ InPage(a, i) => InInterrupts(a, n)
  BY Pages
<1>2. InInterrupts(a, n) => InterruptBase <= a /\ a < PCIBase
  <2>1. n \in Nat /\ InterruptBase + n * 4 <= PCIBase /\ InterruptBase \in Nat /\ PCIBase \in Nat
    BY Bases
  <2> QED
    BY <2>1 DEF InInterrupts, APICSize
<1>3. InRAM(a) => a < GB3 /\ a < MemSize
  BY Bases DEF InRAM
<1>4. InGap(a) => a < GB3 /\ MemSize <= a
  BY Bases DEF InGap
<1>5. InBridge(a) => GB3 <= a /\ (a < LocalAPICBase \/ (IOBase <= a /\ a < InterruptBase) \/ PCIBase <= a)
  BY Bases DEF InBridge
<1>6. InHole(a) => InBridge(a) /\ ~InIOAPIC(a)
  BY Bases DEF InHole, InBridge, InIOAPIC
<1>7. InIOAPIC(a) => InBridge(a) /\ ~InHole(a)
  BY Bases DEF InHole, InBridge, InIOAPIC
<1> QED
  BY <1>1, <1>2, <1>3, <1>4, <1>5, <1>6, <1>7, Bases

(* Within, for a range and for a union.                                  *)
LEMMA WithinRange ==
  ASSUME NEW a \in Int, NEW lo \in Int, NEW hi \in Int
  PROVE  Within(a, {<<lo, hi>>}) <=> a \in lo .. hi
<1>1. Within(a, {<<lo, hi>>}) <=> <<lo, hi>>[1] <= a /\ a <= <<lo, hi>>[2]
  BY DEF Within
<1> QED
  BY <1>1

LEMMA WithinUnion ==
  ASSUME NEW a, NEW R, NEW S
  PROVE  Within(a, R \cup S) <=> Within(a, R) \/ Within(a, S)
  BY DEF Within

LEMMA ClaimsAre ==   \* of the devices every machine has
  ASSUME NEW a \in Int
  PROVE  /\ Claims(<<"mem_ctrl", 0, "port">>, a) <=> InRAM(a)
         /\ \A i \in Nat : Claims(<<"interrupts", i, "pio">>, a) <=> InAPIC(a, i)
         /\ \A i \in Nat : Claims(<<"interrupts", i, "int_slave">>, a) <=> InPage(a, i)
         /\ Claims(<<"l2cache", 0, "cpu_side">>, a)
<1>1. Claims(<<"mem_ctrl", 0, "port">>, a) <=> Within(a, RAM)
  BY DEF Claims
<1>2. \A i : Claims(<<"interrupts", i, "pio">>, a) <=> Within(a, LocalAPIC(i))
  BY DEF Claims
<1>3. \A i : Claims(<<"interrupts", i, "int_slave">>, a) <=> Within(a, InterruptPage(i))
  BY DEF Claims
<1>4. Claims(<<"l2cache", 0, "cpu_side">>, a)
  BY DEF Claims
<1>5. Within(a, RAM) <=> InRAM(a)
  BY Bases, WithinRange DEF RAM, InRAM
<1>6. ASSUME NEW i \in Nat
      PROVE  (Within(a, LocalAPIC(i)) <=> InAPIC(a, i)) /\ (Within(a, InterruptPage(i)) <=> InPage(a, i))
  <2>1. /\ LocalAPICBase + i * APICSize \in Int /\ LocalAPICBase + i * APICSize + APICSize - 1 \in Int
        /\ InterruptBase + i * APICSize \in Int /\ InterruptBase + i * APICSize + APICSize - 1 \in Int
    BY Bases
  <2> QED
    BY <2>1, WithinRange DEF LocalAPIC, InterruptPage, InAPIC, InPage
<1> QED
  BY <1>1, <1>2, <1>3, <1>4, <1>5, <1>6

LEMMA BoardClaims ==   \* of the bridges, the I/O cache and the I/O APIC
  ASSUME NEW n \in Nat, firmware = Firmware(n), NEW a \in Int
  PROVE  /\ Claims(<<"bridge", 0, "slave">>, a) <=> InBridge(a)
         /\ Claims(<<"apicbridge", 0, "slave">>, a) <=> InInterrupts(a, n)
         /\ Claims(<<"iocache", 0, "cpu_side">>, a) <=> InRAM(a) \/ InHole(a)
         /\ Claims(<<"io_apic", 0, "pio">>, a) <=> InIOAPIC(a)
<1>1. /\ firmware.bridge = BridgeRanges /\ firmware.apicbridge = APICBridgeRanges(n) /\ firmware.iocache = MemRanges
  BY DEF Firmware, IOCacheRanges
<1>2. Claims(<<"bridge", 0, "slave">>, a) <=> Within(a, BridgeRanges)
  BY <1>1 DEF Claims
<1>3. Claims(<<"apicbridge", 0, "slave">>, a) <=> Within(a, APICBridgeRanges(n))
  BY <1>1 DEF Claims
<1>4. Claims(<<"iocache", 0, "cpu_side">>, a) <=> Within(a, MemRanges)
  BY <1>1 DEF Claims
<1>5. Claims(<<"io_apic", 0, "pio">>, a) <=> Within(a, {<<IOAPICAddress, IOAPICAddress + APICSize - 1>>})
  BY DEF Claims
<1>6. Within(a, {<<IOAPICAddress, IOAPICAddress + APICSize - 1>>}) <=> InIOAPIC(a)
  BY Bases, WithinRange DEF InIOAPIC
<1>7. Within(a, MemRanges) <=> InRAM(a) \/ InHole(a)
  <2>1. MemRanges = {<<0, MemSize - 1>>} \cup {<<GB3, GB3 + IOHole - 1>>}
    BY DEF MemRanges
  <2>2. Within(a, {<<0, MemSize - 1>>}) <=> InRAM(a)
    BY Bases, WithinRange DEF InRAM
  <2>3. Within(a, {<<GB3, GB3 + IOHole - 1>>}) <=> InHole(a)
    BY Bases, WithinRange DEF InHole
  <2> QED
    BY <2>1, <2>2, <2>3, WithinUnion
<1>8. Within(a, APICBridgeRanges(n)) <=> InInterrupts(a, n)
  <2>1. InterruptBase + n * APICSize - 1 \in Int /\ InterruptBase \in Int
    BY Bases
  <2> QED
    BY <2>1, WithinRange DEF APICBridgeRanges, InInterrupts
<1>9. Within(a, BridgeRanges) <=> InBridge(a)
  <2>1. BridgeRanges = {<<GB3, M5Ops>>} \cup ({<<IOBase, InterruptBase - 1>>} \cup {<<PCIBase, AddrMax>>})
    BY DEF BridgeRanges
  <2>2. Within(a, {<<GB3, M5Ops>>}) <=> a \in GB3 .. M5Ops
    BY Bases, WithinRange
  <2>3. Within(a, {<<IOBase, InterruptBase - 1>>}) <=> a \in IOBase .. InterruptBase - 1
    BY Bases, WithinRange
  <2>4. Within(a, {<<PCIBase, AddrMax>>}) <=> a \in PCIBase .. AddrMax
    BY Bases, WithinRange
  <2> QED
    <3>1. PICK R, S, T : /\ R = {<<GB3, M5Ops>>} /\ S = {<<IOBase, InterruptBase - 1>>}
                         /\ T = {<<PCIBase, AddrMax>>}
      OBVIOUS
    <3>2. Within(a, R \cup (S \cup T)) <=> Within(a, R) \/ Within(a, S) \/ Within(a, T)
      BY WithinUnion
    <3>3. Within(a, BridgeRanges) <=> Within(a, R) \/ Within(a, S) \/ Within(a, T)
      BY <2>1, <3>1, <3>2
    <3> QED
      BY <2>2, <2>3, <2>4, <3>1, <3>3 DEF InBridge
<1> QED
  BY <1>2, <1>3, <1>4, <1>5, <1>6, <1>7, <1>8, <1>9

Ends(n, at, a) ==   \* a device and the addresses it owns
    \/ at = <<"mem_ctrl", 0, "port">> /\ InRAM(a)
    \/ at = <<"badaddr", 0, "pio">> /\ InGap(a)
    \/ \E i \in 0 .. n - 1 : \/ at = <<"interrupts", i, "pio">> /\ InAPIC(a, i)
                             \/ at = <<"interrupts", i, "int_slave">> /\ InPage(a, i)
    \/ at = <<"io_apic", 0, "pio">> /\ a = IOAPICAddress
    \/ at = <<"pci_host", 0, "pio">> /\ InBridge(a) /\ ~InIOAPIC(a)

(* A device that owns an address is the one Owner names.                 *)
LEMMA EndsAtOwner ==
  ASSUME config \in Configs, NEW a \in Int, NEW at, Ends(config.cpus, at, a)
  PROVE  at = Owner(a)
<1> DEFINE n == config.cpus
           A == UNION {LocalAPIC(i) : i \in CPUs}
           I == UNION {InterruptPage(i) : i \in CPUs}
<1>1. n \in CPUCounts \cup {1} /\ CPUs = 0 .. n - 1 /\ n \in Nat
  BY ConfigFacts DEF CPUs
<1>2. Within(a, RAM) <=> InRAM(a)
  BY Bases, WithinRange DEF RAM, InRAM
<1>3. Within(a, A) <=> \E i \in 0 .. n - 1 : InAPIC(a, i)
  <2>1. Within(a, A) <=> \E i \in 0 .. n - 1 : Within(a, LocalAPIC(i))
    BY <1>1 DEF Within
  <2>2. \A i \in 0 .. n - 1 : LocalAPICBase + i * APICSize \in Int
            /\ LocalAPICBase + i * APICSize + APICSize - 1 \in Int
    BY <1>1, Bases
  <2>3. \A i \in 0 .. n - 1 : Within(a, LocalAPIC(i)) <=> InAPIC(a, i)
    BY <2>2, WithinRange DEF LocalAPIC, InAPIC
  <2> QED
    BY <2>1, <2>3
<1>4. Within(a, I) <=> \E i \in 0 .. n - 1 : InPage(a, i)
  <2>1. Within(a, I) <=> \E i \in 0 .. n - 1 : Within(a, InterruptPage(i))
    BY <1>1 DEF Within
  <2>2. \A i \in 0 .. n - 1 : InterruptBase + i * APICSize \in Int
            /\ InterruptBase + i * APICSize + APICSize - 1 \in Int
    BY <1>1, Bases
  <2>3. \A i \in 0 .. n - 1 : Within(a, InterruptPage(i)) <=> InPage(a, i)
    BY <2>2, WithinRange DEF InterruptPage, InPage
  <2> QED
    BY <2>1, <2>3
<1>5. Owner(a) = CASE Within(a, RAM)           -> <<"mem_ctrl", 0, "port">>
                   [] a \in MemSize .. GB3 - 1 -> <<"badaddr", 0, "pio">>
                   [] Within(a, A) -> <<"interrupts", (a - LocalAPICBase) \div APICSize, "pio">>
                   [] Within(a, I) -> <<"interrupts", (a - InterruptBase) \div APICSize, "int_slave">>
                   [] a = IOAPICAddress        -> <<"io_apic", 0, "pio">>
                   [] OTHER                    -> <<"pci_host", 0, "pio">>
  BY Zenon DEF Owner
<1>6. a \in MemSize .. GB3 - 1 <=> InGap(a)
  BY DEF InGap
<1> HIDE DEF n, A, I
<1>7. /\ \A i \in 0 .. n - 1 : InAPIC(a, i) => (a - LocalAPICBase) \div APICSize = i
      /\ \A i \in 0 .. n - 1 : InPage(a, i) => InInterrupts(a, n) /\ (a - InterruptBase) \div APICSize = i
  BY <1>1, Pages
<1>8. a = IOAPICAddress => InIOAPIC(a) /\ InBridge(a)
  BY <1>1, Apart, Bases DEF InIOAPIC
<1>9. CASE at = <<"mem_ctrl", 0, "port">> /\ InRAM(a)
  BY <1>1, <1>2, <1>3, <1>4, <1>5, <1>6, <1>8, <1>9, Apart
<1>10. CASE at = <<"badaddr", 0, "pio">> /\ InGap(a)
  BY <1>1, <1>2, <1>3, <1>4, <1>5, <1>6, <1>8, <1>10, Apart
<1>11. ASSUME NEW i \in 0 .. n - 1, at = <<"interrupts", i, "pio">>, InAPIC(a, i) PROVE at = Owner(a)
  <2>1. ~Within(a, RAM) /\ a \notin MemSize .. GB3 - 1 /\ Within(a, A) /\ ~Within(a, I) /\ a # IOAPICAddress
    BY <1>1, <1>2, <1>3, <1>4, <1>6, <1>7, <1>8, <1>11, Apart
  <2>2. Owner(a) = <<"interrupts", (a - LocalAPICBase) \div APICSize, "pio">>
    BY <1>5, <2>1
  <2> QED
    BY <1>7, <1>11, <2>2
<1>12. ASSUME NEW i \in 0 .. n - 1, at = <<"interrupts", i, "int_slave">>, InPage(a, i) PROVE at = Owner(a)
  <2>1. ~Within(a, RAM) /\ a \notin MemSize .. GB3 - 1 /\ ~Within(a, A) /\ Within(a, I) /\ a # IOAPICAddress
    BY <1>1, <1>2, <1>3, <1>4, <1>6, <1>7, <1>8, <1>12, Apart
  <2>2. Owner(a) = <<"interrupts", (a - InterruptBase) \div APICSize, "int_slave">>
    BY <1>5, <2>1
  <2> QED
    BY <1>7, <1>12, <2>2
<1>13. CASE at = <<"io_apic", 0, "pio">> /\ a = IOAPICAddress
  <2>1. ~Within(a, RAM) /\ a \notin MemSize .. GB3 - 1 /\ ~Within(a, A) /\ ~Within(a, I) /\ a = IOAPICAddress
    BY <1>1, <1>2, <1>3, <1>4, <1>6, <1>7, <1>8, <1>13, Apart
  <2> QED
    BY <1>5, <1>13, <2>1
<1>14. CASE at = <<"pci_host", 0, "pio">> /\ InBridge(a) /\ ~InIOAPIC(a)
  <2>1. ~Within(a, RAM) /\ a \notin MemSize .. GB3 - 1 /\ ~Within(a, A) /\ ~Within(a, I) /\ a # IOAPICAddress
    BY <1>1, <1>2, <1>3, <1>4, <1>6, <1>7, <1>8, <1>14, Apart
  <2> QED
    BY <1>5, <1>14, <2>1
<1> QED
  BY <1>9, <1>10, <1>11, <1>12, <1>13, <1>14 DEF Ends, n
---------------------------------------------------------------------------
(* Where a request can be. *)
IsRequest(r) == r = [src |-> r.src, addr |-> r.addr, at |-> r.at, path |-> r.path]
Via(bus, r)  == One(bus) \in r.path

(* Where a request can be on the board, by the buses it has passed:      *)
(* before the first bus; on the memory bus, on its way down from a CPU   *)
(* or up from the I/O bus; on the I/O bus and in the devices between the *)
(* two; or at the device that owns its address.  A request comes to the  *)
(* memory bus a second time only from the hole.                          *)
BoardPlaces(n, r) ==
    \/ /\ \E i \in 0 .. n - 1 : r.at \in {<<"icache", i, "cpu_side">>, <<"dcache", i, "cpu_side">>}
       /\ ~Via("membus", r) /\ ~Via("iobus", r)
    \/ /\ r.at = Slave("membus")
       /\ Via("membus", r) => InHole(r.addr)
       /\ Via("iobus", r) /\ ~Via("membus", r) => InRAM(r.addr) \/ InInterrupts(r.addr, n)
    \/ r.at = <<"bridge", 0, "slave">> /\ Via("membus", r) /\ ~Via("iobus", r) /\ InBridge(r.addr)
    \/ /\ r.at = Slave("iobus") /\ ~Via("iobus", r)
       /\ \/ Via("membus", r) /\ InBridge(r.addr)
          \/ ~Via("membus", r) /\ (InRAM(r.addr) \/ InInterrupts(r.addr, n))
    \/ /\ r.at = <<"iocache", 0, "cpu_side">> /\ Via("iobus", r)
       /\ \/ Via("membus", r) /\ InHole(r.addr)
          \/ ~Via("membus", r) /\ InRAM(r.addr)
    \/ r.at = <<"apicbridge", 0, "slave">> /\ Via("iobus", r) /\ ~Via("membus", r) /\ InInterrupts(r.addr, n)
    \/ Ends(n, r.at, r.addr)

(* Where it can be without a board: in the caches, on a bus it has not   *)
(* passed, or at the memory controller.                                  *)
PlainPlaces(script, r) ==
    \/ script \in {"two_level", "two_level_opts"} /\ ~Via("membus", r) /\ ~Via("l2bus", r)
       /\ r.at \in {<<"icache", 0, "cpu_side">>, <<"dcache", 0, "cpu_side">>, Slave("l2bus")}
    \/ script \in {"two_level", "two_level_opts"} /\ ~Via("membus", r) /\ r.at = <<"l2cache", 0, "cpu_side">>
    \/ script = "simple_memobj" /\ ~Via("membus", r)
       /\ r.at \in {<<"memobj", 0, "inst_port">>, <<"memobj", 0, "data_port">>}
    \/ script = "simple_cache" /\ ~Via("membus", r) /\ r.at = <<"cache", 0, "cpu_side">>
    \/ ~Via("membus", r) /\ r.at = Slave("membus")
    \/ r.at = <<"mem_ctrl", 0, "port">>

(* A request is where one with its address can be.                       *)
OnItsWay(c, r) ==
    /\ IsRequest(r) /\ r.addr \in Int
    /\ IF c.script \in {"system", "system_mp"} THEN Mapped(r.addr, c.cpus) /\ BoardPlaces(c.cpus, r)
                                              ELSE InRAM(r.addr) /\ PlainPlaces(c.script, r)

(* The inductive invariant of requests: each is on its way, no bus finds *)
(* two claims or none, and one that goes round has an address in the     *)
(* hole.                                                                 *)
Routed ==
    /\ req # NoRequest => Done /\ OnItsWay(config, req)
    /\ status \notin {"overlap", "nowhere"}
    /\ status = "loop" => InHole(req.addr)

(* A bus with one way for a request hands it on, or finds that it has    *)
(* passed already.                                                       *)
LEMMA Onwards ==
  ASSUME ThroughBus, NEW t,
         \/ \A p : p \in Peers(Port(Here, "mem_side_ports")) /\ Claims(p, req.addr) <=> p = t
         \/ /\ \A p : ~(p \in Peers(Port(Here, "mem_side_ports")) /\ Claims(p, req.addr))
            /\ \A p : p \in Peers(Port(Here, "default")) <=> p = t
  PROVE  \/ Here \in req.path /\ status' = "loop" /\ req' = req
         \/ Here \notin req.path /\ GoOn(t)
<1> DEFINE claimants == {p \in Peers(Port(Here, "mem_side_ports")) : Claims(p, req.addr)}
           nexts     == IF claimants = {} THEN Peers(Port(Here, "default")) ELSE claimants
           trouble   == CASE Here \in req.path      -> "loop"
                          [] Cardinality(nexts) > 1 -> "overlap"
                          [] nexts = {}             -> "nowhere"
                          [] OTHER                  -> "none"
<1>1. \/ trouble = "none" /\ \E p \in nexts : GoOn(p)
      \/ trouble # "none" /\ status' = trouble /\ UNCHANGED req
  BY Zenon DEF ThroughBus
<1>2. nexts = {t}
  <2>1. CASE \A p : p \in Peers(Port(Here, "mem_side_ports")) /\ Claims(p, req.addr) <=> p = t
    <3>1. claimants = {t}
      BY <2>1
    <3> HIDE DEF claimants
    <3> QED
      BY <3>1
  <2>2. CASE /\ \A p : ~(p \in Peers(Port(Here, "mem_side_ports")) /\ Claims(p, req.addr))
             /\ \A p : p \in Peers(Port(Here, "default")) <=> p = t
    <3>1. claimants = {}
      BY <2>2
    <3>2. Peers(Port(Here, "default")) = {t}
      BY <2>2
    <3> HIDE DEF claimants
    <3> QED
      BY <3>1, <3>2
  <2> QED
    BY <2>1, <2>2
<1> HIDE DEF nexts, claimants
<1>3. Cardinality(nexts) = 1 /\ nexts # {}
  BY <1>2, FS_Singleton
<1>4. ~(Cardinality(nexts) > 1)
  BY <1>3
<1>5. CASE Here \in req.path
  <2>1. trouble = "loop"
    BY <1>3, <1>4, <1>5
  <2> QED
    BY <1>1, <1>5, <2>1
<1>6. CASE Here \notin req.path
  <2>1. trouble = "none"
    BY <1>3, <1>4, <1>6
  <2> HIDE DEF trouble
  <2>2. \E p \in {t} : GoOn(p)
    BY <1>1, <1>2, <2>1
  <2> QED
    BY <1>6, <2>2
<1> QED
  BY <1>5, <1>6

(* What GoOn leaves of a request.                                        *)
LEMMA Moved ==
  ASSUME NEW t, GoOn(t), IsRequest(req)
  PROVE  /\ IsRequest(req') /\ req'.addr = req.addr /\ req'.at = t /\ req'.path = req.path \cup {Here}
         /\ status' = status
         /\ \A bus : Via(bus, req') <=> Via(bus, req) \/ Here = One(bus)
<1>1. req' = [req EXCEPT !.at = t, !.path = req.path \cup {Here}] /\ status' = status
  BY DEF GoOn
<1>2. req = [src |-> req.src, addr |-> req.addr, at |-> req.at, path |-> req.path]
  BY DEF IsRequest
<1>3. req' = [src |-> req.src, addr |-> req.addr, at |-> t, path |-> req.path \cup {Here}]
  BY <1>1, <1>2
<1>4. /\ req'.src = req.src /\ req'.addr = req.addr /\ req'.at = t /\ req'.path = req.path \cup {Here}
  BY <1>3
<1>5. IsRequest(req')
  BY <1>3, <1>4 DEF IsRequest
<1>6. \A bus : Via(bus, req') <=> Via(bus, req) \/ Here = One(bus)
  BY <1>4 DEF Via
<1> QED
  BY <1>1, <1>4, <1>5, <1>6

LEMMA Names ==   \* objects are told apart by their names
  /\ \A i, name : Object(<<"icache", i, name>>) = <<"icache", i>> /\ Object(<<"dcache", i, name>>) = <<"dcache", i>>
  /\ \A i, name : Object(<<"interrupts", i, name>>) = <<"interrupts", i>>
  /\ \A bus : Object(Slave(bus)) = One(bus)
  /\ \A obj, name : Object(<<obj, 0, name>>) = One(obj)
  /\ \A obj, name : Port(One(obj), name) = <<obj, 0, name>>
  /\ \A obj, i, name : Port(<<obj, i>>, name) = <<obj, i, name>>
  /\ \A a, b : One(a) = One(b) <=> a = b
  /\ \A obj, i : <<obj, i>>[1] = obj
  /\ \A obj : One(obj)[1] = obj
  BY DEF Object, Slave, One, Port

(* Buses, caches and bridges are told apart by their names.              *)
LEMMA Kinds ==
  /\ \A o : o \in Busses <=> o \in {One("membus"), One("l2bus"), One("iobus")}
  /\ \A o \in Caches : o[1] \in {"l2cache", "iocache", "memobj", "cache", "icache", "dcache"}
  /\ \A o \in Bridges : o[1] \in {"bridge", "apicbridge"}
  /\ \A o \in Busses : o[1] \in {"membus", "l2bus", "iobus"}
  /\ \A i \in CPUs : <<"icache", i>> \in Caches /\ <<"dcache", i>> \in Caches
  /\ {One("l2cache"), One("iocache"), One("memobj"), One("cache")} \subseteq Caches
  /\ {One("bridge"), One("apicbridge")} \subseteq Bridges
  BY DEF Busses, Caches, Bridges, One

(* The bus hands a request for a to t, and could not to another. *)
OnlyWay(bus, a, t) ==
    \/ \A p : p \in Peers(Port(One(bus), "mem_side_ports")) /\ Claims(p, a) <=> p = t
    \/ /\ \A p : ~(p \in Peers(Port(One(bus), "mem_side_ports")) /\ Claims(p, a))
       /\ \A p : p \in Peers(Port(One(bus), "default")) <=> p = t

(* The memory bus has one way for each address that is asked for: the    *)
(* bridge, or the device that owns it.                                   *)
LEMMA MembusHop ==
  ASSUME Executed, Done, FullSystem, NEW n, n = config.cpus, NEW a \in Int, Mapped(a, n)
  PROVE  \E t : /\ OnlyWay("membus", a, t)
                /\ \/ t = <<"bridge", 0, "slave">> /\ InBridge(a)
                   \/ Ends(n, t, a) /\ ~InBridge(a)
<1> DEFINE P == Peers(Port(One("membus"), "mem_side_ports"))
           D == Peers(Port(One("membus"), "default"))
<1>1. n \in Nat /\ n \in CPUCounts \cup {1} /\ firmware = Firmware(n)
  BY ConfigFacts, Built DEF Executed
<1>2. \A q : q \in P <=> \/ q = <<"bridge", 0, "slave">> \/ q = <<"mem_ctrl", 0, "port">>
                         \/ \E i \in 0 .. n - 1 : q = <<"interrupts", i, "pio">>
                                \/ q = <<"interrupts", i, "int_slave">>
  <2>1. Port(One("membus"), "mem_side_ports") = Master("membus")
    BY Names DEF Master
  <2>2. \A q : q \in P <=> Joins(Master("membus"), q, n)
    BY <2>1, BoardPeersAre
  <2>3. n \in Nat
    BY <1>1
  <2> HIDE DEF P, D
  <2>4. \A q : Joins(Master("membus"), q, n) <=>
                  \/ q = <<"bridge", 0, "slave">> \/ q = <<"mem_ctrl", 0, "port">>
                  \/ \E i \in 0 .. n - 1 : q = <<"interrupts", i, "pio">> \/ q = <<"interrupts", i, "int_slave">>
    BY <2>3, BoardPeers, Zenon
  <2> QED
    BY <2>2, <2>4
<1>3. \A q : q \in D <=> q = <<"badaddr", 0, "pio">>
  <2>1. Port(One("membus"), "default") = <<"membus", 0, "default">>
    BY Names
  <2> QED
    BY <1>1, <2>1, BoardPeersAre, BoardPeers
<1> HIDE DEF P, D
<1>4. /\ Claims(<<"bridge", 0, "slave">>, a) <=> InBridge(a)
      /\ Claims(<<"mem_ctrl", 0, "port">>, a) <=> InRAM(a)
      /\ \A i \in 0 .. n - 1 : Claims(<<"interrupts", i, "pio">>, a) <=> InAPIC(a, i)
      /\ \A i \in 0 .. n - 1 : Claims(<<"interrupts", i, "int_slave">>, a) <=> InPage(a, i)
  BY <1>1, ClaimsAre, BoardClaims
<1>5. \A p : p \in P /\ Claims(p, a) <=>
                \/ p = <<"bridge", 0, "slave">> /\ InBridge(a)
                \/ p = <<"mem_ctrl", 0, "port">> /\ InRAM(a)
                \/ \E i \in 0 .. n - 1 : \/ p = <<"interrupts", i, "pio">> /\ InAPIC(a, i)
                                         \/ p = <<"interrupts", i, "int_slave">> /\ InPage(a, i)
  BY <1>2, <1>4
<1>6. SUFFICES \E t : /\ \/ \A p : p \in P /\ Claims(p, a) <=> p = t
                         \/ (\A p : ~(p \in P /\ Claims(p, a))) /\ \A p : p \in D <=> p = t
                      /\ \/ t = <<"bridge", 0, "slave">> /\ InBridge(a)
                         \/ Ends(n, t, a) /\ ~InBridge(a)
  BY DEF OnlyWay, P, D
<1>7. CASE InBridge(a)
  <2>1. ~InRAM(a) /\ \A i \in 0 .. n - 1 : ~InAPIC(a, i) /\ ~InPage(a, i)
    BY <1>1, <1>7, Apart
  <2>2. \A p : p \in P /\ Claims(p, a) <=> p = <<"bridge", 0, "slave">>
    BY <1>5, <1>7, <2>1
  <2> QED
    BY <1>7, <2>2
<1>8. CASE InRAM(a)
  <2>1. ~InBridge(a) /\ \A i \in 0 .. n - 1 : ~InAPIC(a, i) /\ ~InPage(a, i)
    BY <1>1, <1>8, Apart
  <2>2. \A p : p \in P /\ Claims(p, a) <=> p = <<"mem_ctrl", 0, "port">>
    BY <1>5, <1>8, <2>1
  <2>3. Ends(n, <<"mem_ctrl", 0, "port">>, a)
    BY <1>8 DEF Ends
  <2> QED
    BY <2>1, <2>2, <2>3
<1>9. CASE InGap(a)
  <2>1. ~InBridge(a) /\ ~InRAM(a) /\ \A i \in 0 .. n - 1 : ~InAPIC(a, i) /\ ~InPage(a, i)
    BY <1>1, <1>9, Apart
  <2>2. \A p : ~(p \in P /\ Claims(p, a))
    BY <1>5, <2>1
  <2>3. Ends(n, <<"badaddr", 0, "pio">>, a)
    BY <1>9 DEF Ends
  <2> QED
    BY <1>3, <2>1, <2>2, <2>3
<1>10. ASSUME NEW i \in 0 .. n - 1, InAPIC(a, i) PROVE <1>6!1
  <2>1. ~InBridge(a) /\ ~InRAM(a) /\ \A j \in 0 .. n - 1 : ~InPage(a, j)
    BY <1>1, <1>10, Apart, Pages
  <2>2. \A j \in 0 .. n - 1 : InAPIC(a, j) => j = i
    BY <1>1, <1>10, Pages
  <2>3. \A p : p \in P /\ Claims(p, a) <=> p = <<"interrupts", i, "pio">>
    BY <1>5, <1>10, <2>1, <2>2
  <2>4. Ends(n, <<"interrupts", i, "pio">>, a)
    BY <1>10 DEF Ends
  <2> QED
    BY <2>1, <2>3, <2>4
<1>11. CASE InInterrupts(a, n)
  <2>1. PICK i \in 0 .. n - 1 : InPage(a, i)
    BY <1>1, <1>11, Pages
  <2>2. ~InBridge(a) /\ ~InRAM(a) /\ \A j \in 0 .. n - 1 : ~InAPIC(a, j)
    BY <1>1, <1>11, Apart
  <2>3. \A j \in 0 .. n - 1 : InPage(a, j) => j = i
    BY <1>1, <2>1, Pages
  <2>4. \A p : p \in P /\ Claims(p, a) <=> p = <<"interrupts", i, "int_slave">>
    BY <1>5, <2>1, <2>2, <2>3
  <2>5. Ends(n, <<"interrupts", i, "int_slave">>, a)
    BY <2>1 DEF Ends
  <2> QED
    BY <2>2, <2>4, <2>5
<1> QED
  BY <1>7, <1>8, <1>9, <1>10, <1>11 DEF Mapped

(* So has the I/O bus, for the addresses that come to it: the I/O cache, *)
(* the APIC bridge, or the device that owns it.                          *)
LEMMA IobusHop ==
  ASSUME Executed, Done, FullSystem, NEW n, n = config.cpus, NEW a \in Int, Mapped(a, n),
         InBridge(a) \/ InRAM(a) \/ InInterrupts(a, n)
  PROVE  \E t : /\ OnlyWay("iobus", a, t)
                /\ \/ t = <<"iocache", 0, "cpu_side">> /\ (InRAM(a) \/ InHole(a))
                   \/ t = <<"apicbridge", 0, "slave">> /\ InInterrupts(a, n)
                   \/ Ends(n, t, a)
<1> DEFINE P == Peers(Port(One("iobus"), "mem_side_ports"))
           D == Peers(Port(One("iobus"), "default"))
<1>1. n \in Nat /\ n \in CPUCounts \cup {1} /\ firmware = Firmware(n)
  BY ConfigFacts, Built DEF Executed
<1>2. \A q : q \in P <=> q \in {<<"apicbridge", 0, "slave">>, <<"io_apic", 0, "pio">>, <<"iocache", 0, "cpu_side">>}
  <2>1. Port(One("iobus"), "mem_side_ports") = Master("iobus")
    BY Names DEF Master
  <2> QED
    BY <1>1, <2>1, BoardPeersAre, BoardPeers
<1>3. \A q : q \in D <=> q = <<"pci_host", 0, "pio">>
  <2>1. Port(One("iobus"), "default") = <<"iobus", 0, "default">>
    BY Names
  <2> QED
    BY <1>1, <2>1, BoardPeersAre, BoardPeers
<1> HIDE DEF P, D
<1>4. /\ Claims(<<"apicbridge", 0, "slave">>, a) <=> InInterrupts(a, n)
      /\ Claims(<<"iocache", 0, "cpu_side">>, a) <=> InRAM(a) \/ InHole(a)
      /\ Claims(<<"io_apic", 0, "pio">>, a) <=> InIOAPIC(a)
  BY <1>1, BoardClaims
<1>5. \A p : p \in P /\ Claims(p, a) <=>
                \/ p = <<"apicbridge", 0, "slave">> /\ InInterrupts(a, n)
                \/ p = <<"iocache", 0, "cpu_side">> /\ (InRAM(a) \/ InHole(a))
                \/ p = <<"io_apic", 0, "pio">> /\ InIOAPIC(a)
  BY <1>2, <1>4
<1>6. SUFFICES \E t : /\ \/ \A p : p \in P /\ Claims(p, a) <=> p = t
                         \/ (\A p : ~(p \in P /\ Claims(p, a))) /\ \A p : p \in D <=> p = t
                      /\ \/ t = <<"iocache", 0, "cpu_side">> /\ (InRAM(a) \/ InHole(a))
                         \/ t = <<"apicbridge", 0, "slave">> /\ InInterrupts(a, n)
                         \/ Ends(n, t, a)
  BY DEF OnlyWay, P, D
<1>7. CASE InRAM(a) \/ InHole(a)
  <2>1. ~InInterrupts(a, n) /\ ~InIOAPIC(a)
    BY <1>1, <1>7, Apart
  <2>2. \A p : p \in P /\ Claims(p, a) <=> p = <<"iocache", 0, "cpu_side">>
    BY <1>5, <1>7, <2>1
  <2> QED
    BY <1>7, <2>2
<1>8. CASE InInterrupts(a, n)
  <2>1. ~InRAM(a) /\ ~InHole(a) /\ ~InIOAPIC(a)
    BY <1>1, <1>8, Apart
  <2>2. \A p : p \in P /\ Claims(p, a) <=> p = <<"apicbridge", 0, "slave">>
    BY <1>5, <1>8, <2>1
  <2> QED
    BY <1>8, <2>2
<1>9. CASE InIOAPIC(a)
  <2>1. ~InRAM(a) /\ ~InHole(a) /\ ~InInterrupts(a, n) /\ ~InGap(a) /\ \A i \in 0 .. n - 1 : ~InAPIC(a, i)
    BY <1>1, <1>9, Apart
  <2>2. \A p : p \in P /\ Claims(p, a) <=> p = <<"io_apic", 0, "pio">>
    BY <1>5, <1>9, <2>1
  <2>3. a = IOAPICAddress
    BY <1>9, <2>1 DEF Mapped
  <2>4. Ends(n, <<"io_apic", 0, "pio">>, a)
    BY <2>3 DEF Ends
  <2> QED
    BY <2>2, <2>4
<1>10. CASE InBridge(a) /\ ~InHole(a) /\ ~InIOAPIC(a)
  <2>1. ~InRAM(a) /\ ~InInterrupts(a, n)
    BY <1>1, <1>10, Apart
  <2>2. \A p : ~(p \in P /\ Claims(p, a))
    BY <1>5, <1>10, <2>1
  <2>3. Ends(n, <<"pci_host", 0, "pio">>, a)
    BY <1>10 DEF Ends
  <2> QED
    BY <1>3, <2>2, <2>3
<1> QED
  BY <1>7, <1>8, <1>9, <1>10

LEMMA AtBus ==   \* the buses are the only objects of that name
  ASSUME FullSystem, OnItsWay(config, req), Here \in Busses
  PROVE  req.at = Slave("membus") \/ req.at = Slave("iobus")
<1>1. BoardPlaces(config.cpus, req)
  BY DEF OnItsWay, FullSystem
<1>2. Here[1] \in {"membus", "l2bus", "iobus"}
  BY Kinds
<1>3. Here = Object(req.at)
  BY DEF Here
<1>4. \A i, name : /\ Object(<<"icache", i, name>>)[1] = "icache" /\ Object(<<"dcache", i, name>>)[1] = "dcache"
                   /\ Object(<<"interrupts", i, name>>)[1] = "interrupts"
                          /\ Object(<<"bridge", i, name>>)[1] = "bridge"
                   /\ Object(<<"iocache", i, name>>)[1] = "iocache"
                          /\ Object(<<"apicbridge", i, name>>)[1] = "apicbridge"
                   /\ Object(<<"mem_ctrl", i, name>>)[1] = "mem_ctrl"
                          /\ Object(<<"badaddr", i, name>>)[1] = "badaddr"
                   /\ Object(<<"io_apic", i, name>>)[1] = "io_apic"
                          /\ Object(<<"pci_host", i, name>>)[1] = "pci_host"
  BY DEF Object
<1> QED
  BY <1>1, <1>2, <1>3, <1>4 DEF BoardPlaces, Ends

(* A device is no bus, cache or bridge.                                  *)
LEMMA AtDevice ==
  ASSUME NEW n, NEW a, Ends(n, req.at, a)
  PROVE  Here \notin Busses \cup Caches \cup Bridges
<1>1. Here = Object(req.at)
  BY DEF Here
<1>2. \A i, name : /\ Object(<<"interrupts", i, name>>)[1] = "interrupts"
                   /\ Object(<<"mem_ctrl", i, name>>)[1] = "mem_ctrl"
                          /\ Object(<<"badaddr", i, name>>)[1] = "badaddr"
                   /\ Object(<<"io_apic", i, name>>)[1] = "io_apic"
                          /\ Object(<<"pci_host", i, name>>)[1] = "pci_host"
  BY DEF Object
<1>3. Here[1] \in {"interrupts", "mem_ctrl", "badaddr", "io_apic", "pci_host"}
  BY <1>1, <1>2 DEF Ends
<1> QED
  BY <1>3, Kinds

(* A request that a bus of the board hands on is where it can be; one    *)
(* that comes to a bus a second time has an address in the hole.         *)
LEMMA BoardThroughBus ==
  ASSUME Executed, Done, FullSystem, OnItsWay(config, req), ThroughBus
  PROVE  \/ status' = "loop" /\ req' = req /\ InHole(req.addr)
         \/ status' = status /\ OnItsWay(config, req')
<1> DEFINE n == config.cpus
           a == req.addr
<1>1. IsRequest(req) /\ a \in Int /\ Mapped(a, n) /\ BoardPlaces(n, req)
  BY DEF OnItsWay, FullSystem
<1>2. n \in CPUCounts \cup {1}
  BY ConfigFacts DEF Executed
<1>3. Here = Object(req.at) /\ Here \in Busses
  BY DEF Here, ThroughBus, Sending
<1>4. ASSUME NEW r, IsRequest(r), r.addr = a, BoardPlaces(n, r) PROVE OnItsWay(config, r)
  BY <1>1, <1>4 DEF OnItsWay, FullSystem
<1> HIDE DEF n, a
<1>5. One("membus") # One("iobus")
  BY Names
<1>6. CASE req.at = Slave("membus")
  <2>1. /\ Via("membus", req) => InHole(a)
        /\ Via("iobus", req) /\ ~Via("membus", req) => InRAM(a) \/ InInterrupts(a, n)
    <3>1. \A i : Slave("membus") # <<"icache", i, "cpu_side">> /\ Slave("membus") # <<"dcache", i, "cpu_side">>
      BY DEF Slave
    <3>2. /\ Slave("membus") # <<"bridge", 0, "slave">> /\ Slave("membus") # Slave("iobus")
          /\ Slave("membus") # <<"iocache", 0, "cpu_side">> /\ Slave("membus") # <<"apicbridge", 0, "slave">>
      BY DEF Slave
    <3>3. ~Ends(n, req.at, a)
      BY <1>3, AtDevice
    <3> QED
      BY <1>1, <1>6, <3>1, <3>2, <3>3 DEF BoardPlaces, a
  <2>2. Here = One("membus")
    BY <1>3, <1>6, Names
  <2>3. PICK t : /\ OnlyWay("membus", a, t)
                 /\ \/ t = <<"bridge", 0, "slave">> /\ InBridge(a)
                    \/ Ends(n, t, a) /\ ~InBridge(a)
    BY <1>1, MembusHop DEF n
  <2>4. \/ Here \in req.path /\ status' = "loop" /\ req' = req
        \/ Here \notin req.path /\ GoOn(t)
    BY <2>2, <2>3, Onwards DEF OnlyWay, a
  <2>5. CASE Here \in req.path
    BY <2>1, <2>2, <2>4, <2>5 DEF Via, a
  <2>6. CASE Here \notin req.path
    <3>1. /\ IsRequest(req') /\ req'.addr = a /\ req'.at = t /\ status' = status
          /\ Via("membus", req') /\ (Via("iobus", req') <=> Via("iobus", req))
      BY <1>1, <1>5, <2>2, <2>4, <2>6, Moved DEF a
    <3>2. ~Via("membus", req)
      BY <2>2, <2>6 DEF Via
    <3>3. CASE t = <<"bridge", 0, "slave">> /\ InBridge(a)
      <4>1. ~Via("iobus", req)
        BY <1>1, <1>2, <2>1, <3>2, <3>3, Apart
      <4>2. BoardPlaces(n, req')
        BY <3>1, <3>3, <4>1 DEF BoardPlaces
      <4> QED
        BY <1>4, <3>1, <4>2
    <3>4. CASE Ends(n, t, a)
      <4>1. BoardPlaces(n, req')
        BY <3>1, <3>4 DEF BoardPlaces
      <4> QED
        BY <1>4, <3>1, <4>1
    <3> QED
      BY <2>3, <3>3, <3>4
  <2> QED
    BY <2>5, <2>6
<1>7. CASE req.at = Slave("iobus")
  <2>1. /\ ~Via("iobus", req)
        /\ \/ Via("membus", req) /\ InBridge(a)
           \/ ~Via("membus", req) /\ (InRAM(a) \/ InInterrupts(a, n))
    <3>1. \A i : Slave("iobus") # <<"icache", i, "cpu_side">> /\ Slave("iobus") # <<"dcache", i, "cpu_side">>
      BY DEF Slave
    <3>2. /\ Slave("iobus") # <<"bridge", 0, "slave">> /\ Slave("membus") # Slave("iobus")
          /\ Slave("iobus") # <<"iocache", 0, "cpu_side">> /\ Slave("iobus") # <<"apicbridge", 0, "slave">>
      BY DEF Slave
    <3>3. ~Ends(n, req.at, a)
      BY <1>3, AtDevice
    <3> QED
      BY <1>1, <1>7, <3>1, <3>2, <3>3 DEF BoardPlaces, a
  <2>2. Here = One("iobus")
    BY <1>3, <1>7, Names
  <2>3. PICK t : /\ OnlyWay("iobus", a, t)
                 /\ \/ t = <<"iocache", 0, "cpu_side">> /\ (InRAM(a) \/ InHole(a))
                    \/ t = <<"apicbridge", 0, "slave">> /\ InInterrupts(a, n)
                    \/ Ends(n, t, a)
    BY <1>1, <2>1, IobusHop DEF n
  <2>4. GoOn(t)
    <3>1. \/ Here \in req.path /\ status' = "loop" /\ req' = req
          \/ Here \notin req.path /\ GoOn(t)
      BY <2>2, <2>3, Onwards DEF OnlyWay, a
    <3> QED
      BY <2>1, <2>2, <3>1 DEF Via
  <2>5. /\ IsRequest(req') /\ req'.addr = a /\ req'.at = t /\ status' = status
        /\ Via("iobus", req') /\ (Via("membus", req') <=> Via("membus", req))
    BY <1>1, <1>5, <2>2, <2>4, Moved DEF a
  <2>6. InHole(a) => InBridge(a)
    BY <1>1, <1>2, Apart
  <2>7. ~(InBridge(a) /\ (InRAM(a) \/ InInterrupts(a, n))) /\ ~(InRAM(a) /\ InInterrupts(a, n))
    BY <1>1, <1>2, Apart
  <2>8. BoardPlaces(n, req')
    <3>1. CASE t = <<"iocache", 0, "cpu_side">> /\ (InRAM(a) \/ InHole(a))
      <4>1. \/ Via("membus", req') /\ InHole(a)
            \/ ~Via("membus", req') /\ InRAM(a)
        BY <2>1, <2>5, <2>6, <2>7, <3>1
      <4> QED
        BY <2>5, <3>1, <4>1 DEF BoardPlaces
    <3>2. CASE t = <<"apicbridge", 0, "slave">> /\ InInterrupts(a, n)
      <4>1. ~Via("membus", req')
        BY <2>1, <2>5, <2>7, <3>2
      <4> QED
        BY <2>5, <3>2, <4>1 DEF BoardPlaces
    <3>3. CASE Ends(n, t, a)
      BY <2>5, <3>3 DEF BoardPlaces
    <3> QED
      BY <2>3, <3>1, <3>2, <3>3
  <2> QED
    BY <1>4, <2>5, <2>8
<1> QED
  BY <1>3, <1>6, <1>7, AtBus

(* The ports of the board that have one peer.                            *)
LEMMA BoardPorts ==
  ASSUME Executed, Done, FullSystem, NEW n, n = config.cpus
  PROVE  /\ OnlyPeer(<<"iocache", 0, "mem_side">>, Slave("membus"))
         /\ OnlyPeer(<<"bridge", 0, "master">>, Slave("iobus"))
         /\ OnlyPeer(<<"apicbridge", 0, "master">>, Slave("membus"))
         /\ OnlyPeer(<<"system", 0, "system_port">>, Slave("membus"))
         /\ OnlyPeer(<<"ide", 0, "dma">>, Slave("iobus"))
         /\ OnlyPeer(<<"io_apic", 0, "int_master">>, Slave("iobus"))
         /\ \A i \in 0 .. n - 1 :
               /\ OnlyPeer(<<"cpu", i, "icache_port">>, <<"icache", i, "cpu_side">>)
               /\ OnlyPeer(<<"cpu", i, "dcache_port">>, <<"dcache", i, "cpu_side">>)
               /\ OnlyPeer(<<"icache", i, "mem_side">>, Slave("membus"))
               /\ OnlyPeer(<<"dcache", i, "mem_side">>, Slave("membus"))
               /\ OnlyPeer(<<"cpu", i, "itb_walker">>, Slave("membus"))
               /\ OnlyPeer(<<"cpu", i, "dtb_walker">>, Slave("membus"))
               /\ OnlyPeer(<<"interrupts", i, "int_master">>, Slave("membus"))
<1>1. n \in Nat /\ \A p, q : q \in Peers(p) <=> Joins(p, q, n)
  BY BoardPeersAre
<1>2. ASSUME NEW p, NEW t, \A q : Joins(p, q, n) <=> q = t PROVE OnlyPeer(p, t)
  BY <1>1, <1>2 DEF OnlyPeer
<1>3. OnlyPeer(<<"iocache", 0, "mem_side">>, Slave("membus"))
  <2>1. \A q : Joins(<<"iocache", 0, "mem_side">>, q, n) <=> q = Slave("membus")
    BY <1>1, BoardPeers, Zenon
  <2> QED
    BY <1>2, <2>1
<1>4. OnlyPeer(<<"bridge", 0, "master">>, Slave("iobus"))
  <2>1. \A q : Joins(<<"bridge", 0, "master">>, q, n) <=> q = Slave("iobus")
    BY <1>1, BoardPeers, Zenon
  <2> QED
    BY <1>2, <2>1
<1>5. OnlyPeer(<<"apicbridge", 0, "master">>, Slave("membus"))
  <2>1. \A q : Joins(<<"apicbridge", 0, "master">>, q, n) <=> q = Slave("membus")
    BY <1>1, BoardPeers, Zenon
  <2> QED
    BY <1>2, <2>1
<1>6. OnlyPeer(<<"system", 0, "system_port">>, Slave("membus"))
  <2>1. \A q : Joins(<<"system", 0, "system_port">>, q, n) <=> q = Slave("membus")
    BY <1>1, BoardPeers, Zenon
  <2> QED
    BY <1>2, <2>1
<1>7. OnlyPeer(<<"ide", 0, "dma">>, Slave("iobus"))
  <2>1. \A q : Joins(<<"ide", 0, "dma">>, q, n) <=> q = Slave("iobus")
    BY <1>1, BoardPeers, Zenon
  <2> QED
    BY <1>2, <2>1
<1>8. OnlyPeer(<<"io_apic", 0, "int_master">>, Slave("iobus"))
  <2>1. \A q : Joins(<<"io_apic", 0, "int_master">>, q, n) <=> q = Slave("iobus")
    BY <1>1, BoardPeers, Zenon
  <2> QED
    BY <1>2, <2>1
<1>9. ASSUME NEW i \in 0 .. n - 1
      PROVE  /\ OnlyPeer(<<"cpu", i, "icache_port">>, <<"icache", i, "cpu_side">>)
              /\ OnlyPeer(<<"cpu", i, "dcache_port">>, <<"dcache", i, "cpu_side">>)
              /\ OnlyPeer(<<"icache", i, "mem_side">>, Slave("membus"))
              /\ OnlyPeer(<<"dcache", i, "mem_side">>, Slave("membus"))
              /\ OnlyPeer(<<"cpu", i, "itb_walker">>, Slave("membus"))
              /\ OnlyPeer(<<"cpu", i, "dtb_walker">>, Slave("membus"))
              /\ OnlyPeer(<<"interrupts", i, "int_master">>, Slave("membus"))
  <2>1. OnlyPeer(<<"cpu", i, "icache_port">>, <<"icache", i, "cpu_side">>)
    <3>1. ASSUME NEW q PROVE Joins(<<"cpu", i, "icache_port">>, q, n) <=> q = <<"icache", i, "cpu_side">>
      BY DEF Joins, Master, Slave
    <3> QED
      BY <1>2, <3>1
  <2>2. OnlyPeer(<<"cpu", i, "dcache_port">>, <<"dcache", i, "cpu_side">>)
    <3>1. ASSUME NEW q PROVE Joins(<<"cpu", i, "dcache_port">>, q, n) <=> q = <<"dcache", i, "cpu_side">>
      BY DEF Joins, Master, Slave
    <3> QED
      BY <1>2, <3>1
  <2>3. OnlyPeer(<<"icache", i, "mem_side">>, Slave("membus"))
    <3>1. ASSUME NEW q PROVE Joins(<<"icache", i, "mem_side">>, q, n) <=> q = Slave("membus")
      BY DEF Joins, Master, Slave
    <3> QED
      BY <1>2, <3>1
  <2>4. OnlyPeer(<<"dcache", i, "mem_side">>, Slave("membus"))
    <3>1. ASSUME NEW q PROVE Joins(<<"dcache", i, "mem_side">>, q, n) <=> q = Slave("membus")
      BY DEF Joins, Master, Slave
    <3> QED
      BY <1>2, <3>1
  <2>5. OnlyPeer(<<"cpu", i, "itb_walker">>, Slave("membus"))
    <3>1. ASSUME NEW q PROVE Joins(<<"cpu", i, "itb_walker">>, q, n) <=> q = Slave("membus")
      BY DEF Joins, Master, Slave
    <3> QED
      BY <1>2, <3>1
  <2>6. OnlyPeer(<<"cpu", i, "dtb_walker">>, Slave("membus"))
    <3>1. ASSUME NEW q PROVE Joins(<<"cpu", i, "dtb_walker">>, q, n) <=> q = Slave("membus")
      BY DEF Joins, Master, Slave
    <3> QED
      BY <1>2, <3>1
  <2>7. OnlyPeer(<<"interrupts", i, "int_master">>, Slave("membus"))
    <3>1. ASSUME NEW q PROVE Joins(<<"interrupts", i, "int_master">>, q, n) <=> q = Slave("membus")
      BY DEF Joins, Master, Slave
    <3> QED
      BY <1>2, <3>1
  <2> QED
    BY <2>1, <2>2, <2>3, <2>4, <2>5, <2>6, <2>7
<1> QED
  BY <1>3, <1>4, <1>5, <1>6, <1>7, <1>8, <1>9

(* A request that a cache hands on is where it can be.                   *)
LEMMA BoardThroughCache ==
  ASSUME Executed, Done, FullSystem, OnItsWay(config, req), ThroughCache
  PROVE  status' = status /\ OnItsWay(config, req')
<1> DEFINE n == config.cpus
           a == req.addr
<1>1. IsRequest(req) /\ a \in Int /\ Mapped(a, n) /\ BoardPlaces(n, req)
  BY DEF OnItsWay, FullSystem
<1>2. n \in Nat
  BY ConfigFacts DEF Executed
<1>3. Here = Object(req.at) /\ Here \in Caches /\ GoOn(Peer(Port(Here, "mem_side")))
  BY DEF Here, ThroughCache, Sending
<1>4. ASSUME NEW r, IsRequest(r), r.addr = a, BoardPlaces(n, r) PROVE OnItsWay(config, r)
  BY <1>1, <1>4 DEF OnItsWay, FullSystem
<1>5. /\ IsRequest(req') /\ req'.addr = a /\ req'.at = Peer(Port(Here, "mem_side")) /\ status' = status
      /\ \A bus : Via(bus, req') <=> Via(bus, req) \/ Here = One(bus)
  BY <1>1, <1>3, Moved
<1>6. Here[1] \in {"iocache", "icache", "dcache", "l2cache", "memobj", "cache"}
  BY <1>3, Kinds
<1>7. \A bus \in {"membus", "iobus"} : Via(bus, req') <=> Via(bus, req)
  BY <1>5, <1>6, Names
<1> HIDE DEF n, a
<1>8. CASE /\ \E i \in 0 .. n - 1 : req.at \in {<<"icache", i, "cpu_side">>, <<"dcache", i, "cpu_side">>}
           /\ ~Via("membus", req) /\ ~Via("iobus", req)
  <2>1. PICK i \in 0 .. n - 1 : req.at = <<"icache", i, "cpu_side">> \/ req.at = <<"dcache", i, "cpu_side">>
    BY <1>8
  <2>2. \/ Port(Here, "mem_side") = <<"icache", i, "mem_side">>
        \/ Port(Here, "mem_side") = <<"dcache", i, "mem_side">>
    BY <1>3, <2>1, Names
  <2>3. OnlyPeer(<<"icache", i, "mem_side">>, Slave("membus"))
            /\ OnlyPeer(<<"dcache", i, "mem_side">>, Slave("membus"))
    BY BoardPorts DEF n
  <2>4. req'.at = Slave("membus")
    BY <1>5, <2>2, <2>3, PeerIs
  <2> QED
    BY <1>4, <1>5, <1>7, <1>8, <2>4 DEF BoardPlaces
<1>9. CASE /\ req.at = <<"iocache", 0, "cpu_side">> /\ Via("iobus", req)
           /\ \/ Via("membus", req) /\ InHole(a)
              \/ ~Via("membus", req) /\ InRAM(a)
  <2>1. Port(Here, "mem_side") = <<"iocache", 0, "mem_side">>
    BY <1>3, <1>9, Names
  <2>2. OnlyPeer(<<"iocache", 0, "mem_side">>, Slave("membus"))
    BY BoardPorts DEF n
  <2>3. req'.at = Slave("membus")
    BY <1>5, <2>1, <2>2, PeerIs
  <2> QED
    BY <1>4, <1>5, <1>7, <1>9, <2>3 DEF BoardPlaces
<1>10. /\ req.at # Slave("membus") /\ req.at # Slave("iobus")
       /\ req.at # <<"bridge", 0, "slave">> /\ req.at # <<"apicbridge", 0, "slave">>
  <2>1. \A bus : Object(Slave(bus))[1] = bus
    BY DEF Object, Slave
  <2>2. Object(<<"bridge", 0, "slave">>)[1] = "bridge" /\ Object(<<"apicbridge", 0, "slave">>)[1] = "apicbridge"
    BY DEF Object
  <2> QED
    BY <1>3, <1>6, <2>1, <2>2
<1>11. ~Ends(n, req.at, a)
  BY <1>3, AtDevice
<1> QED
  BY <1>1, <1>5, <1>8, <1>9, <1>10, <1>11 DEF BoardPlaces, a

(* A request that a bridge hands on is where it can be.                  *)
LEMMA BoardThroughBridge ==
  ASSUME Executed, Done, FullSystem, OnItsWay(config, req), ThroughBridge
  PROVE  status' = status /\ OnItsWay(config, req')
<1> DEFINE n == config.cpus
           a == req.addr
<1>1. IsRequest(req) /\ a \in Int /\ Mapped(a, n) /\ BoardPlaces(n, req)
  BY DEF OnItsWay, FullSystem
<1>2. n \in Nat
  BY ConfigFacts DEF Executed
<1>3. Here = Object(req.at) /\ Here \in Bridges /\ GoOn(Peer(Port(Here, "master")))
  BY DEF Here, ThroughBridge, Sending
<1>4. ASSUME NEW r, IsRequest(r), r.addr = a, BoardPlaces(n, r) PROVE OnItsWay(config, r)
  BY <1>1, <1>4 DEF OnItsWay, FullSystem
<1>5. /\ IsRequest(req') /\ req'.addr = a /\ req'.at = Peer(Port(Here, "master")) /\ status' = status
      /\ \A bus : Via(bus, req') <=> Via(bus, req) \/ Here = One(bus)
  BY <1>1, <1>3, Moved
<1>6. Here[1] \in {"bridge", "apicbridge"}
  BY <1>3, Kinds
<1>7. \A bus \in {"membus", "iobus"} : Via(bus, req') <=> Via(bus, req)
  BY <1>5, <1>6, Names
<1> HIDE DEF n, a
<1>8. CASE req.at = <<"bridge", 0, "slave">> /\ Via("membus", req) /\ ~Via("iobus", req) /\ InBridge(a)
  <2>1. Port(Here, "master") = <<"bridge", 0, "master">>
    BY <1>3, <1>8, Names
  <2>2. OnlyPeer(<<"bridge", 0, "master">>, Slave("iobus"))
    BY BoardPorts DEF n
  <2>3. req'.at = Slave("iobus")
    BY <1>5, <2>1, <2>2, PeerIs
  <2> QED
    BY <1>4, <1>5, <1>7, <1>8, <2>3 DEF BoardPlaces
<1>9. CASE req.at = <<"apicbridge", 0, "slave">> /\ Via("iobus", req) /\ ~Via("membus", req) /\ InInterrupts(a, n)
  <2>1. Port(Here, "master") = <<"apicbridge", 0, "master">>
    BY <1>3, <1>9, Names
  <2>2. OnlyPeer(<<"apicbridge", 0, "master">>, Slave("membus"))
    BY BoardPorts DEF n
  <2>3. req'.at = Slave("membus")
    BY <1>5, <2>1, <2>2, PeerIs
  <2> QED
    BY <1>4, <1>5, <1>7, <1>9, <2>3 DEF BoardPlaces
<1>10. /\ req.at # Slave("membus") /\ req.at # Slave("iobus") /\ req.at # <<"iocache", 0, "cpu_side">>
       /\ \A i : req.at # <<"icache", i, "cpu_side">> /\ req.at # <<"dcache", i, "cpu_side">>
  <2>1. \A bus : Object(Slave(bus))[1] = bus
    BY DEF Object, Slave
  <2>2. /\ Object(<<"iocache", 0, "cpu_side">>)[1] = "iocache"
        /\ \A i : Object(<<"icache", i, "cpu_side">>)[1] = "icache"
               /\ Object(<<"dcache", i, "cpu_side">>)[1] = "dcache"
    BY DEF Object
  <2> QED
    BY <1>3, <1>6, <2>1, <2>2
<1>11. ~Ends(n, req.at, a)
  BY <1>3, AtDevice
<1> QED
  BY <1>1, <1>5, <1>8, <1>9, <1>10, <1>11 DEF BoardPlaces, a

LEMMA SentTo ==   \* a request that has just been sent
  ASSUME NEW r, NEW t, req' = [src |-> r[1], addr |-> r[2], at |-> Peer(r[1]), path |-> {}],
         OnlyPeer(r[1], t)
  PROVE  /\ IsRequest(req') /\ req'.at = t /\ req'.addr = r[2] /\ req'.path = {}
         /\ \A bus : ~Via(bus, req')
<1>1. Peer(r[1]) = t
  BY PeerIs
<1> QED
  BY <1>1 DEF IsRequest, Via

LEMMA Asked ==   \* what the requestors ask for, in the full system
  ASSUME Executed, Done, FullSystem, NEW n, n = config.cpus, NEW r \in Requests
  PROVE  /\ r[2] \in Int /\ Mapped(r[2], n)
         /\ \/ /\ r[1] \in {<<"system", 0, "system_port">>} \cup {<<"ide", 0, "dma">>}
               /\ InRAM(r[2])
            \/ r[1] = <<"io_apic", 0, "int_master">> /\ InInterrupts(r[2], n)
            \/ \E i \in 0 .. n - 1 :
                  r[1] \in {<<"cpu", i, "icache_port">>, <<"cpu", i, "dcache_port">>, <<"cpu", i, "itb_walker">>,
                            <<"cpu", i, "dtb_walker">>, <<"interrupts", i, "int_master">>}
<1>1. n \in Nat \ {0} /\ n \in CPUCounts \cup {1} /\ firmware = Firmware(n) /\ CPUs = 0 .. n - 1
  BY ConfigFacts, Built DEF Executed, CPUs
<1>2. {p.id : p \in firmware.mp.processors} = 0 .. n - 1
  <2>1. firmware.mp = MPTable(n)
    BY <1>1 DEF Firmware
  <2> QED
    BY <1>1, <2>1, Processors
<1> DEFINE Pages1 == {InterruptBase + i * APICSize : i \in 0 .. n - 1}
                         \cup {InterruptBase + i * APICSize + 3 : i \in 0 .. n - 1}
           ids == IF FullSystem THEN {p.id : p \in firmware.mp.processors} ELSE {}
           PortsOf(name, ports) == {<<name, i, p>> : i \in CPUs, p \in ports}
           U == {w[1] : w \in wires}
<1>3. \/ r \in (PortsOf("cpu", {"icache_port", "dcache_port", "itb_walker",
             "dtb_walker"}) \cap U) \X MemoryAddresses
      \/ r \in ({<<"system", 0, "system_port">>, <<"ide", 0, "dma">>} \cap U) \X MemoryAddresses
      \/ r \in ((PortsOf("interrupts", {"int_master"}) \cup {<<"io_apic", 0, "int_master">>}) \cap U)
               \X ({InterruptBase + i * APICSize : i \in ids} \cup {InterruptBase + i * APICSize + 3 : i \in ids})
      \/ r \in (PortsOf("cpu", {"dcache_port"}) \cap U) \X DeviceAddresses
      \/ r \in {<<<<"cpu", i, "dcache_port">>, LocalAPICBase + i * APICSize>> : i \in CPUs}
  BY DEF Requests
<1>4. ids = 0 .. n - 1
  BY <1>2
<1> HIDE DEF ids
<1>5. /\ \A p \in PortsOf("interrupts", {"int_master"}) : \E i \in 0 .. n - 1 : p
             = <<"interrupts", i, "int_master">>
      /\ \A p \in PortsOf("cpu", {"dcache_port"}) : \E i \in 0 .. n - 1 : p = <<"cpu", i, "dcache_port">>
      /\ \A p \in PortsOf("cpu", {"icache_port", "dcache_port", "itb_walker", "dtb_walker"}) : \E i \in 0 .. n - 1 :
            p \in {<<"cpu", i, "icache_port">>, <<"cpu", i, "dcache_port">>, <<"cpu", i, "itb_walker">>,
                <<"cpu", i, "dtb_walker">>}
  BY <1>1
<1> HIDE DEF PortsOf, U
<1>6. \A x \in MemoryAddresses : x \in Int /\ InRAM(x)
  BY Bases DEF MemoryAddresses, InRAM
<1>7. \A x \in DeviceAddresses : x \in Int /\ (InGap(x) \/ (InBridge(x) /\ (InIOAPIC(x) => x = IOAPICAddress)))
  <2>1. \A x \in {MemSize, GB3 - 1} : x \in Int /\ InGap(x)
    BY Bases DEF InGap
  <2>2. \A x \in {GB3, GB3 + IOHole - 1, GB3 + IOHole, IOAPICAddress, M5Ops - 1} : x \in Int /\ InBridge(x)
    BY Bases DEF InBridge
  <2>3. \A x \in {IOBase, InterruptBase - 1, PCIBase, AddrMax} : x \in Int /\ InBridge(x) /\ ~InIOAPIC(x)
    BY Bases DEF InBridge, InIOAPIC
  <2>4. \A x \in {GB3, GB3 + IOHole - 1} : ~InIOAPIC(x)
    BY Bases DEF InIOAPIC
  <2>5. ~InIOAPIC(GB3 + IOHole) /\ ~InIOAPIC(M5Ops - 1)
    BY SMT DEF InIOAPIC, GB3, IOHole, IOAPICAddress, APICSize, M5Ops
  <2>6. \A x \in DeviceAddresses : \/ x \in {MemSize, GB3 - 1} \/ x \in {GB3, GB3 + IOHole - 1}
                                   \/ x = GB3 + IOHole \/ x = M5Ops - 1 \/ x = IOAPICAddress
                                   \/ x \in {IOBase, InterruptBase - 1, PCIBase, AddrMax}
    BY DEF DeviceAddresses
  <2> QED
    BY <2>1, <2>2, <2>3, <2>4, <2>5, <2>6
<1>8. \A x \in Pages1 : x \in Int /\ InInterrupts(x, n)
  <2>1. n \in Nat /\ InterruptBase \in Nat /\ APICSize = 4
    BY <1>1, Bases
  <2>2. \A i \in 0 .. n - 1 : /\ InterruptBase + i * 4 \in InterruptBase .. InterruptBase + n * 4 - 1
                              /\ InterruptBase + i * 4 + 3 \in InterruptBase .. InterruptBase + n * 4 - 1
    BY <2>1
  <2> QED
    BY <2>1, <2>2 DEF InInterrupts
<1>9. \A i \in 0 .. n - 1 : LocalAPICBase + i * APICSize \in Int /\ InAPIC(LocalAPICBase + i * APICSize, i)
  <2>1. \A i \in 0 .. n - 1 : i \in Nat /\ LocalAPICBase \in Nat /\ APICSize = 4
    BY <1>1, Bases
  <2> QED
    BY <2>1 DEF InAPIC
<1>10. CASE r \in (PortsOf("cpu", {"icache_port", "dcache_port", "itb_walker",
                "dtb_walker"}) \cap U) \X MemoryAddresses
  BY <1>5, <1>6, <1>10 DEF Mapped
<1>11. CASE r \in ({<<"system", 0, "system_port">>, <<"ide", 0, "dma">>} \cap U) \X MemoryAddresses
  BY <1>6, <1>11 DEF Mapped
<1>12. CASE r \in ((PortsOf("interrupts", {"int_master"}) \cup {<<"io_apic", 0, "int_master">>}) \cap U)
               \X ({InterruptBase + i * APICSize : i \in ids} \cup {InterruptBase + i * APICSize + 3 : i \in ids})
  <2>1. r[2] \in Pages1
    BY <1>4, <1>12
  <2>2. r[1] \in PortsOf("interrupts", {"int_master"}) \/ r[1] = <<"io_apic", 0, "int_master">>
    BY <1>12
  <2>3. r[2] \in Int /\ InInterrupts(r[2], n)
    BY <1>8, <2>1
  <2> QED
    BY <1>5, <2>2, <2>3 DEF Mapped
<1>13. CASE r \in (PortsOf("cpu", {"dcache_port"}) \cap U) \X DeviceAddresses
  BY <1>5, <1>7, <1>13 DEF Mapped
<1>14. CASE r \in {<<<<"cpu", i, "dcache_port">>, LocalAPICBase + i * APICSize>> : i \in CPUs}
  <2>1. PICK i \in 0 .. n - 1 : r = <<<<"cpu", i, "dcache_port">>, LocalAPICBase + i * APICSize>>
    BY <1>1, <1>14
  <2> QED
    BY <1>9, <2>1 DEF Mapped
<1> QED
  BY <1>3, <1>10, <1>11, <1>12, <1>13, <1>14

(* A request that a requestor of the board sends is where it can be.     *)
LEMMA BoardSend ==
  ASSUME Executed, Done, FullSystem, Send
  PROVE  OnItsWay(config, req')
<1> DEFINE n == config.cpus
<1>1. PICK r \in Requests : req' = [src |-> r[1], addr |-> r[2], at |-> Peer(r[1]), path |-> {}]
  BY DEF Send
<1>2. r[2] \in Int /\ Mapped(r[2], n)
  BY Asked
<1>3. n \in Nat
  BY ConfigFacts DEF Executed
<1>4. ASSUME NEW t, OnlyPeer(r[1], t)
      PROVE  /\ IsRequest(req') /\ req'.at = t /\ req'.addr = r[2]
             /\ \A bus : ~Via(bus, req')
             /\ BoardPlaces(n, req') => OnItsWay(config, req')
  <2>1. IsRequest(req') /\ req'.at = t /\ req'.addr = r[2] /\ \A bus : ~Via(bus, req')
    BY <1>1, <1>4, SentTo
  <2> QED
    BY <1>2, <2>1 DEF OnItsWay, FullSystem
<1> HIDE DEF n
<1>5. CASE r[1] = <<"system", 0, "system_port">>
  <2>1. OnlyPeer(r[1], Slave("membus"))
    BY <1>5, BoardPorts DEF n
  <2> QED
    BY <1>4, <2>1 DEF BoardPlaces
<1>6. CASE r[1] = <<"ide", 0, "dma">> /\ InRAM(r[2])
  <2>1. OnlyPeer(r[1], Slave("iobus"))
    BY <1>6, BoardPorts DEF n
  <2> QED
    BY <1>4, <1>6, <2>1 DEF BoardPlaces
<1>7. CASE r[1] = <<"io_apic", 0, "int_master">> /\ InInterrupts(r[2], n)
  <2>1. OnlyPeer(r[1], Slave("iobus"))
    BY <1>7, BoardPorts DEF n
  <2> QED
    BY <1>4, <1>7, <2>1 DEF BoardPlaces
<1>8. ASSUME NEW i \in 0 .. n - 1,
             r[1] \in {<<"cpu", i, "icache_port">>, <<"cpu", i, "dcache_port">>, <<"cpu", i, "itb_walker">>,
                       <<"cpu", i, "dtb_walker">>, <<"interrupts", i, "int_master">>}
      PROVE  OnItsWay(config, req')
  <2>1. /\ OnlyPeer(<<"cpu", i, "icache_port">>, <<"icache", i, "cpu_side">>)
        /\ OnlyPeer(<<"cpu", i, "dcache_port">>, <<"dcache", i, "cpu_side">>)
        /\ OnlyPeer(<<"cpu", i, "itb_walker">>, Slave("membus"))
        /\ OnlyPeer(<<"cpu", i, "dtb_walker">>, Slave("membus"))
        /\ OnlyPeer(<<"interrupts", i, "int_master">>, Slave("membus"))
    BY BoardPorts DEF n
  <2>2. PICK t : /\ OnlyPeer(r[1], t)
                 /\ t \in {<<"icache", i, "cpu_side">>, <<"dcache", i, "cpu_side">>, Slave("membus")}
    <3>1. CASE r[1] = <<"cpu", i, "icache_port">>
      BY <2>1, <3>1
    <3>2. CASE r[1] = <<"cpu", i, "dcache_port">>
      BY <2>1, <3>2
    <3>3. CASE r[1] = <<"cpu", i, "itb_walker">>
      BY <2>1, <3>3
    <3>4. CASE r[1] = <<"cpu", i, "dtb_walker">>
      BY <2>1, <3>4
    <3>5. CASE r[1] = <<"interrupts", i, "int_master">>
      BY <2>1, <3>5
    <3> QED
      BY <1>8, <3>1, <3>2, <3>3, <3>4, <3>5
  <2> QED
    BY <1>4, <2>2 DEF BoardPlaces
<1> QED
  BY <1>5, <1>6, <1>7, <1>8, Asked DEF n

(* The scripts of parts 1 and 2.                                         *)
PlainScripts == {"simple", "two_level", "two_level_opts", "simple_memobj", "simple_cache"}

(* The ports of their systems: what the memory bus can hand a request    *)
(* to, and the ports that have one peer or none.                         *)
LEMMA PlainPorts ==
  ASSUME Executed, Done, ~FullSystem
  PROVE  /\ config.script \in PlainScripts /\ config.cpus = 1 /\ CPUs = {0}
         /\ \A q : q \in Peers(Master("membus")) =>
               q \in {<<"mem_ctrl", 0, "port">>, <<"interrupts", 0, "pio">>, <<"interrupts", 0, "int_slave">>}
         /\ <<"mem_ctrl", 0, "port">> \in Peers(Master("membus"))
         /\ Peers(<<"cpu", 0, "itb_walker">>) = {} /\ Peers(<<"cpu", 0, "dtb_walker">>) = {}
         /\ Peers(<<"ide", 0, "dma">>) = {}
         /\ OnlyPeer(<<"system", 0, "system_port">>, Slave("membus"))
         /\ config.script = "simple" =>
               /\ OnlyPeer(<<"cpu", 0, "icache_port">>, Slave("membus"))
               /\ OnlyPeer(<<"cpu", 0, "dcache_port">>, Slave("membus"))
         /\ config.script \in {"two_level", "two_level_opts"} =>
               /\ OnlyPeer(<<"cpu", 0, "icache_port">>, <<"icache", 0, "cpu_side">>)
               /\ OnlyPeer(<<"cpu", 0, "dcache_port">>, <<"dcache", 0, "cpu_side">>)
               /\ OnlyPeer(<<"icache", 0, "mem_side">>, Slave("l2bus"))
               /\ OnlyPeer(<<"dcache", 0, "mem_side">>, Slave("l2bus"))
               /\ OnlyPeer(Master("l2bus"), <<"l2cache", 0, "cpu_side">>)
               /\ OnlyPeer(<<"l2cache", 0, "mem_side">>, Slave("membus"))
         /\ config.script = "simple_memobj" =>
               /\ OnlyPeer(<<"cpu", 0, "icache_port">>, <<"memobj", 0, "inst_port">>)
               /\ OnlyPeer(<<"cpu", 0, "dcache_port">>, <<"memobj", 0, "data_port">>)
               /\ OnlyPeer(<<"memobj", 0, "mem_side">>, Slave("membus"))
         /\ config.script = "simple_cache" =>
               /\ OnlyPeer(<<"cpu", 0, "icache_port">>, <<"cache", 0, "cpu_side">>)
               /\ OnlyPeer(<<"cpu", 0, "dcache_port">>, <<"cache", 0, "cpu_side">>)
               /\ OnlyPeer(<<"cache", 0, "mem_side">>, Slave("membus"))
<1>1. config.script \in PlainScripts /\ config.cpus = 1 /\ CPUs = {0}
  BY ConfigFacts DEF Executed, FullSystem, CPUs, PlainScripts
<1>2. \A p, q : q \in Peers(p) <=> PlainWire(config, p, q)
  BY PlainPeersAre
<1>3. ASSUME NEW p, NEW t, \A q : PlainWire(config, p, q) <=> q = t PROVE OnlyPeer(p, t)
  BY <1>2, <1>3 DEF OnlyPeer
<1>4. ASSUME NEW q, PlainWire(config, Master("membus"), q)
      PROVE  q \in {<<"mem_ctrl", 0, "port">>, <<"interrupts", 0, "pio">>, <<"interrupts", 0, "int_slave">>}
  <2>1. CASE config.script = "simple"
    BY <2>1, <1>4 DEF PlainWire, CPUJoins, LevelJoins, MemoryJoins, Master, Slave
  <2>2. CASE config.script \in {"two_level", "two_level_opts"}
    BY <2>2, <1>4 DEF PlainWire, CPUJoins, LevelJoins, MemoryJoins, Master, Slave
  <2>3. CASE config.script = "simple_memobj"
    BY <2>3, <1>4 DEF PlainWire, CPUJoins, LevelJoins, MemoryJoins, Master, Slave
  <2>4. CASE config.script = "simple_cache"
    BY <2>4, <1>4 DEF PlainWire, CPUJoins, LevelJoins, MemoryJoins, Master, Slave
  <2> QED
    BY <1>1, <2>1, <2>2, <2>3, <2>4 DEF PlainScripts
<1>5. PlainWire(config, Master("membus"), <<"mem_ctrl", 0, "port">>)
  BY DEF PlainWire, MemoryJoins
<1>6. ASSUME NEW q PROVE ~PlainWire(config, <<"cpu", 0, "itb_walker">>, q)
  <2>1. CASE config.script = "simple"
    BY <2>1 DEF PlainWire, CPUJoins, LevelJoins, MemoryJoins, Master, Slave
  <2>2. CASE config.script \in {"two_level", "two_level_opts"}
    BY <2>2 DEF PlainWire, CPUJoins, LevelJoins, MemoryJoins, Master, Slave
  <2>3. CASE config.script = "simple_memobj"
    BY <2>3 DEF PlainWire, CPUJoins, LevelJoins, MemoryJoins, Master, Slave
  <2>4. CASE config.script = "simple_cache"
    BY <2>4 DEF PlainWire, CPUJoins, LevelJoins, MemoryJoins, Master, Slave
  <2> QED
    BY <1>1, <2>1, <2>2, <2>3, <2>4 DEF PlainScripts
<1>7. ASSUME NEW q PROVE ~PlainWire(config, <<"cpu", 0, "dtb_walker">>, q)
  <2>1. CASE config.script = "simple"
    BY <2>1 DEF PlainWire, CPUJoins, LevelJoins, MemoryJoins, Master, Slave
  <2>2. CASE config.script \in {"two_level", "two_level_opts"}
    BY <2>2 DEF PlainWire, CPUJoins, LevelJoins, MemoryJoins, Master, Slave
  <2>3. CASE config.script = "simple_memobj"
    BY <2>3 DEF PlainWire, CPUJoins, LevelJoins, MemoryJoins, Master, Slave
  <2>4. CASE config.script = "simple_cache"
    BY <2>4 DEF PlainWire, CPUJoins, LevelJoins, MemoryJoins, Master, Slave
  <2> QED
    BY <1>1, <2>1, <2>2, <2>3, <2>4 DEF PlainScripts
<1>8. ASSUME NEW q PROVE ~PlainWire(config, <<"ide", 0, "dma">>, q)
  <2>1. CASE config.script = "simple"
    BY <2>1 DEF PlainWire, CPUJoins, LevelJoins, MemoryJoins, Master, Slave
  <2>2. CASE config.script \in {"two_level", "two_level_opts"}
    BY <2>2 DEF PlainWire, CPUJoins, LevelJoins, MemoryJoins, Master, Slave
  <2>3. CASE config.script = "simple_memobj"
    BY <2>3 DEF PlainWire, CPUJoins, LevelJoins, MemoryJoins, Master, Slave
  <2>4. CASE config.script = "simple_cache"
    BY <2>4 DEF PlainWire, CPUJoins, LevelJoins, MemoryJoins, Master, Slave
  <2> QED
    BY <1>1, <2>1, <2>2, <2>3, <2>4 DEF PlainScripts
<1>9. ASSUME NEW q PROVE PlainWire(config, <<"system", 0, "system_port">>, q) <=> q = Slave("membus")
  <2>1. CASE config.script = "simple"
    BY <2>1 DEF PlainWire, CPUJoins, LevelJoins, MemoryJoins, Master, Slave
  <2>2. CASE config.script \in {"two_level", "two_level_opts"}
    BY <2>2 DEF PlainWire, CPUJoins, LevelJoins, MemoryJoins, Master, Slave
  <2>3. CASE config.script = "simple_memobj"
    BY <2>3 DEF PlainWire, CPUJoins, LevelJoins, MemoryJoins, Master, Slave
  <2>4. CASE config.script = "simple_cache"
    BY <2>4 DEF PlainWire, CPUJoins, LevelJoins, MemoryJoins, Master, Slave
  <2> QED
    BY <1>1, <2>1, <2>2, <2>3, <2>4 DEF PlainScripts
<1>10. OnlyPeer(<<"system", 0, "system_port">>, Slave("membus"))
  BY <1>3, <1>9
<1>11. ASSUME config.script = "simple"
       PROVE  /\ OnlyPeer(<<"cpu", 0, "icache_port">>, Slave("membus"))
              /\ OnlyPeer(<<"cpu", 0, "dcache_port">>, Slave("membus"))
  <2>1. OnlyPeer(<<"cpu", 0, "icache_port">>, Slave("membus"))
    <3>1. ASSUME NEW q PROVE PlainWire(config, <<"cpu", 0, "icache_port">>, q) <=> q = Slave("membus")
      BY <1>11 DEF PlainWire, CPUJoins, LevelJoins, MemoryJoins, Master, Slave
    <3> QED
      BY <1>3, <3>1
  <2>2. OnlyPeer(<<"cpu", 0, "dcache_port">>, Slave("membus"))
    <3>1. ASSUME NEW q PROVE PlainWire(config, <<"cpu", 0, "dcache_port">>, q) <=> q = Slave("membus")
      BY <1>11 DEF PlainWire, CPUJoins, LevelJoins, MemoryJoins, Master, Slave
    <3> QED
      BY <1>3, <3>1
  <2> QED
    BY <2>1, <2>2
<1>12. ASSUME config.script \in {"two_level", "two_level_opts"}
       PROVE  /\ OnlyPeer(<<"cpu", 0, "icache_port">>, <<"icache", 0, "cpu_side">>)
              /\ OnlyPeer(<<"cpu", 0, "dcache_port">>, <<"dcache", 0, "cpu_side">>)
              /\ OnlyPeer(<<"icache", 0, "mem_side">>, Slave("l2bus"))
              /\ OnlyPeer(<<"dcache", 0, "mem_side">>, Slave("l2bus"))
              /\ OnlyPeer(Master("l2bus"), <<"l2cache", 0, "cpu_side">>)
              /\ OnlyPeer(<<"l2cache", 0, "mem_side">>, Slave("membus"))
  <2>1. OnlyPeer(<<"cpu", 0, "icache_port">>, <<"icache", 0, "cpu_side">>)
    <3>1. ASSUME NEW q PROVE PlainWire(config, <<"cpu", 0, "icache_port">>, q) <=> q = <<"icache", 0, "cpu_side">>
      BY <1>12 DEF PlainWire, CPUJoins, LevelJoins, MemoryJoins, Master, Slave
    <3> QED
      BY <1>3, <3>1
  <2>2. OnlyPeer(<<"cpu", 0, "dcache_port">>, <<"dcache", 0, "cpu_side">>)
    <3>1. ASSUME NEW q PROVE PlainWire(config, <<"cpu", 0, "dcache_port">>, q) <=> q = <<"dcache", 0, "cpu_side">>
      BY <1>12 DEF PlainWire, CPUJoins, LevelJoins, MemoryJoins, Master, Slave
    <3> QED
      BY <1>3, <3>1
  <2>3. OnlyPeer(<<"icache", 0, "mem_side">>, Slave("l2bus"))
    <3>1. ASSUME NEW q PROVE PlainWire(config, <<"icache", 0, "mem_side">>, q) <=> q = Slave("l2bus")
      BY <1>12 DEF PlainWire, CPUJoins, LevelJoins, MemoryJoins, Master, Slave
    <3> QED
      BY <1>3, <3>1
  <2>4. OnlyPeer(<<"dcache", 0, "mem_side">>, Slave("l2bus"))
    <3>1. ASSUME NEW q PROVE PlainWire(config, <<"dcache", 0, "mem_side">>, q) <=> q = Slave("l2bus")
      BY <1>12 DEF PlainWire, CPUJoins, LevelJoins, MemoryJoins, Master, Slave
    <3> QED
      BY <1>3, <3>1
  <2>5. OnlyPeer(Master("l2bus"), <<"l2cache", 0, "cpu_side">>)
    <3>1. ASSUME NEW q PROVE PlainWire(config, Master("l2bus"), q) <=> q = <<"l2cache", 0, "cpu_side">>
      BY <1>12 DEF PlainWire, CPUJoins, LevelJoins, MemoryJoins, Master, Slave
    <3> QED
      BY <1>3, <3>1
  <2>6. OnlyPeer(<<"l2cache", 0, "mem_side">>, Slave("membus"))
    <3>1. ASSUME NEW q PROVE PlainWire(config, <<"l2cache", 0, "mem_side">>, q) <=> q = Slave("membus")
      BY <1>12 DEF PlainWire, CPUJoins, LevelJoins, MemoryJoins, Master, Slave
    <3> QED
      BY <1>3, <3>1
  <2> QED
    BY <2>1, <2>2, <2>3, <2>4, <2>5, <2>6
<1>13. ASSUME config.script = "simple_memobj"
       PROVE  /\ OnlyPeer(<<"cpu", 0, "icache_port">>, <<"memobj", 0, "inst_port">>)
              /\ OnlyPeer(<<"cpu", 0, "dcache_port">>, <<"memobj", 0, "data_port">>)
              /\ OnlyPeer(<<"memobj", 0, "mem_side">>, Slave("membus"))
  <2>1. OnlyPeer(<<"cpu", 0, "icache_port">>, <<"memobj", 0, "inst_port">>)
    <3>1. ASSUME NEW q PROVE PlainWire(config, <<"cpu", 0, "icache_port">>, q) <=> q = <<"memobj", 0, "inst_port">>
      BY <1>13 DEF PlainWire, CPUJoins, LevelJoins, MemoryJoins, Master, Slave
    <3> QED
      BY <1>3, <3>1
  <2>2. OnlyPeer(<<"cpu", 0, "dcache_port">>, <<"memobj", 0, "data_port">>)
    <3>1. ASSUME NEW q PROVE PlainWire(config, <<"cpu", 0, "dcache_port">>, q) <=> q = <<"memobj", 0, "data_port">>
      BY <1>13 DEF PlainWire, CPUJoins, LevelJoins, MemoryJoins, Master, Slave
    <3> QED
      BY <1>3, <3>1
  <2>3. OnlyPeer(<<"memobj", 0, "mem_side">>, Slave("membus"))
    <3>1. ASSUME NEW q PROVE PlainWire(config, <<"memobj", 0, "mem_side">>, q) <=> q = Slave("membus")
      BY <1>13 DEF PlainWire, CPUJoins, LevelJoins, MemoryJoins, Master, Slave
    <3> QED
      BY <1>3, <3>1
  <2> QED
    BY <2>1, <2>2, <2>3
<1>14. ASSUME config.script = "simple_cache"
       PROVE  /\ OnlyPeer(<<"cpu", 0, "icache_port">>, <<"cache", 0, "cpu_side">>)
              /\ OnlyPeer(<<"cpu", 0, "dcache_port">>, <<"cache", 0, "cpu_side">>)
              /\ OnlyPeer(<<"cache", 0, "mem_side">>, Slave("membus"))
  <2>1. OnlyPeer(<<"cpu", 0, "icache_port">>, <<"cache", 0, "cpu_side">>)
    <3>1. ASSUME NEW q PROVE PlainWire(config, <<"cpu", 0, "icache_port">>, q) <=> q = <<"cache", 0, "cpu_side">>
      BY <1>14 DEF PlainWire, CPUJoins, LevelJoins, MemoryJoins, Master, Slave
    <3> QED
      BY <1>3, <3>1
  <2>2. OnlyPeer(<<"cpu", 0, "dcache_port">>, <<"cache", 0, "cpu_side">>)
    <3>1. ASSUME NEW q PROVE PlainWire(config, <<"cpu", 0, "dcache_port">>, q) <=> q = <<"cache", 0, "cpu_side">>
      BY <1>14 DEF PlainWire, CPUJoins, LevelJoins, MemoryJoins, Master, Slave
    <3> QED
      BY <1>3, <3>1
  <2>3. OnlyPeer(<<"cache", 0, "mem_side">>, Slave("membus"))
    <3>1. ASSUME NEW q PROVE PlainWire(config, <<"cache", 0, "mem_side">>, q) <=> q = Slave("membus")
      BY <1>14 DEF PlainWire, CPUJoins, LevelJoins, MemoryJoins, Master, Slave
    <3> QED
      BY <1>3, <3>1
  <2> QED
    BY <2>1, <2>2, <2>3
<1> QED
  BY <1>1, <1>2, <1>4, <1>5, <1>6, <1>7, <1>8, <1>10, <1>11, <1>12, <1>13, <1>14

(* Each bus has one way for an address of the memory.                    *)
LEMMA PlainHops ==
  ASSUME Executed, Done, ~FullSystem, NEW a, InRAM(a)
  PROVE  /\ OnlyWay("membus", a, <<"mem_ctrl", 0, "port">>)
         /\ config.script \in {"two_level", "two_level_opts"} => OnlyWay("l2bus", a, <<"l2cache", 0, "cpu_side">>)
<1>1. a \in Int /\ 1 \in CPUCounts \cup {1} /\ 0 \in 0 .. 1 - 1 /\ 0 \in Nat
  BY Bases DEF InRAM
<1>2. ~InAPIC(a, 0) /\ ~InPage(a, 0)
  BY <1>1, Apart
<1>3. /\ Claims(<<"mem_ctrl", 0, "port">>, a) /\ Claims(<<"l2cache", 0, "cpu_side">>, a)
      /\ ~Claims(<<"interrupts", 0, "pio">>, a) /\ ~Claims(<<"interrupts", 0, "int_slave">>, a)
  BY <1>1, <1>2, ClaimsAre
<1>4. \A bus : Port(One(bus), "mem_side_ports") = Master(bus)
  BY Names DEF Master
<1>5. OnlyWay("membus", a, <<"mem_ctrl", 0, "port">>)
  <2>1. \A p : p \in Peers(Master("membus")) /\ Claims(p, a) <=> p = <<"mem_ctrl", 0, "port">>
    BY <1>3, PlainPorts
  <2> QED
    BY <1>4, <2>1 DEF OnlyWay
<1>6. ASSUME config.script \in {"two_level", "two_level_opts"} PROVE OnlyWay("l2bus", a,
                 <<"l2cache", 0, "cpu_side">>)
  <2>1. OnlyPeer(Master("l2bus"), <<"l2cache", 0, "cpu_side">>)
    BY <1>6, PlainPorts
  <2>2. \A p : p \in Peers(Master("l2bus")) /\ Claims(p, a) <=> p = <<"l2cache", 0, "cpu_side">>
    BY <1>3, <2>1 DEF OnlyPeer
  <2> QED
    BY <1>4, <2>2 DEF OnlyWay
<1> QED
  BY <1>5, <1>6

(* Without a board, a bus hands a request to a place where it can be.    *)
LEMMA PlainThroughBus ==
  ASSUME Executed, Done, ~FullSystem, OnItsWay(config, req), ThroughBus
  PROVE  status' = status /\ OnItsWay(config, req')
<1> DEFINE a == req.addr
           s == config.script
<1>1. IsRequest(req) /\ a \in Int /\ InRAM(a) /\ PlainPlaces(s, req)
  BY DEF OnItsWay, FullSystem
<1>2. Here = Object(req.at) /\ Here \in Busses
  BY DEF Here, ThroughBus, Sending
<1>3. ASSUME NEW r, IsRequest(r), r.addr = a, PlainPlaces(s, r) PROVE OnItsWay(config, r)
  BY <1>1, <1>3 DEF OnItsWay, FullSystem
<1> HIDE DEF a, s
<1>4. CASE s \in {"two_level", "two_level_opts"} /\ ~Via("membus", req) /\ ~Via("l2bus", req)
               /\ req.at = Slave("l2bus")
  <2>1. Here = One("l2bus")
    BY <1>2, <1>4, Names
  <2>2. GoOn(<<"l2cache", 0, "cpu_side">>)
    <3>1. OnlyWay("l2bus", a, <<"l2cache", 0, "cpu_side">>)
      BY <1>1, <1>4, PlainHops DEF s
    <3>2. \/ Here \in req.path /\ status' = "loop" /\ req' = req
          \/ Here \notin req.path /\ GoOn(<<"l2cache", 0, "cpu_side">>)
      BY <2>1, <3>1, Onwards DEF OnlyWay, a
    <3> QED
      BY <1>4, <2>1, <3>2 DEF Via
  <2>3. /\ IsRequest(req') /\ req'.addr = a /\ req'.at = <<"l2cache", 0, "cpu_side">> /\ status' = status
        /\ ~Via("membus", req')
    <3>1. One("membus") # One("l2bus")
      BY Names
    <3> QED
      BY <1>1, <1>4, <2>1, <2>2, <3>1, Moved DEF a
  <2> QED
    BY <1>3, <1>4, <2>3 DEF PlainPlaces
<1>5. CASE ~Via("membus", req) /\ req.at = Slave("membus")
  <2>1. Here = One("membus")
    BY <1>2, <1>5, Names
  <2>2. GoOn(<<"mem_ctrl", 0, "port">>)
    <3>1. OnlyWay("membus", a, <<"mem_ctrl", 0, "port">>)
      BY <1>1, PlainHops
    <3>2. \/ Here \in req.path /\ status' = "loop" /\ req' = req
          \/ Here \notin req.path /\ GoOn(<<"mem_ctrl", 0, "port">>)
      BY <2>1, <3>1, Onwards DEF OnlyWay, a
    <3> QED
      BY <1>5, <2>1, <3>2 DEF Via
  <2>3. IsRequest(req') /\ req'.addr = a /\ req'.at = <<"mem_ctrl", 0, "port">> /\ status' = status
    BY <1>1, <2>2, Moved DEF a
  <2> QED
    BY <1>3, <2>3 DEF PlainPlaces
<1>6. /\ req.at \notin {<<"icache", 0, "cpu_side">>, <<"dcache", 0, "cpu_side">>, <<"l2cache", 0, "cpu_side">>}
      /\ req.at \notin {<<"memobj", 0, "inst_port">>, <<"memobj", 0, "data_port">>, <<"cache", 0, "cpu_side">>}
      /\ req.at # <<"mem_ctrl", 0, "port">>
  <2>1. Here[1] \in {"membus", "l2bus", "iobus"}
    BY <1>2, Kinds
  <2>2. \A x, name : Object(<<x, 0, name>>)[1] = x
    BY DEF Object
  <2> QED
    BY <1>2, <2>1, <2>2
<1> QED
  BY <1>1, <1>4, <1>5, <1>6 DEF PlainPlaces

(* So does a cache; there is no bridge.                                  *)
LEMMA PlainThroughCache ==
  ASSUME Executed, Done, ~FullSystem, OnItsWay(config, req), ThroughCache
  PROVE  status' = status /\ OnItsWay(config, req')
<1> DEFINE a == req.addr
           s == config.script
<1>1. IsRequest(req) /\ a \in Int /\ InRAM(a) /\ PlainPlaces(s, req)
  BY DEF OnItsWay, FullSystem
<1>2. Here = Object(req.at) /\ Here \in Caches /\ GoOn(Peer(Port(Here, "mem_side")))
  BY DEF Here, ThroughCache, Sending
<1>3. ASSUME NEW r, IsRequest(r), r.addr = a, PlainPlaces(s, r) PROVE OnItsWay(config, r)
  BY <1>1, <1>3 DEF OnItsWay, FullSystem
<1>4. /\ IsRequest(req') /\ req'.addr = a /\ req'.at = Peer(Port(Here, "mem_side")) /\ status' = status
      /\ \A bus : Via(bus, req') <=> Via(bus, req) \/ Here = One(bus)
  BY <1>1, <1>2, Moved
<1>5. Here[1] \in {"iocache", "icache", "dcache", "l2cache", "memobj", "cache"}
  BY <1>2, Kinds
<1>6. ~Via("membus", req) => ~Via("membus", req')
  BY <1>4, <1>5, Names
<1> HIDE DEF a, s
<1>7. ASSUME req'.at \in {Slave("membus"), Slave("l2bus")}, ~Via("membus", req), req'.at = Slave("l2bus")
                 => s \in {"two_level", "two_level_opts"} /\ ~Via("l2bus", req)
      PROVE  status' = status /\ OnItsWay(config, req')
  <2>1. ~Via("l2bus", req) => ~Via("l2bus", req')
    BY <1>4, <1>5, Names
  <2> QED
    BY <1>3, <1>4, <1>6, <1>7, <2>1 DEF PlainPlaces
<1>8. CASE s \in {"two_level", "two_level_opts"} /\ ~Via("membus", req) /\ ~Via("l2bus", req)
           /\ req.at \in {<<"icache", 0, "cpu_side">>, <<"dcache", 0, "cpu_side">>}
  <2>1. Port(Here, "mem_side") = <<"icache", 0, "mem_side">> \/ Port(Here, "mem_side") = <<"dcache", 0, "mem_side">>
    BY <1>2, <1>8, Names
  <2>2. OnlyPeer(<<"icache", 0, "mem_side">>, Slave("l2bus"))
            /\ OnlyPeer(<<"dcache", 0, "mem_side">>, Slave("l2bus"))
    BY <1>8, PlainPorts DEF s
  <2>3. req'.at = Slave("l2bus")
    BY <1>4, <2>1, <2>2, PeerIs
  <2> QED
    BY <1>7, <1>8, <2>3
<1>9. CASE s \in {"two_level", "two_level_opts"} /\ ~Via("membus", req) /\ req.at = <<"l2cache", 0, "cpu_side">>
  <2>1. Port(Here, "mem_side") = <<"l2cache", 0, "mem_side">>
    BY <1>2, <1>9, Names
  <2>2. OnlyPeer(<<"l2cache", 0, "mem_side">>, Slave("membus"))
    BY <1>9, PlainPorts DEF s
  <2>3. req'.at = Slave("membus") /\ Slave("membus") # Slave("l2bus")
    BY <1>4, <2>1, <2>2, PeerIs DEF Slave
  <2> QED
    BY <1>7, <1>9, <2>3
<1>10. CASE s = "simple_memobj" /\ ~Via("membus", req)
            /\ req.at \in {<<"memobj", 0, "inst_port">>, <<"memobj", 0, "data_port">>}
  <2>1. Port(Here, "mem_side") = <<"memobj", 0, "mem_side">>
    BY <1>2, <1>10, Names
  <2>2. OnlyPeer(<<"memobj", 0, "mem_side">>, Slave("membus"))
    BY <1>10, PlainPorts DEF s
  <2>3. req'.at = Slave("membus") /\ Slave("membus") # Slave("l2bus")
    BY <1>4, <2>1, <2>2, PeerIs DEF Slave
  <2> QED
    BY <1>7, <1>10, <2>3
<1>11. CASE s = "simple_cache" /\ ~Via("membus", req) /\ req.at = <<"cache", 0, "cpu_side">>
  <2>1. Port(Here, "mem_side") = <<"cache", 0, "mem_side">>
    BY <1>2, <1>11, Names
  <2>2. OnlyPeer(<<"cache", 0, "mem_side">>, Slave("membus"))
    BY <1>11, PlainPorts DEF s
  <2>3. req'.at = Slave("membus") /\ Slave("membus") # Slave("l2bus")
    BY <1>4, <2>1, <2>2, PeerIs DEF Slave
  <2> QED
    BY <1>7, <1>11, <2>3
<1>12. req.at # Slave("membus") /\ req.at # Slave("l2bus") /\ req.at # <<"mem_ctrl", 0, "port">>
  <2>1. (\A bus : Object(Slave(bus))[1] = bus) /\ Object(<<"mem_ctrl", 0, "port">>)[1] = "mem_ctrl"
    BY DEF Object, Slave
  <2> QED
    BY <1>2, <1>5, <2>1
<1> QED
  BY <1>1, <1>8, <1>9, <1>10, <1>11, <1>12 DEF PlainPlaces

LEMMA PlainThroughBridge ==
  ASSUME ~FullSystem, OnItsWay(config, req), ThroughBridge
  PROVE  FALSE
<1>1. PlainPlaces(config.script, req)
  BY DEF OnItsWay, FullSystem
<1>2. Here = Object(req.at) /\ Here[1] \in {"bridge", "apicbridge"}
  BY Kinds DEF Here, ThroughBridge, Sending
<1>3. (\A bus : Object(Slave(bus))[1] = bus) /\ \A x, name : Object(<<x, 0, name>>)[1] = x
  BY DEF Object, Slave
<1>4. /\ req.at # Slave("membus") /\ req.at # Slave("l2bus") /\ req.at # <<"mem_ctrl", 0, "port">>
      /\ req.at \notin {<<"icache", 0, "cpu_side">>, <<"dcache", 0, "cpu_side">>, <<"l2cache", 0, "cpu_side">>}
      /\ req.at \notin {<<"memobj", 0, "inst_port">>, <<"memobj", 0, "data_port">>, <<"cache", 0, "cpu_side">>}
  BY SMTT(30), <1>2, <1>3
<1> QED
  BY <1>1, <1>4 DEF PlainPlaces

(* A request is sent to a place where it can be; without a board only    *)
(* the CPU and the system port send any.                                 *)
LEMMA PlainSend ==
  ASSUME Executed, Done, ~FullSystem, Send
  PROVE  OnItsWay(config, req')
<1>1. PICK r \in Requests : req' = [src |-> r[1], addr |-> r[2], at |-> Peer(r[1]), path |-> {}]
  BY DEF Send
<1> DEFINE ids == IF FullSystem THEN {p.id : p \in firmware.mp.processors} ELSE {}
           PortsOf(name, ports) == {<<name, i, p>> : i \in CPUs, p \in ports}
           U == {w[1] : w \in wires}
<1>2. \/ r \in (PortsOf("cpu", {"icache_port", "dcache_port", "itb_walker",
             "dtb_walker"}) \cap U) \X MemoryAddresses
      \/ r \in ({<<"system", 0, "system_port">>, <<"ide", 0, "dma">>} \cap U) \X MemoryAddresses
      \/ r \in ((PortsOf("interrupts", {"int_master"}) \cup {<<"io_apic", 0, "int_master">>}) \cap U)
               \X ({InterruptBase + i * APICSize : i \in ids} \cup {InterruptBase + i * APICSize + 3 : i \in ids})
  BY <1>1 DEF Requests
<1>3. ids = {}
  OBVIOUS
<1>4. \A p \in PortsOf("cpu", {"icache_port", "dcache_port", "itb_walker", "dtb_walker"}) :
         p \in {<<"cpu", 0, "icache_port">>, <<"cpu", 0, "dcache_port">>, <<"cpu", 0, "itb_walker">>,
             <<"cpu", 0, "dtb_walker">>}
  BY PlainPorts
<1>5. \A p \in U : Peers(p) # {}
  BY DEF Peers
<1> HIDE DEF ids, PortsOf, U
<1>6. /\ r[1] \in {<<"cpu", 0, "icache_port">>, <<"cpu", 0, "dcache_port">>, <<"cpu", 0, "itb_walker">>,
                   <<"cpu", 0, "dtb_walker">>, <<"system", 0, "system_port">>, <<"ide", 0, "dma">>}
      /\ r[2] \in MemoryAddresses /\ Peers(r[1]) # {}
  BY <1>2, <1>3, <1>4, <1>5
<1>7. r[1] \in {<<"cpu", 0, "icache_port">>, <<"cpu", 0, "dcache_port">>, <<"system", 0, "system_port">>}
  <2>1. Peers(<<"cpu", 0, "itb_walker">>) = {} /\ Peers(<<"cpu", 0, "dtb_walker">>) = {}
            /\ Peers(<<"ide", 0, "dma">>) = {}
    BY PlainPorts
  <2> QED
    BY <1>6, <2>1
<1>8. \A x \in MemoryAddresses : x \in Int /\ InRAM(x)
  BY Bases DEF MemoryAddresses, InRAM
<1>9. ASSUME NEW t, OnlyPeer(r[1], t)
      PROVE  /\ IsRequest(req') /\ req'.at = t /\ \A bus : ~Via(bus, req')
             /\ PlainPlaces(config.script, req') => OnItsWay(config, req')
  <2>1. IsRequest(req') /\ req'.at = t /\ req'.addr = r[2] /\ \A bus : ~Via(bus, req')
    BY <1>1, <1>9, SentTo
  <2> QED
    BY <1>6, <1>8, <2>1 DEF OnItsWay, FullSystem
<1>10. CASE r[1] = <<"system", 0, "system_port">>
  <2>1. OnlyPeer(r[1], Slave("membus"))
    BY <1>10, PlainPorts
  <2> QED
    BY <1>9, <2>1 DEF PlainPlaces
<1>11. CASE config.script = "simple" /\ r[1] \in {<<"cpu", 0, "icache_port">>, <<"cpu", 0, "dcache_port">>}
  <2>1. OnlyPeer(r[1], Slave("membus"))
    BY <1>11, PlainPorts
  <2> QED
    BY <1>9, <2>1 DEF PlainPlaces
<1>12. CASE config.script \in {"two_level", "two_level_opts"}
                /\ r[1] \in {<<"cpu", 0, "icache_port">>, <<"cpu", 0, "dcache_port">>}
  <2>1. OnlyPeer(r[1], <<"icache", 0, "cpu_side">>) \/ OnlyPeer(r[1], <<"dcache", 0, "cpu_side">>)
    BY <1>12, PlainPorts
  <2> QED
    BY <1>9, <1>12, <2>1 DEF PlainPlaces
<1>13. CASE config.script = "simple_memobj" /\ r[1] \in {<<"cpu", 0, "icache_port">>, <<"cpu", 0, "dcache_port">>}
  <2>1. OnlyPeer(r[1], <<"memobj", 0, "inst_port">>) \/ OnlyPeer(r[1], <<"memobj", 0, "data_port">>)
    BY <1>13, PlainPorts
  <2> QED
    BY <1>9, <1>13, <2>1 DEF PlainPlaces
<1>14. CASE config.script = "simple_cache" /\ r[1] \in {<<"cpu", 0, "icache_port">>, <<"cpu", 0, "dcache_port">>}
  <2>1. OnlyPeer(r[1], <<"cache", 0, "cpu_side">>)
    BY <1>14, PlainPorts
  <2> QED
    BY <1>9, <1>14, <2>1 DEF PlainPlaces
<1>15. config.script \in PlainScripts
  BY PlainPorts
<1> QED
  BY <1>7, <1>10, <1>11, <1>12, <1>13, <1>14, <1>15 DEF PlainScripts

(* Routed holds at first, and every step preserves it in a state of      *)
(* which Executed is true.                                               *)
LEMMA RoutedInit == Init => Routed
  BY DEF Init, Routed

LEMMA RoutedStep == Executed /\ Routed /\ [Next]_vars => Routed'
<1> SUFFICES ASSUME Executed, Routed, [Next]_vars PROVE Routed'
  OBVIOUS
<1>1. ASSUME status = "building", req' = req, status' \in {"building", "failed", "running", "unconnected"}
      PROVE  Routed'
  BY <1>1 DEF Routed, Done
<1>2. ASSUME status = "running", status' = status, req' = NoRequest \/ OnItsWay(config, req'), config' = config
      PROVE  Routed'
  <2>1. Done' /\ status' \notin {"overlap", "nowhere", "loop"}
    BY <1>2 DEF Done
  <2>2. req' # NoRequest => OnItsWay(config', req')
    BY <1>2
  <2> QED
    BY <2>1, <2>2 DEF Routed
<1>3. ASSUME Sending(Busses) \/ Sending(Caches) \/ Sending(Bridges)
      PROVE  /\ status = "running" /\ Done /\ OnItsWay(config, req) /\ config' = config
  BY <1>3 DEF Sending, Done, Routed
<1>4. CASE MakeObject \/ ConnectPorts \/ ReadSize \/ InstallFirmware \/ Instantiate
  <2>1. CASE MakeObject
    BY <1>1, <2>1 DEF MakeObject, Executes
  <2>2. CASE ConnectPorts
    <3>1. status = "building" /\ req' = req
      BY <2>2 DEF ConnectPorts, Executes
    <3>2. status' = status \/ status' = "failed"
      BY <2>2 DEF ConnectPorts, Fail
    <3> QED
      BY <1>1, <3>1, <3>2
  <2>3. CASE ReadSize
    <3>1. status = "building" /\ req' = req
      BY <2>3 DEF ReadSize, Executes
    <3>2. status' = status \/ status' = "failed"
      BY <2>3 DEF ReadSize, Fail
    <3> QED
      BY <1>1, <3>1, <3>2
  <2>4. CASE InstallFirmware
    BY <1>1, <2>4 DEF InstallFirmware, Executes
  <2>5. CASE Instantiate
    <3>1. status = "building" /\ req' = req /\ status' \in {"running", "unconnected"}
      BY <2>5 DEF Instantiate
    <3> QED
      BY <1>1, <3>1
  <2> QED
    BY <1>4, <2>1, <2>2, <2>3, <2>4, <2>5
<1>5. CASE Send
  <2>1. status = "running" /\ Done /\ status' = status /\ config' = config
    BY <1>5 DEF Send, Done
  <2>2. OnItsWay(config, req')
    BY <1>5, <2>1, BoardSend, PlainSend
  <2> QED
    BY <1>2, <2>1, <2>2
<1>6. CASE ThroughBus
  <2>1. status = "running" /\ Done /\ OnItsWay(config, req) /\ config' = config
    BY <1>3, <1>6 DEF ThroughBus
  <2>2. \/ status' = "loop" /\ req' = req /\ InHole(req.addr)
        \/ status' = status /\ OnItsWay(config, req')
    BY <1>6, <2>1, BoardThroughBus, PlainThroughBus
  <2>3. CASE status' = "loop" /\ req' = req /\ InHole(req.addr)
    <3>1. Done' /\ status' \notin {"overlap", "nowhere"} /\ InHole(req'.addr)
      BY <2>3 DEF Done
    <3>2. OnItsWay(config', req')
      BY <2>1, <2>3
    <3> QED
      BY <3>1, <3>2 DEF Routed
  <2> QED
    BY <1>2, <2>1, <2>2, <2>3
<1>7. CASE ThroughCache
  <2>1. status = "running" /\ Done /\ OnItsWay(config, req) /\ config' = config
    BY <1>3, <1>7 DEF ThroughCache
  <2>2. status' = status /\ OnItsWay(config, req')
    BY <1>7, <2>1, BoardThroughCache, PlainThroughCache
  <2> QED
    BY <1>2, <2>1, <2>2
<1>8. CASE ThroughBridge
  <2>1. status = "running" /\ Done /\ OnItsWay(config, req) /\ config' = config
    BY <1>3, <1>8 DEF ThroughBridge
  <2>2. status' = status /\ OnItsWay(config, req')
    BY <1>8, <2>1, BoardThroughBridge, PlainThroughBridge
  <2> QED
    BY <1>2, <2>1, <2>2
<1>9. CASE Answer
  BY <1>2, <1>9 DEF Answer
<1>10. CASE UNCHANGED vars
  <2>1. config' = config /\ req' = req /\ status' = status
    BY <1>10 DEF vars
  <2>2. OnItsWay(config, req)' <=> OnItsWay(config, req)
    BY <2>1
  <2> QED
    BY <2>1, <2>2 DEF Routed, Done
<1> QED
  BY <1>4, <1>5, <1>6, <1>7, <1>8, <1>9, <1>10 DEF Next

(* In every state of a run, the system is what its script builds and a   *)
(* request is where it can be.                                           *)
THEOREM RoutedCorrect == Spec => [](Executed /\ Routed)
  BY ExecutedInit, ExecutedStep, RoutedInit, RoutedStep, PTL DEF Spec

(* A request at no bus, cache or bridge is at the device that owns its   *)
(* address.                                                              *)
LEMMA BoardEnds ==
  ASSUME Executed, FullSystem, AtTarget, OnItsWay(config, req)
  PROVE  Ends(config.cpus, req.at, req.addr)
<1> DEFINE n == config.cpus
<1>1. BoardPlaces(n, req) /\ Here = Object(req.at) /\ CPUs = 0 .. n - 1
  BY DEF OnItsWay, FullSystem, Here, CPUs
<1>2. Here \notin Busses /\ Here \notin Caches /\ Here \notin Bridges
  BY DEF AtTarget
<1> HIDE DEF n
<1>3. ASSUME NEW i \in 0 .. n - 1 PROVE req.at \notin {<<"icache", i, "cpu_side">>, <<"dcache", i, "cpu_side">>}
  <2>1. <<"icache", i>> \in Caches /\ <<"dcache", i>> \in Caches
    BY <1>1, <1>3, Kinds
  <2>2. req.at = <<"icache", i, "cpu_side">> => Here = <<"icache", i>>
    BY <1>1, Names
  <2>3. req.at = <<"dcache", i, "cpu_side">> => Here = <<"dcache", i>>
    BY <1>1, Names
  <2> QED
    BY <1>2, <2>1, <2>2, <2>3
<1>4. req.at # Slave("membus") /\ req.at # Slave("iobus")
  BY <1>1, <1>2, Names, Kinds
<1>5. req.at # <<"bridge", 0, "slave">> /\ req.at # <<"apicbridge", 0, "slave">>
  BY <1>1, <1>2, Names, Kinds
<1>6. req.at # <<"iocache", 0, "cpu_side">>
  BY <1>1, <1>2, Names, Kinds
<1> QED
  BY <1>1, <1>3, <1>4, <1>5, <1>6 DEF BoardPlaces, n

LEMMA PlainEnds ==
  ASSUME Executed, ~FullSystem, AtTarget, OnItsWay(config, req)
  PROVE  Ends(config.cpus, req.at, req.addr)
<1>1. PlainPlaces(config.script, req) /\ InRAM(req.addr) /\ Here = Object(req.at) /\ 0 \in CPUs
  BY ConfigFacts DEF OnItsWay, FullSystem, Here, CPUs, Executed
<1>2. Here \notin Busses /\ Here \notin Caches
  BY DEF AtTarget
<1>3. req.at # Slave("membus") /\ req.at # Slave("l2bus")
  BY <1>1, <1>2, Names, Kinds
<1>4. req.at \notin {<<"icache", 0, "cpu_side">>, <<"dcache", 0, "cpu_side">>}
  <2>1. <<"icache", 0>> \in Caches /\ <<"dcache", 0>> \in Caches
    BY <1>1, Kinds
  <2>2. req.at = <<"icache", 0, "cpu_side">> => Here = <<"icache", 0>>
    BY <1>1, Names
  <2>3. req.at = <<"dcache", 0, "cpu_side">> => Here = <<"dcache", 0>>
    BY <1>1, Names
  <2> QED
    BY <1>2, <2>1, <2>2, <2>3
<1>5. req.at \notin {<<"memobj", 0, "inst_port">>, <<"memobj", 0, "data_port">>}
  BY <1>1, <1>2, Names, Kinds
<1>6. req.at \notin {<<"l2cache", 0, "cpu_side">>, <<"cache", 0, "cpu_side">>}
  BY <1>1, <1>2, Names, Kinds
<1>7. req.at = <<"mem_ctrl", 0, "port">>
  BY <1>1, <1>3, <1>4, <1>5, <1>6 DEF PlainPlaces
<1> QED
  BY <1>1, <1>7 DEF Ends

(* A request ends at the device that owns its address, whichever port    *)
(* sent it, and the claims on a bus never overlap: for any number of     *)
(* CPUs, any size of memory and any bases in the order of the x86 board, *)
(* and for every script.                                                 *)
THEOREM ReachesOwnerCorrect == Spec => []ReachesOwner
<1>1. Executed /\ Routed => ReachesOwner
  <2> SUFFICES ASSUME Executed, Routed PROVE ReachesOwner
    OBVIOUS
  <2>1. status \notin {"overlap", "nowhere"}
    BY DEF Routed
  <2>2. ASSUME AtTarget PROVE req.at = Owner(req.addr)
    <3>1. OnItsWay(config, req) /\ req.addr \in Int /\ config \in Configs
      BY <2>2 DEF AtTarget, Routed, OnItsWay, Executed
    <3>2. Ends(config.cpus, req.at, req.addr)
      BY <2>2, <3>1, BoardEnds, PlainEnds
    <3> QED
      BY <3>1, <3>2, EndsAtOwner
  <2> QED
    BY <2>1, <2>2 DEF ReachesOwner
<1> QED
  BY <1>1, RoutedCorrect, PTL

(* No request goes round through the bridge and the I/O cache but one to *)
(* mem_ranges[1], whatever the size of the memory and the number of      *)
(* CPUs.                                                                 *)
THEOREM OnlyIOHoleLoopsCorrect == Spec => []OnlyIOHoleLoops
<1>1. Routed => OnlyIOHoleLoops
  BY DEF Routed, OnlyIOHoleLoops, InHole
<1> QED
  BY <1>1, RoutedCorrect, PTL
---------------------------------------------------------------------------
(* Whether the statements of a script come in an order in which each can *)
(* be executed.  The ports that a statement connects.                    *)
Touches(x) == IF x.op = "bind" THEN {x.a, x.b} ELSE {}
Fits(p, q) == \/ RequestPort(p) /\ ResponsePort(q)
              \/ ResponsePort(p) /\ RequestPort(q)
Proper(x)  == \/ \E o : x = Make(o)
              \/ \E p, q : x = Bind(p, q) /\ Fits(p, q)
              \/ \E f \in CacheOptions : x = ReadOption(f)
              \/ \E t : x = Install(t)

(* The objects of M are there before: s makes those of O, connects ports *)
(* of objects that are there by then, and of ports that can be connected *)
(* once those of K, once.                                                *)
Reachable(s, M, k, o) == o \in M \/ \E j \in 1 .. k - 1 : s[j] = Make(o)
Once(s) == \A j, k \in 1 .. Len(s) : j < k => \A x \in Touches(s[j]) \cap Touches(s[k]) : VectorPort(x)

Sound(s, M, O, K) ==
    /\ \E A : s \in Seq(A)
    /\ \A k \in 1 .. Len(s) : Proper(s[k])
    /\ \A o : o \in O <=> \E k \in 1 .. Len(s) : s[k] = Make(o)
    /\ \A k \in 1 .. Len(s) : \A x \in Touches(s[k]) : x \in K \/ VectorPort(x)
    /\ \A k \in 1 .. Len(s) : \A x \in Touches(s[k]) : Reachable(s, M, k, Object(x))
    /\ Once(s)

(* The ports each kind of statement connects.                            *)
LEMMA TouchesAre ==
  /\ \A o : Touches(Make(o)) = {}
  /\ \A p, q : Touches(Bind(p, q)) = {p, q}
  /\ \A f : Touches(ReadOption(f)) = {}
  /\ \A t : Touches(Install(t)) = {}
  BY DEF Touches, Make, Bind, ReadOption, Install

(* The elements of a sequence that is joined to another.                 *)
IsJoined(r, s, t) ==
    /\ Len(s) \in Nat /\ Len(t) \in Nat /\ Len(r) = Len(s) + Len(t)
    /\ \A k \in 1 .. Len(s) : r[k] = s[k]
    /\ \A k \in 1 .. Len(t) : r[Len(s) + k] = t[k]
    /\ \A k \in 1 .. Len(r) : k \in 1 .. Len(s) \/ \E i \in 1 .. Len(t) : k = Len(s) + i

(* The statements of a joined script are those of its parts.             *)
LEMMA JoinedAt ==
  ASSUME NEW A, NEW s, s \in Seq(A), NEW B, NEW t, t \in Seq(B)
  PROVE  s \o t \in Seq(A \cup B) /\ IsJoined(s \o t, s, t)
<1>1. s \o t \in Seq(A \cup B) /\ Len(s) \in Nat /\ Len(t) \in Nat /\ Len(s \o t) = Len(s) + Len(t)
  OBVIOUS
<1>2. \A k \in 1 .. Len(s) : (s \o t)[k] = s[k]
  OBVIOUS
<1>3. \A k \in 1 .. Len(t) : (s \o t)[Len(s) + k] = t[k]
  <2> TAKE k \in 1 .. Len(t)
  <2>1. Len(s) + k \in 1 .. Len(s) + Len(t) /\ ~ (Len(s) + k <= Len(s)) /\ (Len(s) + k) - Len(s) = k
    BY <1>1
  <2> QED
    BY <1>1, <2>1
<1>4. ASSUME NEW k \in 1 .. Len(s \o t) PROVE k \in 1 .. Len(s) \/ \E i \in 1 .. Len(t) : k = Len(s) + i
  <2>1. CASE k <= Len(s)
    BY <1>1, <2>1
  <2>2. CASE k > Len(s)
    <3>1. k - Len(s) \in 1 .. Len(t) /\ k = Len(s) + (k - Len(s))
      BY <1>1, <2>2
    <3> QED
      BY <3>1
  <2> QED
    BY <1>1, <2>1, <2>2
<1> QED
  BY <1>1, <1>2, <1>3, <1>4 DEF IsJoined

(* A sound script can follow another that makes, or finds, the objects   *)
(* it needs, and connects other ports.                                   *)
LEMMA SoundJoined ==
  ASSUME NEW s, NEW M, NEW O1, NEW K1, Sound(s, M, O1, K1),
         NEW t, NEW N, NEW O2, NEW K2, Sound(t, N, O2, K2),
         N \subseteq M \cup O1, K1 \cap K2 = {}
  PROVE  Sound(s \o t, M, O1 \cup O2, K1 \cup K2)
<1>1. PICK A : s \in Seq(A)
  BY DEF Sound
<1>2. PICK B : t \in Seq(B)
  BY DEF Sound
<1> DEFINE r == s \o t
           m == Len(s)
           n == Len(t)
<1>0. s \o t \in Seq(A \cup B) /\ IsJoined(s \o t, s, t)
  <2> HIDE DEF r, m, n
  <2> QED
    BY <1>1, <1>2, JoinedAt
<1>3. /\ r \in Seq(A \cup B) /\ m \in Nat /\ n \in Nat /\ Len(r) = m + n
      /\ \A k \in 1 .. m : r[k] = s[k]
      /\ \A k \in 1 .. n : r[m + k] = t[k]
      /\ \A k \in 1 .. Len(r) : k \in 1 .. m \/ \E i \in 1 .. n : k = m + i
  BY <1>0 DEF IsJoined
<1>4. /\ \A k \in 1 .. m : Proper(s[k])
      /\ \A o : o \in O1 <=> \E k \in 1 .. m : s[k] = Make(o)
      /\ \A k \in 1 .. m : \A x \in Touches(s[k]) : x \in K1 \/ VectorPort(x)
      /\ \A k \in 1 .. m : \A x \in Touches(s[k]) : Reachable(s, M, k, Object(x))
      /\ \A j, k \in 1 .. m : j < k => \A x \in Touches(s[j]) \cap Touches(s[k]) : VectorPort(x)
  BY DEF Sound, Once
<1>5. /\ \A k \in 1 .. n : Proper(t[k])
      /\ \A o : o \in O2 <=> \E k \in 1 .. n : t[k] = Make(o)
      /\ \A k \in 1 .. n : \A x \in Touches(t[k]) : x \in K2 \/ VectorPort(x)
      /\ \A k \in 1 .. n : \A x \in Touches(t[k]) : Reachable(t, N, k, Object(x))
      /\ \A j, k \in 1 .. n : j < k => \A x \in Touches(t[j]) \cap Touches(t[k]) : VectorPort(x)
  BY DEF Sound, Once
<1> HIDE DEF r, m, n
<1>6. \A k \in 1 .. m : k \in 1 .. Len(r)
  BY <1>3
<1>7. \A k \in 1 .. n : m + k \in 1 .. Len(r)
  BY <1>3
<1>8. \A k \in 1 .. Len(r) : Proper(r[k])
  BY <1>3, <1>4, <1>5
<1>9. \A o : o \in O1 \cup O2 <=> \E k \in 1 .. Len(r) : r[k] = Make(o)
  <2> TAKE o
  <2>1. ASSUME o \in O1 PROVE \E k \in 1 .. Len(r) : r[k] = Make(o)
    BY <1>3, <1>4, <1>6, <2>1
  <2>2. ASSUME o \in O2 PROVE \E k \in 1 .. Len(r) : r[k] = Make(o)
    BY <1>3, <1>5, <1>7, <2>2
  <2>3. ASSUME NEW k \in 1 .. Len(r), r[k] = Make(o) PROVE o \in O1 \cup O2
    <3>1. CASE k \in 1 .. m
      BY <1>3, <1>4, <2>3, <3>1
    <3>2. ASSUME NEW i \in 1 .. n, k = m + i PROVE o \in O2
      BY <1>3, <1>5, <2>3, <3>2
    <3> QED
      BY <1>3, <3>1, <3>2
  <2> QED
    BY <2>1, <2>2, <2>3
<1>10. \A k \in 1 .. Len(r) : \A x \in Touches(r[k]) : x \in K1 \cup K2 \/ VectorPort(x)
  BY <1>3, <1>4, <1>5
<1>11. \A k \in 1 .. Len(r) : \A x \in Touches(r[k]) : Reachable(r, M, k, Object(x))
  <2> SUFFICES ASSUME NEW k \in 1 .. Len(r), NEW x \in Touches(r[k]) PROVE Reachable(r, M, k, Object(x))
    OBVIOUS
  <2>1. CASE k \in 1 .. m
    <3>1. Reachable(s, M, k, Object(x))
      BY <1>3, <1>4, <2>1
    <3>2. \A j \in 1 .. k - 1 : j \in 1 .. m
      BY <1>3, <2>1
    <3> QED
      BY <1>3, <3>1, <3>2 DEF Reachable
  <2>2. ASSUME NEW i \in 1 .. n, k = m + i PROVE Reachable(r, M, k, Object(x))
    <3>1. Reachable(t, N, i, Object(x))
      BY <1>3, <1>5, <2>2
    <3>2. CASE \E j \in 1 .. i - 1 : t[j] = Make(Object(x))
      <4>1. PICK j \in 1 .. i - 1 : t[j] = Make(Object(x))
        BY <3>2
      <4>2. j \in 1 .. n /\ m + j \in 1 .. k - 1
        BY <1>3, <2>2
      <4> QED
        BY <1>3, <4>1, <4>2 DEF Reachable
    <3>3. CASE Object(x) \in O1
      <4>1. PICK j \in 1 .. m : s[j] = Make(Object(x))
        BY <1>4, <3>3
      <4>2. j \in 1 .. k - 1
        BY <1>3, <2>2
      <4> QED
        BY <1>3, <4>1, <4>2 DEF Reachable
    <3> QED
      BY <3>1, <3>2, <3>3 DEF Reachable
  <2> QED
    BY <1>3, <2>1, <2>2
<1>12. \A j, k \in 1 .. Len(r) : j < k => \A x \in Touches(r[j]) \cap Touches(r[k]) : VectorPort(x)
  <2> SUFFICES ASSUME NEW j \in 1 .. Len(r), NEW k \in 1 .. Len(r), j < k, NEW x \in Touches(r[j]) \cap Touches(r[k])
               PROVE  VectorPort(x)
    OBVIOUS
  <2>1. CASE k \in 1 .. m
    <3>1. j \in 1 .. m
      BY <1>3, <2>1
    <3> QED
      BY <1>3, <1>4, <2>1, <3>1
  <2>2. ASSUME NEW i \in 1 .. n, k = m + i, j \in 1 .. m PROVE VectorPort(x)
    BY <1>3, <1>4, <1>5, <2>2
  <2>3. ASSUME NEW i \in 1 .. n, k = m + i, NEW h \in 1 .. n, j = m + h PROVE VectorPort(x)
    <3>1. h < i
      BY <1>3, <2>3
    <3>2. x \in Touches(t[h]) \cap Touches(t[i])
      BY <1>3, <2>3
    <3> QED
      BY <1>5, <3>1, <3>2
  <2> QED
    BY <1>3, <2>1, <2>2, <2>3
<1>13. Sound(r, M, O1 \cup O2, K1 \cup K2)
  BY <1>3, <1>8, <1>9, <1>10, <1>11, <1>12 DEF Sound, Once
<1> QED
  BY <1>13 DEF r

(* Scripts of one statement, and one of none.                            *)
LEMMA SoundOne ==
  ASSUME NEW x, Proper(x), NEW M, NEW O, NEW K, \A o : o \in O <=> x = Make(o),
         \A p \in Touches(x) : Object(p) \in M /\ (p \in K \/ VectorPort(p))
  PROVE  Sound(<<x>>, M, O, K)
<1>1. PICK s : s = <<x>>
  OBVIOUS
<1>2. s \in Seq({x}) /\ Len(s) = 1 /\ s[1] = x /\ \A k \in 1 .. Len(s) : k = 1
  BY <1>1
<1>3. Sound(s, M, O, K)
  BY <1>2 DEF Sound, Once, Reachable
<1> QED
  BY <1>1, <1>3

LEMMA SoundMake == ASSUME NEW o PROVE Sound(<<Make(o)>>, {}, {o}, {})
<1>1. Proper(Make(o)) /\ Touches(Make(o)) = {} /\ \A u : u \in {o} <=> Make(o) = Make(u)
  BY TouchesAre, Distinct DEF Proper
<1> QED
  BY <1>1, SoundOne

LEMMA SoundBind ==
  ASSUME NEW p, NEW q, NEW M, NEW K, Fits(p, q), Object(p) \in M, Object(q) \in M,
         p \in K \/ VectorPort(p), q \in K \/ VectorPort(q)
  PROVE  Sound(<<Bind(p, q)>>, M, {}, K)
<1>1. Proper(Bind(p, q)) /\ Touches(Bind(p, q)) = {p, q} /\ \A u : u \in {} <=> Bind(p, q) = Make(u)
  BY TouchesAre, Distinct DEF Proper
<1> QED
  BY <1>1, SoundOne

LEMMA SoundOption == ASSUME NEW f \in CacheOptions PROVE Sound(<<ReadOption(f)>>, {}, {}, {})
<1>1. Proper(ReadOption(f)) /\ Touches(ReadOption(f)) = {} /\ \A u : u \in {} <=> ReadOption(f) = Make(u)
  BY TouchesAre, Distinct DEF Proper
<1> QED
  BY <1>1, SoundOne

LEMMA SoundInstall == ASSUME NEW t PROVE Sound(<<Install(t)>>, {}, {}, {})
<1>1. Proper(Install(t)) /\ Touches(Install(t)) = {} /\ \A u : u \in {} <=> Install(t) = Make(u)
  BY TouchesAre, Distinct DEF Proper
<1> QED
  BY <1>1, SoundOne

LEMMA SoundNothing == ASSUME NEW M PROVE Sound(<< >>, M, {}, {})
  BY DEF Sound, Once

LEMMA SoundMore ==   \* with more objects before it, a script is as good
  ASSUME NEW s, NEW M, NEW O, NEW K, Sound(s, M, O, K), NEW N, M \subseteq N
  PROVE  Sound(s, N, O, K)
<1>1. \A k \in 1 .. Len(s) : \A x \in Touches(s[k]) : Reachable(s, N, k, Object(x))
  BY DEF Sound, Reachable
<1> QED
  BY <1>1 DEF Sound

(* A sequence written out is its elements joined.                        *)
LEMMA RowOf2 == ASSUME NEW a, NEW b PROVE <<a, b>> = <<a>> \o <<b>>
<1> DEFINE r == <<a>> \o <<b>>
<1>1. r \in Seq({a, b}) /\ Len(r) = 2 /\ r[1] = a /\ r[2] = b
  OBVIOUS
<1> HIDE DEF r
<1>2. r = <<a, b>>
  BY <1>1
<1> QED
  BY <1>2 DEF r
LEMMA RowOf3 == ASSUME NEW a, NEW b, NEW c PROVE <<a, b, c>> = <<a, b>> \o <<c>>
  OBVIOUS
LEMMA RowOf4 == ASSUME NEW a, NEW b, NEW c, NEW d PROVE <<a, b, c, d>> = <<a, b>> \o <<c, d>>
  OBVIOUS
LEMMA RowOf7 == ASSUME NEW a, NEW b, NEW c, NEW d, NEW e, NEW f, NEW g
                PROVE  <<a, b, c, d, e, f, g>> = <<a, b, c>> \o <<d, e, f, g>>
  OBVIOUS
LEMMA RowOf5 == ASSUME NEW a, NEW b, NEW c, NEW d, NEW e
                PROVE  <<a, b, c, d, e>> = <<a, b, c>> \o <<d, e>>
  OBVIOUS

(* Steps for each CPU that are sound, and connect ports of their own.    *)
LEMMA SoundEach ==
  ASSUME NEW n \in Nat, NEW steps, NEW M, NEW O, NEW K,
         \A i \in 0 .. n - 1 : Sound(steps[i], M, O[i], K[i]),
         \A i, j \in 0 .. n - 1 : i # j => K[i] \cap K[j] = {}
  PROVE  Sound(ForEachCPU(n, steps), M, All(O, 0 .. n - 1), All(K, 0 .. n - 1))
<1> DEFINE g == CHOOSE f : Unrolls(f, n, steps)
<1>1. Unrolls(g, n, steps)
  BY Unrolled
<1>2. ForEachCPU(n, steps) = g[n]
  BY DEF ForEachCPU, Unrolls
<1> HIDE DEF g
<1>3. \A m \in 0 .. n : g[m] = IF m = 0 THEN << >> ELSE g[m - 1] \o steps[m - 1]
  BY <1>1 DEF Unrolls
<1> DEFINE T(m) == UNION {O[i] : i \in 0 .. m - 1}
           U(m) == UNION {K[i] : i \in 0 .. m - 1}
           S == {m \in Nat : m <= n => Sound(g[m], M, T(m), U(m))}
<1>4. 0 \in S
  <2>1. g[0] = << >>
    <3>1. 0 \in 0 .. n
      OBVIOUS
    <3> QED
      BY <1>3, <3>1
  <2>2. T(0) = {} /\ U(0) = {}
    OBVIOUS
  <2> HIDE DEF T, U
  <2> QED
    BY <2>1, <2>2, SoundNothing
<1>5. ASSUME NEW m \in Nat, m \in S PROVE m + 1 \in S
  <2> SUFFICES ASSUME m + 1 <= n PROVE Sound(g[m + 1], M, T(m + 1), U(m + 1))
    OBVIOUS
  <2>1. g[m + 1] = g[m] \o steps[m]
    <3>1. m + 1 \in 0 .. n /\ m + 1 # 0 /\ (m + 1) - 1 = m
      OBVIOUS
    <3> QED
      BY <1>3, <3>1
  <2>2. T(m + 1) = T(m) \cup O[m] /\ U(m + 1) = U(m) \cup K[m]
    <3>1. 0 .. (m + 1) - 1 = (0 .. m - 1) \cup {m}
      OBVIOUS
    <3> QED
      BY <3>1
  <2>3. Sound(g[m], M, T(m), U(m)) /\ Sound(steps[m], M, O[m], K[m])
    BY <1>5
  <2>4. U(m) \cap K[m] = {}
    <3>1. \A i \in 0 .. m - 1 : K[i] \cap K[m] = {}
      OBVIOUS
    <3> QED
      BY <3>1
  <2>5. M \subseteq M \cup T(m)
    OBVIOUS
  <2> HIDE DEF T, U
  <2> QED
    BY <2>1, <2>2, <2>3, <2>4, <2>5, SoundJoined
<1>6. \A m \in Nat : m \in S => m + 1 \in S
  BY <1>5
<1>7. Nat \subseteq S
  <2> HIDE DEF S
  <2> QED
    BY <1>4, <1>6, Induct
<1>8. Sound(g[n], M, T(n), U(n))
  <2>1. n \in S
    BY <1>7
  <2> HIDE DEF T, U
  <2> QED
    BY <2>1
<1> QED
  BY <1>2, <1>8 DEF All
---------------------------------------------------------------------------
(* What the pieces of the scripts need, make and connect.                *)
LEMMA ObjectIs == \A a, b, c : Object(<<a, b, c>>) = <<a, b>>
  BY DEF Object

(* The kinds of the ports that the scripts connect.                      *)
LEMMA PortKinds ==
  /\ \A a, b : \A c \in {"icache_port", "dcache_port", "itb_walker", "dtb_walker", "mem_side", "int_master", "dma",
                         "master", "default", "system_port"} : RequestPort(<<a, b, c>>)
  /\ \A a, b : \A c \in {"cpu_side", "inst_port", "data_port", "int_slave", "pio", "port", "slave"} :
        ResponsePort(<<a, b, c>>)
  /\ \A bus : ResponsePort(Slave(bus)) /\ RequestPort(Master(bus))
  /\ \A bus : Object(Slave(bus)) = One(bus) /\ Object(Master(bus)) = One(bus)
  /\ \A bus : VectorPort(Slave(bus)) /\ VectorPort(Master(bus))
  BY DEF RequestPort, ResponsePort, Slave, Master, Object, One, VectorPort

(* A port that is connected to a bus, from either side of it, and to a   *)
(* port of its own.                                                      *)
LEMMA SoundToSlave ==
  ASSUME NEW p, RequestPort(p), NEW bus
  PROVE  Sound(<<Bind(p, Slave(bus))>>, {Object(p), One(bus)}, {}, {p})
<1>1. Fits(p, Slave(bus)) /\ VectorPort(Slave(bus)) /\ Object(Slave(bus)) = One(bus)
  BY PortKinds DEF Fits
<1> QED
  BY <1>1, SoundBind

LEMMA SoundToMaster ==
  ASSUME NEW p, ResponsePort(p), NEW bus
  PROVE  Sound(<<Bind(p, Master(bus))>>, {Object(p), One(bus)}, {}, {p})
<1>1. Fits(p, Master(bus)) /\ VectorPort(Master(bus)) /\ Object(Master(bus)) = One(bus)
  BY PortKinds DEF Fits
<1> QED
  BY <1>1, SoundBind

LEMMA SoundDirect ==
  ASSUME NEW p, NEW q, Fits(p, q)
  PROVE  Sound(<<Bind(p, q)>>, {Object(p), Object(q)}, {}, {p, q})
  BY SoundBind

(* A constructor that reads its size.                                    *)
LEMMA SoundSized == ASSUME NEW o, NEW f \in CacheOptions PROVE Sound(<<Make(o), ReadOption(f)>>, {}, {o}, {})
<1>1. Sound(<<Make(o)>>, {}, {o}, {}) /\ Sound(<<ReadOption(f)>>, {}, {}, {})
  BY SoundMake, SoundOption
<1>2. Sound(<<Make(o)>> \o <<ReadOption(f)>>, {}, {o} \cup {}, {} \cup {})
  BY <1>1, SoundJoined
<1>3. {o} \cup {} = {o} /\ {} \cup {} = {}
  OBVIOUS
<1> QED
  BY <1>2, <1>3, RowOf2

(* Two and three statements in a row.                                    *)
LEMMA SoundRow2 ==
  ASSUME NEW x, NEW y, NEW M, NEW O1, NEW K1, NEW O2, NEW K2,
         Sound(<<x>>, M, O1, K1), Sound(<<y>>, M \cup O1, O2, K2), K1 \cap K2 = {}
  PROVE  Sound(<<x, y>>, M, O1 \cup O2, K1 \cup K2)
<1>1. Sound(<<x>> \o <<y>>, M, O1 \cup O2, K1 \cup K2)
  BY SoundJoined
<1> QED
  BY <1>1, RowOf2

LEMMA SoundRow3 ==
  ASSUME NEW x, NEW y, NEW z, NEW M, NEW O, NEW K1, NEW K2, NEW K3,
         Sound(<<x>>, M, O, K1), Sound(<<y>>, M \cup O, {}, K2), Sound(<<z>>, M \cup O, {}, K3),
         K1 \cap K2 = {}, (K1 \cup K2) \cap K3 = {}
  PROVE  Sound(<<x, y, z>>, M, O, K1 \cup K2 \cup K3)
<1>1. Sound(<<x, y>>, M, O \cup {}, K1 \cup K2)
  BY SoundRow2
<1>2. O \cup {} = O /\ M \cup O \subseteq M \cup O
  OBVIOUS
<1>3. Sound(<<x, y>> \o <<z>>, M, O \cup {}, K1 \cup K2 \cup K3)
  BY <1>1, <1>2, SoundJoined
<1> QED
  BY <1>2, <1>3, RowOf3

InterruptPorts(i) == {<<"interrupts", i, "pio">>, <<"interrupts", i, "int_master">>, <<"interrupts", i, "int_slave">>}

(* The three wires of an interrupt controller need it and the bus.       *)
LEMMA SoundInterrupts ==
  ASSUME NEW i, NEW bus
  PROVE  Sound(WireInterrupts(i, bus), {<<"interrupts", i>>, One(bus)}, {}, InterruptPorts(i))
<1>1. PICK p, m, s : p = <<"interrupts", i, "pio">> /\ m = <<"interrupts", i, "int_master">>
                     /\ s = <<"interrupts", i, "int_slave">>
  OBVIOUS
<1>2. /\ ResponsePort(p) /\ RequestPort(m) /\ ResponsePort(s)
      /\ Object(p) = <<"interrupts", i>> /\ Object(m) = <<"interrupts", i>> /\ Object(s) = <<"interrupts", i>>
      /\ p # m /\ p # s /\ m # s
  BY <1>1, PortKinds, ObjectIs
<1>3. PICK M : M = {<<"interrupts", i>>, One(bus)}
  OBVIOUS
<1>4. Sound(<<Bind(p, Master(bus))>>, M, {}, {p}) /\ Sound(<<Bind(m, Slave(bus))>>, M, {}, {m})
      /\ Sound(<<Bind(s, Master(bus))>>, M, {}, {s})
  BY <1>2, <1>3, SoundToSlave, SoundToMaster
<1>5. M \cup {} = M /\ {p} \cap {m} = {} /\ ({p} \cup {m}) \cap {s} = {}
  BY <1>2
<1>6. Sound(<<Bind(p, Master(bus)), Bind(m, Slave(bus)), Bind(s, Master(bus))>>, M, {}, {p} \cup {m} \cup {s})
  BY <1>4, <1>5, SoundRow3
<1>7. InterruptPorts(i) = {p} \cup {m} \cup {s}
  BY <1>1 DEF InterruptPorts
<1> QED
  BY <1>1, <1>3, <1>6, <1>7 DEF WireInterrupts

(* The memory controller is made before it is connected.                 *)
LEMMA SoundMemory ==
  ASSUME NEW bus
  PROVE  Sound(Memory(bus), {One(bus)}, {One("mem_ctrl")}, {<<"mem_ctrl", 0, "port">>})
<1>1. PICK p, M, O : p = <<"mem_ctrl", 0, "port">> /\ M = {One(bus)} /\ O = {One("mem_ctrl")}
  OBVIOUS
<1>2. ResponsePort(p) /\ Object(p) = One("mem_ctrl")
  BY <1>1, PortKinds, ObjectIs DEF One
<1>3. Sound(<<Make(One("mem_ctrl"))>>, M, O, {})
  <2>1. {} \subseteq M
    OBVIOUS
  <2> QED
    BY <1>1, <2>1, SoundMake, SoundMore
<1>4. Sound(<<Bind(p, Master(bus))>>, M \cup O, {}, {p})
  <2>1. {Object(p), One(bus)} \subseteq M \cup O
    BY <1>1, <1>2
  <2>2. Sound(<<Bind(p, Master(bus))>>, {Object(p), One(bus)}, {}, {p})
    BY <1>2, SoundToMaster
  <2> QED
    BY <2>1, <2>2, SoundMore
<1>5. Sound(<<Make(One("mem_ctrl")), Bind(p, Master(bus))>>, M, O \cup {}, {} \cup {p})
  <2>1. {} \cap {p} = {}
    OBVIOUS
  <2> QED
    BY <1>3, <1>4, <2>1, SoundRow2
<1>6. O \cup {} = O /\ {} \cup {p} = {p}
  OBVIOUS
<1> QED
  BY <1>1, <1>5, <1>6 DEF Memory

(* The small pieces that the scripts share.                              *)
LEMMA SoundPieces ==
  /\ \A i : Sound(L1ICache(i), {}, {<<"icache", i>>}, {})
  /\ \A i : Sound(L1DCache(i), {}, {<<"dcache", i>>}, {})
  /\ Sound(L2Cache, {}, {One("l2cache")}, {})
  /\ \A i : Sound(ConnectICacheCPU(i), {<<"icache", i>>, <<"cpu", i>>}, {},
                  {<<"icache", i, "cpu_side">>, <<"cpu", i, "icache_port">>})
  /\ \A i : Sound(ConnectDCacheCPU(i), {<<"dcache", i>>, <<"cpu", i>>}, {},
                  {<<"dcache", i, "cpu_side">>, <<"cpu", i, "dcache_port">>})
  /\ \A c, i, bus : Sound(ConnectBus(c, i, bus), {<<c, i>>, One(bus)}, {}, {<<c, i, "mem_side">>})
  /\ \A bus : Sound(ConnectCPUSideBus(bus), {One("l2cache"), One(bus)}, {}, {<<"l2cache", 0, "cpu_side">>})
  /\ \A bus : Sound(ConnectMemSideBus(bus), {One("l2cache"), One(bus)}, {}, {<<"l2cache", 0, "mem_side">>})
  /\ \A i : Sound(CreateInterrupts(i), {}, {<<"interrupts", i>>}, {})
  /\ \A bus : Sound(SystemPort(bus), {One("system"), One(bus)}, {}, {<<"system", 0, "system_port">>})
<1>1. {"l1i_size", "l1d_size", "l2_size"} \subseteq CacheOptions
  BY DEF CacheOptions
<1>2. \A i : Sound(L1ICache(i), {}, {<<"icache", i>>}, {})
  BY <1>1, SoundSized DEF L1ICache
<1>3. \A i : Sound(L1DCache(i), {}, {<<"dcache", i>>}, {})
  BY <1>1, SoundSized DEF L1DCache
<1>4. Sound(L2Cache, {}, {One("l2cache")}, {})
  BY <1>1, SoundSized DEF L2Cache
<1>5. \A i : Sound(ConnectICacheCPU(i), {<<"icache", i>>, <<"cpu", i>>}, {},
                   {<<"icache", i, "cpu_side">>, <<"cpu", i, "icache_port">>})
  <2> TAKE i
  <2>1. PICK p, q : p = <<"icache", i, "cpu_side">> /\ q = <<"cpu", i, "icache_port">>
    OBVIOUS
  <2>2. Fits(p, q) /\ Object(p) = <<"icache", i>> /\ Object(q) = <<"cpu", i>>
    BY <2>1, PortKinds, ObjectIs DEF Fits
  <2> QED
    BY <2>1, <2>2, SoundDirect DEF ConnectICacheCPU
<1>6. \A i : Sound(ConnectDCacheCPU(i), {<<"dcache", i>>, <<"cpu", i>>}, {},
                   {<<"dcache", i, "cpu_side">>, <<"cpu", i, "dcache_port">>})
  <2> TAKE i
  <2>1. PICK p, q : p = <<"dcache", i, "cpu_side">> /\ q = <<"cpu", i, "dcache_port">>
    OBVIOUS
  <2>2. Fits(p, q) /\ Object(p) = <<"dcache", i>> /\ Object(q) = <<"cpu", i>>
    BY <2>1, PortKinds, ObjectIs DEF Fits
  <2> QED
    BY <2>1, <2>2, SoundDirect DEF ConnectDCacheCPU
<1>7. \A c, i, bus : Sound(ConnectBus(c, i, bus), {<<c, i>>, One(bus)}, {}, {<<c, i, "mem_side">>})
  <2> TAKE c, i, bus
  <2>1. PICK p : p = <<c, i, "mem_side">>
    OBVIOUS
  <2>2. RequestPort(p) /\ Object(p) = <<c, i>>
    BY <2>1, PortKinds, ObjectIs
  <2> QED
    BY <2>1, <2>2, SoundToSlave DEF ConnectBus
<1>8. \A bus : Sound(ConnectCPUSideBus(bus), {One("l2cache"), One(bus)}, {}, {<<"l2cache", 0, "cpu_side">>})
  <2> TAKE bus
  <2>1. PICK p : p = <<"l2cache", 0, "cpu_side">>
    OBVIOUS
  <2>2. ResponsePort(p) /\ Object(p) = One("l2cache")
    BY <2>1, PortKinds, ObjectIs DEF One
  <2> QED
    BY <2>1, <2>2, SoundToMaster DEF ConnectCPUSideBus
<1>9. \A bus : Sound(ConnectMemSideBus(bus), {One("l2cache"), One(bus)}, {}, {<<"l2cache", 0, "mem_side">>})
  <2> TAKE bus
  <2>1. PICK p : p = <<"l2cache", 0, "mem_side">>
    OBVIOUS
  <2>2. RequestPort(p) /\ Object(p) = One("l2cache")
    BY <2>1, PortKinds, ObjectIs DEF One
  <2> QED
    BY <2>1, <2>2, SoundToSlave DEF ConnectMemSideBus
<1>10. \A i : Sound(CreateInterrupts(i), {}, {<<"interrupts", i>>}, {})
  BY SoundMake DEF CreateInterrupts
<1>11. \A bus : Sound(SystemPort(bus), {One("system"), One(bus)}, {}, {<<"system", 0, "system_port">>})
  <2> TAKE bus
  <2>1. PICK p : p = <<"system", 0, "system_port">>
    OBVIOUS
  <2>2. RequestPort(p) /\ Object(p) = One("system")
    BY <2>1, PortKinds, ObjectIs DEF One
  <2> QED
    BY <2>1, <2>2, SoundToSlave DEF SystemPort
<1> QED
  BY <1>2, <1>3, <1>4, <1>5, <1>6, <1>7, <1>8, <1>9, <1>10, <1>11
---------------------------------------------------------------------------
(* The rows of statements at the beginning of the scripts.               *)
LEMMA SoundMakes ==
  ASSUME NEW a, NEW b, NEW c
  PROVE  /\ Sound(<<Make(a), Make(b)>>, {}, {a, b}, {})
         /\ Sound(<<Make(a), Make(b), Make(c)>>, {}, {a, b, c}, {})
<1>1. Sound(<<Make(a)>>, {}, {a}, {}) /\ Sound(<<Make(b)>>, {} \cup {a}, {b}, {}) /\ Sound(<<Make(c)>>, {}, {c}, {})
  <2>1. Sound(<<Make(b)>>, {}, {b}, {}) /\ {} \subseteq {} \cup {a}
    BY SoundMake
  <2> QED
    BY <2>1, SoundMake, SoundMore
<1>2. Sound(<<Make(a), Make(b)>>, {}, {a} \cup {b}, {} \cup {})
  <2>1. {} \cap {} = {}
    OBVIOUS
  <2> QED
    BY <1>1, <2>1, SoundRow2
<1>3. {a} \cup {b} = {a, b} /\ {} \cup {} = {} /\ {} \cap {} = {} /\ {} \subseteq {} \cup {a, b}
  OBVIOUS
<1>4. Sound(<<Make(a), Make(b)>>, {}, {a, b}, {})
  BY <1>2, <1>3
<1>5. Sound(<<Make(a), Make(b)>> \o <<Make(c)>>, {}, {a, b} \cup {c}, {} \cup {})
  BY <1>1, <1>3, <1>4, SoundJoined
<1>6. {a, b} \cup {c} = {a, b, c}
  OBVIOUS
<1> QED
  BY <1>3, <1>4, <1>5, <1>6, RowOf3

(* A script followed by one that makes nothing, or by one that needs     *)
(* nothing.                                                              *)
LEMMA SoundBinds ==
  ASSUME NEW s, NEW O, NEW K1, Sound(s, {}, O, K1), NEW t, NEW N, NEW K2, Sound(t, N, {}, K2),
         N \subseteq O, K1 \cap K2 = {}
  PROVE  Sound(s \o t, {}, O, K1 \cup K2)
<1>1. Sound(s \o t, {}, O \cup {}, K1 \cup K2)
  <2>1. N \subseteq {} \cup O
    OBVIOUS
  <2> QED
    BY <2>1, SoundJoined
<1>2. O \cup {} = O
  OBVIOUS
<1> QED
  BY <1>1, <1>2

(* A script followed by one that makes objects; two connections in a     *)
(* row.                                                                  *)
LEMMA SoundCreates ==
  ASSUME NEW s, NEW M, NEW O, NEW K, Sound(s, M, O, K), NEW t, NEW P, Sound(t, {}, P, {})
  PROVE  Sound(s \o t, M, O \cup P, K)
<1>1. Sound(s \o t, M, O \cup P, K \cup {})
  <2>1. {} \subseteq M \cup O /\ K \cap {} = {}
    OBVIOUS
  <2> QED
    BY <2>1, SoundJoined
<1>2. K \cup {} = K
  OBVIOUS
<1> QED
  BY <1>1, <1>2

LEMMA SoundBinds2 ==
  ASSUME NEW x, NEW y, NEW M, NEW N1, NEW N2, NEW K1, NEW K2,
         Sound(<<x>>, N1, {}, K1), Sound(<<y>>, N2, {}, K2), N1 \subseteq M, N2 \subseteq M, K1 \cap K2 = {}
  PROVE  Sound(<<x, y>>, M, {}, K1 \cup K2)
<1>1. Sound(<<x>>, M, {}, K1)
  BY SoundMore
<1>2. Sound(<<y>>, M, {}, K2)
  BY SoundMore
<1>3. M \cup {} = M /\ {} \cup {} = {}
  OBVIOUS
<1>4. Sound(<<x, y>>, M, {} \cup {}, K1 \cup K2)
  BY <1>1, <1>2, <1>3, SoundRow2
<1> QED
  BY <1>3, <1>4

CPUPorts == {<<"cpu", 0, "icache_port">>, <<"cpu", 0, "dcache_port">>}
StartObjects == {One("system"), <<"cpu", 0>>, One("membus")}
LateObjects == {<<"interrupts", 0>>, One("mem_ctrl")}
LatePorts == InterruptPorts(0) \cup {<<"mem_ctrl", 0, "port">>, <<"system", 0, "system_port">>}

(* The statements about interrupts that are there only for x86.          *)
LEMMA SoundWired == ASSUME NEW isa
                    PROVE  Sound(IF isa = "x86" THEN WireInterrupts(0, "membus") ELSE << >>,
                                 {<<"interrupts", 0>>, One("membus")}, {}, InterruptPorts(0))
<1> DEFINE M == {<<"interrupts", 0>>, One("membus")}
<1>1. Sound(WireInterrupts(0, "membus"), M, {}, InterruptPorts(0))
  BY SoundInterrupts
<1>2. Sound(<< >>, M, {}, InterruptPorts(0))
  BY DEF Sound, Once
<1> QED
  BY <1>1, <1>2

(* The end of the scripts with a memory bus only: interrupts, memory and *)
(* system port.                                                          *)
LEMMA SoundLate ==
  ASSUME NEW s, NEW O, NEW K, Sound(s, {}, O, K), {One("system"), One("membus")} \subseteq O, K \cap LatePorts = {},
         NEW w, Sound(w, {<<"interrupts", 0>>, One("membus")}, {}, InterruptPorts(0))
  PROVE  Sound(s \o CreateInterrupts(0) \o w \o Memory("membus") \o SystemPort("membus"), {}, O \cup LateObjects,
               K \cup LatePorts)
<1>1. PICK I, m, p : I = {<<"interrupts", 0>>} /\ m = {<<"mem_ctrl", 0, "port">>} /\ p = {<<"system", 0, "system_port">>}
  OBVIOUS
<1>2. /\ K \cap InterruptPorts(0) = {} /\ (K \cup InterruptPorts(0)) \cap m = {}
      /\ (K \cup InterruptPorts(0) \cup m) \cap p = {}
  BY <1>1 DEF LatePorts, InterruptPorts
<1>3. Sound(s \o CreateInterrupts(0), {}, O \cup I, K)
  BY <1>1, SoundPieces, SoundCreates
<1>4. Sound(s \o CreateInterrupts(0) \o w, {}, O \cup I, K \cup InterruptPorts(0))
  <2>1. {<<"interrupts", 0>>, One("membus")} \subseteq O \cup I
    BY <1>1
  <2> QED
    BY <1>2, <1>3, <2>1, SoundBinds
<1>5. Sound(s \o CreateInterrupts(0) \o w \o Memory("membus"), {}, O \cup I \cup {One("mem_ctrl")},
            K \cup InterruptPorts(0) \cup m)
  <2>1. {One("membus")} \subseteq {} \cup (O \cup I)
    OBVIOUS
  <2>2. Sound(Memory("membus"), {One("membus")}, {One("mem_ctrl")}, m)
    BY <1>1, SoundMemory
  <2> QED
    BY <1>2, <1>4, <2>1, <2>2, SoundJoined
<1>6. Sound(s \o CreateInterrupts(0) \o w \o Memory("membus") \o SystemPort("membus"), {},
            O \cup I \cup {One("mem_ctrl")}, K \cup InterruptPorts(0) \cup m \cup p)
  <2>1. {One("system"), One("membus")} \subseteq O \cup I \cup {One("mem_ctrl")}
    OBVIOUS
  <2>2. Sound(SystemPort("membus"), {One("system"), One("membus")}, {}, p)
    BY <1>1, SoundPieces
  <2> QED
    BY <1>2, <1>5, <2>1, <2>2, SoundBinds
<1>7. O \cup I \cup {One("mem_ctrl")} = O \cup LateObjects
  BY <1>1 DEF LateObjects
<1>8. K \cup InterruptPorts(0) \cup m \cup p = K \cup LatePorts
  BY <1>1 DEF LatePorts
<1> QED
  BY <1>6, <1>7, <1>8

(* simple.py.                                                            *)
LEMMA SoundSimple ==
  ASSUME NEW isa
  PROVE  Sound(Simple(isa), {}, StartObjects \cup LateObjects, CPUPorts \cup LatePorts)
<1>1. PICK a, b, p, q : /\ a = <<Make(One("system")), Make(<<"cpu", 0>>), Make(One("membus"))>>
                        /\ p = <<"cpu", 0, "icache_port">> /\ q = <<"cpu", 0, "dcache_port">>
                        /\ b = <<Bind(p, Slave("membus")), Bind(q, Slave("membus"))>>
  OBVIOUS
<1>2. Sound(a, {}, StartObjects, {})
  BY <1>1, SoundMakes DEF StartObjects
<1>3. /\ RequestPort(p) /\ RequestPort(q) /\ Object(p) = <<"cpu", 0>> /\ Object(q) = <<"cpu", 0>>
      /\ {p} \cup {q} = CPUPorts /\ {p} \cap {q} = {}
  <2>1. RequestPort(p) /\ RequestPort(q)
    BY <1>1, PortKinds
  <2>2. Object(p) = <<"cpu", 0>> /\ Object(q) = <<"cpu", 0>>
    BY <1>1, ObjectIs
  <2>3. {p} \cup {q} = CPUPorts /\ {p} \cap {q} = {}
    BY <1>1 DEF CPUPorts
  <2> QED
    BY <2>1, <2>2, <2>3
<1>4. Sound(b, StartObjects, {}, CPUPorts)
  <2>1. /\ Sound(<<Bind(p, Slave("membus"))>>, {Object(p), One("membus")}, {}, {p})
        /\ Sound(<<Bind(q, Slave("membus"))>>, {Object(q), One("membus")}, {}, {q})
    BY <1>3, SoundToSlave
  <2>2. {Object(p), One("membus")} \subseteq StartObjects /\ {Object(q), One("membus")} \subseteq StartObjects
    BY <1>3 DEF StartObjects
  <2>3. Sound(b, StartObjects, {}, {p} \cup {q})
    BY <1>1, <1>3, <2>1, <2>2, SoundBinds2
  <2> QED
    BY <1>3, <2>3
<1>5. Sound(a \o b, {}, StartObjects, CPUPorts)
  <2>1. {} \cup CPUPorts = CPUPorts /\ {} \cap CPUPorts = {} /\ StartObjects \subseteq StartObjects
    OBVIOUS
  <2>2. Sound(a \o b, {}, StartObjects, {} \cup CPUPorts)
    BY <1>2, <1>4, <2>1, SoundBinds
  <2> QED
    BY <2>1, <2>2
<1>6. CPUPorts \cap LatePorts = {} /\ {One("system"), One("membus")} \subseteq StartObjects
  BY DEF CPUPorts, LatePorts, InterruptPorts, StartObjects
<1>7. PICK w : w = IF isa = "x86" THEN WireInterrupts(0, "membus") ELSE << >>
  OBVIOUS
<1>8. Sound(w, {<<"interrupts", 0>>, One("membus")}, {}, InterruptPorts(0))
  BY <1>7, SoundWired
<1>9. Sound(a \o b \o CreateInterrupts(0) \o w \o Memory("membus") \o SystemPort("membus"), {},
            StartObjects \cup LateObjects, CPUPorts \cup LatePorts)
  BY <1>5, <1>6, <1>8, SoundLate
<1>10. Simple(isa) = a \o b \o CreateInterrupts(0) \o w \o Memory("membus") \o SystemPort("membus")
  <2>1. PICK x1, x2, x3, x4, x5 :
           /\ x1 = Make(One("system")) /\ x2 = Make(<<"cpu", 0>>) /\ x3 = Make(One("membus"))
           /\ x4 = Bind(p, Slave("membus")) /\ x5 = Bind(q, Slave("membus"))
    OBVIOUS
  <2>2. <<x1, x2, x3, x4, x5>> = <<x1, x2, x3>> \o <<x4, x5>>
    BY RowOf5
  <2>3. a = <<x1, x2, x3>> /\ b = <<x4, x5>>
    BY <1>1, <2>1
  <2>4. <<x1, x2, x3, x4, x5>> = a \o b
    BY <2>2, <2>3
  <2>5. Simple(isa) = <<x1, x2, x3, x4, x5>> \o CreateInterrupts(0) \o w \o Memory("membus") \o SystemPort("membus")
    BY <1>1, <1>7, <2>1 DEF Simple
  <2> QED
    BY <2>4, <2>5
<1> QED
  BY <1>9, <1>10

(* A statement that makes an object, before a script that needs it.      *)
LEMMA SoundMakesOne ==
  ASSUME NEW o, NEW y, NEW M, NEW N, NEW K, Sound(<<y>>, N, {}, K), N \subseteq M \cup {o}
  PROVE  Sound(<<Make(o), y>>, M, {o}, K)
<1>1. Sound(<<Make(o)>>, M, {o}, {})
  <2>1. {} \subseteq M
    OBVIOUS
  <2> QED
    BY <2>1, SoundMake, SoundMore
<1>2. Sound(<<y>>, M \cup {o}, {}, K)
  BY SoundMore
<1>3. Sound(<<Make(o), y>>, M, {o} \cup {}, {} \cup K)
  <2>1. {} \cap K = {}
    OBVIOUS
  <2> QED
    BY <1>1, <1>2, <2>1, SoundRow2
<1>4. {o} \cup {} = {o} /\ {} \cup K = K
  OBVIOUS
<1> QED
  BY <1>3, <1>4

(* Scripts one after the other; O and K name what they make and connect. *)
LEMMA SoundNext ==
  ASSUME NEW s, NEW M, NEW O1, NEW K1, Sound(s, M, O1, K1), NEW t, NEW N, NEW O2, NEW K2, Sound(t, N, O2, K2),
         N \subseteq M \cup O1, K1 \cap K2 = {}, NEW O, O = O1 \cup O2, NEW K, K = K1 \cup K2
  PROVE  Sound(s \o t, M, O, K)
  BY SoundJoined

(* Rows of three, two and two statements.                                *)
LEMMA SoundRow7 ==
  ASSUME NEW x1, NEW x2, NEW x3, NEW x4, NEW x5, NEW x6, NEW x7,
         NEW M, NEW N1, NEW N2, NEW O1, NEW O2, NEW O3, NEW K1, NEW K2, NEW K3,
         Sound(<<x1, x2, x3>>, M, O1, K1), Sound(<<x4, x5>>, N1, O2, K2), Sound(<<x6, x7>>, N2, O3, K3),
         N1 \subseteq M \cup O1, N2 \subseteq M \cup O1 \cup O2, K2 \cap K3 = {}, K1 \cap (K2 \cup K3) = {}
  PROVE  Sound(<<x1, x2, x3, x4, x5, x6, x7>>, M, O1 \cup O2 \cup O3, K1 \cup K2 \cup K3)
<1>1. PICK a, b, c, d, R : a = <<x1, x2, x3>> /\ b = <<x4, x5>> /\ c = <<x6, x7>> /\ d = <<x4, x5, x6, x7>>
                           /\ R = M \cup O1
  OBVIOUS
<1>2. d = b \o c /\ <<x1, x2, x3, x4, x5, x6, x7>> = a \o d
  <2>1. <<x4, x5, x6, x7>> = <<x4, x5>> \o <<x6, x7>>
    BY RowOf4
  <2>2. <<x1, x2, x3, x4, x5, x6, x7>> = <<x1, x2, x3>> \o <<x4, x5, x6, x7>>
    BY RowOf7
  <2> QED
    BY <1>1, <2>1, <2>2
<1>3. Sound(b, R, O2, K2)
  BY <1>1, SoundMore
<1>4. Sound(c, N2, O3, K3) /\ N2 \subseteq R \cup O2
  BY <1>1
<1>5. Sound(d, R, O2 \cup O3, K2 \cup K3)
  BY <1>2, <1>3, <1>4, SoundJoined
<1>6. Sound(a, M, O1, K1) /\ R \subseteq M \cup O1
  BY <1>1
<1>7. O1 \cup O2 \cup O3 = O1 \cup (O2 \cup O3) /\ K1 \cup K2 \cup K3 = K1 \cup (K2 \cup K3)
  OBVIOUS
<1>8. Sound(a \o d, M, O1 \cup O2 \cup O3, K1 \cup K2 \cup K3)
  BY <1>5, <1>6, <1>7, SoundNext
<1> QED
  BY <1>2, <1>8

MemobjObjects == {One("system"), <<"cpu", 0>>, One("memobj"), One("membus")}
MemobjPorts == CPUPorts \cup {<<"memobj", 0, "inst_port">>, <<"memobj", 0, "data_port">>, <<"memobj", 0, "mem_side">>}

(* simple_memobj.py.                                                     *)
LEMMA SoundMemobj == Sound(SimpleMemobjScript, {}, MemobjObjects \cup LateObjects, MemobjPorts \cup LatePorts)
<1>1. PICK p, q, i, d, m : /\ p = <<"cpu", 0, "icache_port">> /\ q = <<"cpu", 0, "dcache_port">>
                           /\ i = <<"memobj", 0, "inst_port">> /\ d = <<"memobj", 0, "data_port">>
                           /\ m = <<"memobj", 0, "mem_side">>
  OBVIOUS
<1>2. PICK s, c, o, u : s = One("system") /\ c = <<"cpu", 0>> /\ o = One("memobj") /\ u = One("membus")
  OBVIOUS
<1>3. RequestPort(p) /\ RequestPort(q) /\ ResponsePort(i) /\ ResponsePort(d) /\ RequestPort(m)
  BY <1>1, PortKinds
<1>4. Object(p) = c /\ Object(q) = c /\ Object(i) = o /\ Object(d) = o /\ Object(m) = o
  BY <1>1, <1>2, ObjectIs DEF One
<1>5. {p, i} \cap {q, d} = {} /\ ({p, i} \cup {q, d}) \cap {m} = {}
      /\ ({p, i} \cup {q, d}) \cup {m} = MemobjPorts
  BY <1>1 DEF MemobjPorts, CPUPorts
<1>6. PICK x4, x5, x6, x7 : x4 = Bind(p, i) /\ x5 = Bind(q, d) /\ x6 = Make(u) /\ x7 = Bind(m, Slave("membus"))
  OBVIOUS
<1>7. Sound(<<x4, x5>>, {c, o}, {}, {p, i} \cup {q, d})
  <2>1. Sound(<<x4>>, {c, o}, {}, {p, i}) /\ Sound(<<x5>>, {c, o}, {}, {q, d})
    BY <1>3, <1>4, <1>6, SoundDirect DEF Fits
  <2>2. {c, o} \subseteq {c, o}
    OBVIOUS
  <2> QED
    BY <1>5, <2>1, <2>2, SoundBinds2
<1>8. Sound(<<x6, x7>>, {o}, {u}, {m})
  <2>1. Sound(<<x7>>, {o, u}, {}, {m}) /\ {o, u} \subseteq {o} \cup {u}
    BY <1>2, <1>3, <1>4, <1>6, SoundToSlave
  <2> QED
    BY <1>6, <2>1, SoundMakesOne
<1>9. PICK a : a = <<Make(s), Make(c), Make(o), x4, x5, x6, x7>>
  OBVIOUS
<1>10. Sound(a, {}, {s, c, o} \cup {} \cup {u}, ({p, i} \cup {q, d}) \cup {m})
  <2>1. PICK M, N1, N2, O1, O2, O3, K1, K2, K3 :
           /\ M = {} /\ N1 = {c, o} /\ N2 = {o} /\ O1 = {s, c, o} /\ O2 = {} /\ O3 = {u}
           /\ K1 = {} /\ K2 = {p, i} \cup {q, d} /\ K3 = {m}
    OBVIOUS
  <2>2. PICK x1, x2, x3 : x1 = Make(s) /\ x2 = Make(c) /\ x3 = Make(o)
    OBVIOUS
  <2>3. Sound(<<x1, x2, x3>>, M, O1, K1)
    BY <2>1, <2>2, SoundMakes
  <2>4. Sound(<<x4, x5>>, N1, O2, K2) /\ Sound(<<x6, x7>>, N2, O3, K3)
    BY <1>7, <1>8, <2>1
  <2>5. N1 \subseteq M \cup O1 /\ N2 \subseteq M \cup O1 \cup O2 /\ K2 \cap K3 = {} /\ K1 \cap (K2 \cup K3) = {}
    BY <1>5, <2>1
  <2>6. Sound(<<x1, x2, x3, x4, x5, x6, x7>>, M, O1 \cup O2 \cup O3, K1 \cup K2 \cup K3)
    BY <2>3, <2>4, <2>5, SoundRow7
  <2>7. K1 \cup K2 \cup K3 = {p, i} \cup {q, d} \cup {m}
    BY <2>1
  <2>8. Sound(a, {}, O1 \cup O2 \cup O3, K1 \cup K2 \cup K3)
    BY <1>9, <2>1, <2>2, <2>6
  <2> QED
    BY <2>1, <2>7, <2>8
<1>11. {s, c, o} \cup {} \cup {u} = MemobjObjects
  BY <1>2 DEF MemobjObjects
<1>12. Sound(a, {}, MemobjObjects, MemobjPorts)
  BY <1>5, <1>10, <1>11
<1>13. MemobjPorts \cap LatePorts = {} /\ {One("system"), One("membus")} \subseteq MemobjObjects
  BY DEF CPUPorts, MemobjPorts, LatePorts, InterruptPorts, MemobjObjects
<1>14. Sound(a \o CreateInterrupts(0) \o WireInterrupts(0, "membus") \o Memory("membus") \o SystemPort("membus"), {},
             MemobjObjects \cup LateObjects, MemobjPorts \cup LatePorts)
  BY <1>12, <1>13, SoundInterrupts, SoundLate
<1> QED
  BY <1>1, <1>2, <1>6, <1>9, <1>14 DEF SimpleMemobjScript

SimpleCacheObjects == {One("system"), <<"cpu", 0>>, One("membus"), One("cache")}
SimpleCacheOwnPorts == CPUPorts \cup {<<"cache", 0, "mem_side">>}

(* simple_cache.py: both ports of the CPU go to the vector port.         *)
LEMMA SoundSimpleCache ==
  Sound(SimpleCacheScript, {}, SimpleCacheObjects \cup LateObjects, SimpleCacheOwnPorts \cup LatePorts)
<1>1. PICK p, q, v, m : /\ p = <<"cpu", 0, "icache_port">> /\ q = <<"cpu", 0, "dcache_port">>
                        /\ v = <<"cache", 0, "cpu_side">> /\ m = <<"cache", 0, "mem_side">>
  OBVIOUS
<1>2. PICK s, c, o, u : s = One("system") /\ c = <<"cpu", 0>> /\ o = One("cache") /\ u = One("membus")
  OBVIOUS
<1>3. RequestPort(p) /\ RequestPort(q) /\ ResponsePort(v) /\ RequestPort(m)
  BY <1>1, PortKinds
<1>4. Object(p) = c /\ Object(q) = c /\ Object(v) = o /\ Object(m) = o /\ VectorPort(v)
  BY <1>1, <1>2, ObjectIs DEF One, VectorPort, SimpleCacheVector
<1>5. {q} \cap {m} = {} /\ {p} \cap ({q} \cup {m}) = {} /\ {p} \cup ({q} \cup {m}) = SimpleCacheOwnPorts
  BY <1>1 DEF SimpleCacheOwnPorts, CPUPorts
<1>6. PICK x4, x5, x6, x7 : x4 = Make(o) /\ x5 = Bind(p, v) /\ x6 = Bind(q, v) /\ x7 = Bind(m, Slave("membus"))
  OBVIOUS
<1>7. Sound(<<x4, x5>>, {c}, {o}, {p})
  <2>1. Sound(<<x5>>, {c, o}, {}, {p}) /\ {c, o} \subseteq {c} \cup {o}
    BY <1>3, <1>4, <1>6, SoundBind DEF Fits
  <2> QED
    BY <1>6, <2>1, SoundMakesOne
<1>8. Sound(<<x6, x7>>, {c, o, u}, {}, {q} \cup {m})
  <2>1. Sound(<<x6>>, {c, o}, {}, {q})
    BY <1>3, <1>4, <1>6, SoundBind DEF Fits
  <2>2. Sound(<<x7>>, {o, u}, {}, {m})
    BY <1>2, <1>3, <1>4, <1>6, SoundToSlave
  <2>3. PICK M, N1, N2, K1, K2 : M = {c, o, u} /\ N1 = {c, o} /\ N2 = {o, u} /\ K1 = {q} /\ K2 = {m}
    OBVIOUS
  <2>4. N1 \subseteq M /\ N2 \subseteq M /\ K1 \cap K2 = {}
    BY <1>5, <2>3
  <2>5. Sound(<<x6>>, N1, {}, K1) /\ Sound(<<x7>>, N2, {}, K2)
    BY <2>1, <2>2, <2>3
  <2>6. Sound(<<x6, x7>>, M, {}, K1 \cup K2)
    BY <2>4, <2>5, SoundBinds2
  <2> QED
    BY <2>3, <2>6
<1>9. PICK a : a = <<Make(s), Make(c), Make(u), x4, x5, x6, x7>>
  OBVIOUS
<1>10. Sound(a, {}, {s, c, u} \cup {o} \cup {}, {p} \cup ({q} \cup {m}))
  <2>1. PICK M, N1, N2, O1, O2, O3, K1, K2, K3 :
           /\ M = {} /\ N1 = {c} /\ N2 = {c, o, u} /\ O1 = {s, c, u} /\ O2 = {o} /\ O3 = {}
           /\ K1 = {} /\ K2 = {p} /\ K3 = {q} \cup {m}
    OBVIOUS
  <2>2. PICK x1, x2, x3 : x1 = Make(s) /\ x2 = Make(c) /\ x3 = Make(u)
    OBVIOUS
  <2>3. Sound(<<x1, x2, x3>>, M, O1, K1)
    BY <2>1, <2>2, SoundMakes
  <2>4. Sound(<<x4, x5>>, N1, O2, K2) /\ Sound(<<x6, x7>>, N2, O3, K3)
    BY <1>7, <1>8, <2>1
  <2>5. N1 \subseteq M \cup O1 /\ N2 \subseteq M \cup O1 \cup O2 /\ K2 \cap K3 = {} /\ K1 \cap (K2 \cup K3) = {}
    BY <1>5, <2>1
  <2>6. Sound(<<x1, x2, x3, x4, x5, x6, x7>>, M, O1 \cup O2 \cup O3, K1 \cup K2 \cup K3)
    BY <2>3, <2>4, <2>5, SoundRow7
  <2>7. K1 \cup K2 \cup K3 = {p} \cup ({q} \cup {m})
    BY <2>1
  <2>8. Sound(a, {}, O1 \cup O2 \cup O3, K1 \cup K2 \cup K3)
    BY <1>9, <2>1, <2>2, <2>6
  <2> QED
    BY <2>1, <2>7, <2>8
<1>11. {s, c, u} \cup {o} \cup {} = SimpleCacheObjects
  BY <1>2 DEF SimpleCacheObjects
<1>12. Sound(a, {}, SimpleCacheObjects, SimpleCacheOwnPorts)
  BY <1>5, <1>10, <1>11
<1>13. SimpleCacheOwnPorts \cap LatePorts = {} /\ {One("system"), One("membus")} \subseteq SimpleCacheObjects
  BY DEF CPUPorts, SimpleCacheOwnPorts, LatePorts, InterruptPorts, SimpleCacheObjects
<1>14. Sound(a \o CreateInterrupts(0) \o WireInterrupts(0, "membus") \o Memory("membus") \o SystemPort("membus"), {},
             SimpleCacheObjects \cup LateObjects, SimpleCacheOwnPorts \cup LatePorts)
  BY <1>12, <1>13, SoundInterrupts, SoundLate
<1>15. CacheSide("icache_port") = v /\ CacheSide("dcache_port") = v
  BY <1>1 DEF CacheSide
<1> QED
  BY <1>1, <1>2, <1>6, <1>9, <1>14, <1>15 DEF SimpleCacheScript

(* The scripts with two levels of caches, piece by piece.                *)
TwoLevelObjects == {One("system"), <<"cpu", 0>>, <<"icache", 0>>, <<"dcache", 0>>, One("l2bus"), One("l2cache"),
                    One("membus"), <<"interrupts", 0>>, One("mem_ctrl")}
TwoLevelPorts == {<<"icache", 0, "cpu_side">>, <<"cpu", 0, "icache_port">>, <<"dcache", 0, "cpu_side">>,
                  <<"cpu", 0, "dcache_port">>, <<"icache", 0, "mem_side">>, <<"dcache", 0, "mem_side">>,
                  <<"l2cache", 0, "cpu_side">>, <<"l2cache", 0, "mem_side">>} \cup LatePorts

LEMMA SoundTwoLevel == ASSUME NEW isa PROVE Sound(TwoLevel(isa), {}, TwoLevelObjects, TwoLevelPorts)
<1>1. PICK sy, cp, ic, dc, lb, lc, mb, ir, mc :
         /\ sy = One("system") /\ cp = <<"cpu", 0>> /\ ic = <<"icache", 0>>
         /\ dc = <<"dcache", 0>> /\ lb = One("l2bus") /\ lc = One("l2cache")
         /\ mb = One("membus") /\ ir = <<"interrupts", 0>> /\ mc = One("mem_ctrl")
  OBVIOUS
<1>2. PICK k3, k4, k6, k7, k9, k11, k13, k14, k15 :
         /\ k3 = {<<"icache", 0, "cpu_side">>, <<"cpu", 0, "icache_port">>}
         /\ k4 = {<<"dcache", 0, "cpu_side">>, <<"cpu", 0, "dcache_port">>}
         /\ k6 = {<<"icache", 0, "mem_side">>}
         /\ k7 = {<<"dcache", 0, "mem_side">>}
         /\ k9 = {<<"l2cache", 0, "cpu_side">>}
         /\ k11 = {<<"l2cache", 0, "mem_side">>}
         /\ k13 = InterruptPorts(0)
         /\ k14 = {<<"system", 0, "system_port">>}
         /\ k15 = {<<"mem_ctrl", 0, "port">>}
  OBVIOUS
<1>3. PICK s, w, l, m :
         /\ s = <<Make(One("system")), Make(<<"cpu", 0>>)>>
         /\ w = IF isa = "x86" THEN WireInterrupts(0, "membus") ELSE << >>
         /\ l = <<Make(One("l2bus"))>>
         /\ m = <<Make(One("membus"))>>
  OBVIOUS
<1>4. /\ Sound(s, {}, {sy, cp}, {})
      /\ Sound(L1ICache(0), {}, {ic}, {})
      /\ Sound(L1DCache(0), {}, {dc}, {})
      /\ Sound(ConnectICacheCPU(0), {ic, cp}, {}, k3)
      /\ Sound(ConnectDCacheCPU(0), {dc, cp}, {}, k4)
      /\ Sound(l, {}, {lb}, {})
      /\ Sound(ConnectBus("icache", 0, "l2bus"), {ic, lb}, {}, k6)
      /\ Sound(ConnectBus("dcache", 0, "l2bus"), {dc, lb}, {}, k7)
      /\ Sound(L2Cache, {}, {lc}, {})
      /\ Sound(ConnectCPUSideBus("l2bus"), {lc, lb}, {}, k9)
      /\ Sound(m, {}, {mb}, {})
      /\ Sound(ConnectMemSideBus("membus"), {lc, mb}, {}, k11)
      /\ Sound(CreateInterrupts(0), {}, {ir}, {})
      /\ Sound(w, {ir, mb}, {}, k13)
      /\ Sound(SystemPort("membus"), {sy, mb}, {}, k14)
      /\ Sound(Memory("membus"), {mb}, {mc}, k15)
  <2>1. Sound(s, {}, {sy, cp}, {})
    BY <1>1, <1>2, <1>3, SoundMakes
  <2>2. Sound(L1ICache(0), {}, {ic}, {})
    BY <1>1, <1>2, <1>3, SoundPieces
  <2>3. Sound(L1DCache(0), {}, {dc}, {})
    BY <1>1, <1>2, <1>3, SoundPieces
  <2>4. Sound(ConnectICacheCPU(0), {ic, cp}, {}, k3)
    BY <1>1, <1>2, <1>3, SoundPieces
  <2>5. Sound(ConnectDCacheCPU(0), {dc, cp}, {}, k4)
    BY <1>1, <1>2, <1>3, SoundPieces
  <2>6. Sound(l, {}, {lb}, {})
    BY <1>1, <1>2, <1>3, SoundMake
  <2>7. Sound(ConnectBus("icache", 0, "l2bus"), {ic, lb}, {}, k6)
    BY <1>1, <1>2, <1>3, SoundPieces
  <2>8. Sound(ConnectBus("dcache", 0, "l2bus"), {dc, lb}, {}, k7)
    BY <1>1, <1>2, <1>3, SoundPieces
  <2>9. Sound(L2Cache, {}, {lc}, {})
    BY <1>1, <1>2, <1>3, SoundPieces
  <2>10. Sound(ConnectCPUSideBus("l2bus"), {lc, lb}, {}, k9)
    BY <1>1, <1>2, <1>3, SoundPieces
  <2>11. Sound(m, {}, {mb}, {})
    BY <1>1, <1>2, <1>3, SoundMake
  <2>12. Sound(ConnectMemSideBus("membus"), {lc, mb}, {}, k11)
    BY <1>1, <1>2, <1>3, SoundPieces
  <2>13. Sound(CreateInterrupts(0), {}, {ir}, {})
    BY <1>1, <1>2, <1>3, SoundPieces
  <2>14. Sound(w, {ir, mb}, {}, k13)
    BY <1>1, <1>2, <1>3, SoundWired
  <2>15. Sound(SystemPort("membus"), {sy, mb}, {}, k14)
    BY <1>1, <1>2, <1>3, SoundPieces
  <2>16. Sound(Memory("membus"), {mb}, {mc}, k15)
    BY <1>1, <1>2, <1>3, SoundMemory
  <2> QED
    BY <2>1, <2>2, <2>3, <2>4, <2>5, <2>6, <2>7, <2>8, <2>9, <2>10, <2>11, <2>12, <2>13, <2>14, <2>15, <2>16
<1>5. /\ (k3) \cap k4 = {}
      /\ (k3 \cup k4) \cap k6 = {}
      /\ (k3 \cup k4 \cup k6) \cap k7 = {}
      /\ (k3 \cup k4 \cup k6 \cup k7) \cap k9 = {}
      /\ (k3 \cup k4 \cup k6 \cup k7 \cup k9) \cap k11 = {}
      /\ (k3 \cup k4 \cup k6 \cup k7 \cup k9 \cup k11) \cap k13 = {}
      /\ (k3 \cup k4 \cup k6 \cup k7 \cup k9 \cup k11 \cup k13) \cap k14 = {}
      /\ (k3 \cup k4 \cup k6 \cup k7 \cup k9 \cup k11 \cup k13 \cup k14) \cap k15 = {}
  BY <1>2 DEF InterruptPorts
<1>6. PICK M, o0, o1, o2, o3, o4, o5, o6, o7, o8, o9, o10, o11, o12, o13, o14, o15 :
         /\ M = {}
         /\ o0 = {sy, cp}
         /\ o1 = {sy, cp, ic}
         /\ o2 = {sy, cp, ic, dc}
         /\ o3 = {sy, cp, ic, dc}
         /\ o4 = {sy, cp, ic, dc}
         /\ o5 = {sy, cp, ic, dc, lb}
         /\ o6 = {sy, cp, ic, dc, lb}
         /\ o7 = {sy, cp, ic, dc, lb}
         /\ o8 = {sy, cp, ic, dc, lb, lc}
         /\ o9 = {sy, cp, ic, dc, lb, lc}
         /\ o10 = {sy, cp, ic, dc, lb, lc, mb}
         /\ o11 = {sy, cp, ic, dc, lb, lc, mb}
         /\ o12 = {sy, cp, ic, dc, lb, lc, mb, ir}
         /\ o13 = {sy, cp, ic, dc, lb, lc, mb, ir}
         /\ o14 = {sy, cp, ic, dc, lb, lc, mb, ir}
         /\ o15 = {sy, cp, ic, dc, lb, lc, mb, ir, mc}
  OBVIOUS
<1>7. PICK p0, p1, p2, p3, p4, p5, p6, p7, p8, p9, p10, p11, p12, p13, p14, p15 :
         /\ p0 = {}
         /\ p1 = {}
         /\ p2 = {}
         /\ p3 = k3
         /\ p4 = k3 \cup k4
         /\ p5 = k3 \cup k4
         /\ p6 = k3 \cup k4 \cup k6
         /\ p7 = k3 \cup k4 \cup k6 \cup k7
         /\ p8 = k3 \cup k4 \cup k6 \cup k7
         /\ p9 = k3 \cup k4 \cup k6 \cup k7 \cup k9
         /\ p10 = k3 \cup k4 \cup k6 \cup k7 \cup k9
         /\ p11 = k3 \cup k4 \cup k6 \cup k7 \cup k9 \cup k11
         /\ p12 = k3 \cup k4 \cup k6 \cup k7 \cup k9 \cup k11
         /\ p13 = k3 \cup k4 \cup k6 \cup k7 \cup k9 \cup k11 \cup k13
         /\ p14 = k3 \cup k4 \cup k6 \cup k7 \cup k9 \cup k11 \cup k13 \cup k14
         /\ p15 = k3 \cup k4 \cup k6 \cup k7 \cup k9 \cup k11 \cup k13 \cup k14 \cup k15
  OBVIOUS
<1>8. PICK a0, a1, a2, a3, a4, a5, a6, a7, a8, a9, a10, a11, a12, a13, a14, a15 :
         /\ a0 = s
         /\ a1 = a0 \o L1ICache(0)
         /\ a2 = a1 \o L1DCache(0)
         /\ a3 = a2 \o ConnectICacheCPU(0)
         /\ a4 = a3 \o ConnectDCacheCPU(0)
         /\ a5 = a4 \o l
         /\ a6 = a5 \o ConnectBus("icache", 0, "l2bus")
         /\ a7 = a6 \o ConnectBus("dcache", 0, "l2bus")
         /\ a8 = a7 \o L2Cache
         /\ a9 = a8 \o ConnectCPUSideBus("l2bus")
         /\ a10 = a9 \o m
         /\ a11 = a10 \o ConnectMemSideBus("membus")
         /\ a12 = a11 \o CreateInterrupts(0)
         /\ a13 = a12 \o w
         /\ a14 = a13 \o SystemPort("membus")
         /\ a15 = a14 \o Memory("membus")
  OBVIOUS
<1>9. Sound(a0, M, o0, p0)
  <2>1. PICK N : N = {}
    OBVIOUS
  <2>2. N \subseteq M /\ Sound(a0, N, o0, p0)
    BY <1>4, <1>6, <1>7, <1>8, <2>1
  <2> QED
    BY <2>2, SoundMore
<1>10. Sound(a1, M, o1, p1)
  <2>1. PICK N, O, K : N = {} /\ O = {ic} /\ K = {}
    OBVIOUS
  <2>2. N \subseteq M \cup o0 /\ o1 = o0 \cup O
    BY <1>6, <2>1
  <2>3. p0 \cap K = {} /\ p1 = p0 \cup K
    BY <1>5, <1>7, <2>1
  <2>4. Sound(L1ICache(0), N, O, K)
    BY <1>4, <2>1
  <2> QED
    BY <1>9, <1>8, <2>2, <2>3, <2>4, SoundNext
<1>11. Sound(a2, M, o2, p2)
  <2>1. PICK N, O, K : N = {} /\ O = {dc} /\ K = {}
    OBVIOUS
  <2>2. N \subseteq M \cup o1 /\ o2 = o1 \cup O
    BY <1>6, <2>1
  <2>3. p1 \cap K = {} /\ p2 = p1 \cup K
    BY <1>5, <1>7, <2>1
  <2>4. Sound(L1DCache(0), N, O, K)
    BY <1>4, <2>1
  <2> QED
    BY <1>10, <1>8, <2>2, <2>3, <2>4, SoundNext
<1>12. Sound(a3, M, o3, p3)
  <2>1. PICK N, O, K : N = {ic, cp} /\ O = {} /\ K = k3
    OBVIOUS
  <2>2. N \subseteq M \cup o2 /\ o3 = o2 \cup O
    BY <1>6, <2>1
  <2>3. p2 \cap K = {} /\ p3 = p2 \cup K
    BY <1>5, <1>7, <2>1
  <2>4. Sound(ConnectICacheCPU(0), N, O, K)
    BY <1>4, <2>1
  <2> QED
    BY <1>11, <1>8, <2>2, <2>3, <2>4, SoundNext
<1>13. Sound(a4, M, o4, p4)
  <2>1. PICK N, O, K : N = {dc, cp} /\ O = {} /\ K = k4
    OBVIOUS
  <2>2. N \subseteq M \cup o3 /\ o4 = o3 \cup O
    BY <1>6, <2>1
  <2>3. p3 \cap K = {} /\ p4 = p3 \cup K
    BY <1>5, <1>7, <2>1
  <2>4. Sound(ConnectDCacheCPU(0), N, O, K)
    BY <1>4, <2>1
  <2> QED
    BY <1>12, <1>8, <2>2, <2>3, <2>4, SoundNext
<1>14. Sound(a5, M, o5, p5)
  <2>1. PICK N, O, K : N = {} /\ O = {lb} /\ K = {}
    OBVIOUS
  <2>2. N \subseteq M \cup o4 /\ o5 = o4 \cup O
    BY <1>6, <2>1
  <2>3. p4 \cap K = {} /\ p5 = p4 \cup K
    BY <1>5, <1>7, <2>1
  <2>4. Sound(l, N, O, K)
    BY <1>4, <2>1
  <2> QED
    BY <1>13, <1>8, <2>2, <2>3, <2>4, SoundNext
<1>15. Sound(a6, M, o6, p6)
  <2>1. PICK N, O, K : N = {ic, lb} /\ O = {} /\ K = k6
    OBVIOUS
  <2>2. N \subseteq M \cup o5 /\ o6 = o5 \cup O
    BY <1>6, <2>1
  <2>3. p5 \cap K = {} /\ p6 = p5 \cup K
    BY <1>5, <1>7, <2>1
  <2>4. Sound(ConnectBus("icache", 0, "l2bus"), N, O, K)
    BY <1>4, <2>1
  <2> QED
    BY <1>14, <1>8, <2>2, <2>3, <2>4, SoundNext
<1>16. Sound(a7, M, o7, p7)
  <2>1. PICK N, O, K : N = {dc, lb} /\ O = {} /\ K = k7
    OBVIOUS
  <2>2. N \subseteq M \cup o6 /\ o7 = o6 \cup O
    BY <1>6, <2>1
  <2>3. p6 \cap K = {} /\ p7 = p6 \cup K
    BY <1>5, <1>7, <2>1
  <2>4. Sound(ConnectBus("dcache", 0, "l2bus"), N, O, K)
    BY <1>4, <2>1
  <2> QED
    BY <1>15, <1>8, <2>2, <2>3, <2>4, SoundNext
<1>17. Sound(a8, M, o8, p8)
  <2>1. PICK N, O, K : N = {} /\ O = {lc} /\ K = {}
    OBVIOUS
  <2>2. N \subseteq M \cup o7 /\ o8 = o7 \cup O
    BY <1>6, <2>1
  <2>3. p7 \cap K = {} /\ p8 = p7 \cup K
    BY <1>5, <1>7, <2>1
  <2>4. Sound(L2Cache, N, O, K)
    BY <1>4, <2>1
  <2> QED
    BY <1>16, <1>8, <2>2, <2>3, <2>4, SoundNext
<1>18. Sound(a9, M, o9, p9)
  <2>1. PICK N, O, K : N = {lc, lb} /\ O = {} /\ K = k9
    OBVIOUS
  <2>2. N \subseteq M \cup o8 /\ o9 = o8 \cup O
    BY <1>6, <2>1
  <2>3. p8 \cap K = {} /\ p9 = p8 \cup K
    BY <1>5, <1>7, <2>1
  <2>4. Sound(ConnectCPUSideBus("l2bus"), N, O, K)
    BY <1>4, <2>1
  <2> QED
    BY <1>17, <1>8, <2>2, <2>3, <2>4, SoundNext
<1>19. Sound(a10, M, o10, p10)
  <2>1. PICK N, O, K : N = {} /\ O = {mb} /\ K = {}
    OBVIOUS
  <2>2. N \subseteq M \cup o9 /\ o10 = o9 \cup O
    BY <1>6, <2>1
  <2>3. p9 \cap K = {} /\ p10 = p9 \cup K
    BY <1>5, <1>7, <2>1
  <2>4. Sound(m, N, O, K)
    BY <1>4, <2>1
  <2> QED
    BY <1>18, <1>8, <2>2, <2>3, <2>4, SoundNext
<1>20. Sound(a11, M, o11, p11)
  <2>1. PICK N, O, K : N = {lc, mb} /\ O = {} /\ K = k11
    OBVIOUS
  <2>2. N \subseteq M \cup o10 /\ o11 = o10 \cup O
    BY <1>6, <2>1
  <2>3. p10 \cap K = {} /\ p11 = p10 \cup K
    BY <1>5, <1>7, <2>1
  <2>4. Sound(ConnectMemSideBus("membus"), N, O, K)
    BY <1>4, <2>1
  <2> QED
    BY <1>19, <1>8, <2>2, <2>3, <2>4, SoundNext
<1>21. Sound(a12, M, o12, p12)
  <2>1. PICK N, O, K : N = {} /\ O = {ir} /\ K = {}
    OBVIOUS
  <2>2. N \subseteq M \cup o11 /\ o12 = o11 \cup O
    BY <1>6, <2>1
  <2>3. p11 \cap K = {} /\ p12 = p11 \cup K
    BY <1>5, <1>7, <2>1
  <2>4. Sound(CreateInterrupts(0), N, O, K)
    BY <1>4, <2>1
  <2> QED
    BY <1>20, <1>8, <2>2, <2>3, <2>4, SoundNext
<1>22. Sound(a13, M, o13, p13)
  <2>1. PICK N, O, K : N = {ir, mb} /\ O = {} /\ K = k13
    OBVIOUS
  <2>2. N \subseteq M \cup o12 /\ o13 = o12 \cup O
    BY <1>6, <2>1
  <2>3. p12 \cap K = {} /\ p13 = p12 \cup K
    BY <1>5, <1>7, <2>1
  <2>4. Sound(w, N, O, K)
    BY <1>4, <2>1
  <2> QED
    BY <1>21, <1>8, <2>2, <2>3, <2>4, SoundNext
<1>23. Sound(a14, M, o14, p14)
  <2>1. PICK N, O, K : N = {sy, mb} /\ O = {} /\ K = k14
    OBVIOUS
  <2>2. N \subseteq M \cup o13 /\ o14 = o13 \cup O
    BY <1>6, <2>1
  <2>3. p13 \cap K = {} /\ p14 = p13 \cup K
    BY <1>5, <1>7, <2>1
  <2>4. Sound(SystemPort("membus"), N, O, K)
    BY <1>4, <2>1
  <2> QED
    BY <1>22, <1>8, <2>2, <2>3, <2>4, SoundNext
<1>24. Sound(a15, M, o15, p15)
  <2>1. PICK N, O, K : N = {mb} /\ O = {mc} /\ K = k15
    OBVIOUS
  <2>2. N \subseteq M \cup o14 /\ o15 = o14 \cup O
    BY <1>6, <2>1
  <2>3. p14 \cap K = {} /\ p15 = p14 \cup K
    BY <1>5, <1>7, <2>1
  <2>4. Sound(Memory("membus"), N, O, K)
    BY <1>4, <2>1
  <2> QED
    BY <1>23, <1>8, <2>2, <2>3, <2>4, SoundNext
<1>25. a15 = TwoLevel(isa)
  BY <1>3, <1>8 DEF TwoLevel
<1>26. o15 = TwoLevelObjects
  BY <1>1, <1>6 DEF TwoLevelObjects
<1>27. p15 = TwoLevelPorts
  BY <1>2, <1>7 DEF TwoLevelPorts, LatePorts
<1> QED
  BY <1>1, <1>6, <1>24, <1>25, <1>26, <1>27

(* The caches and the table walkers of a CPU, and its interrupt          *)
(* controller.                                                           *)
HierarchyPorts(i) == {<<"icache", i, "cpu_side">>, <<"cpu", i, "icache_port">>, <<"dcache", i, "cpu_side">>,
                      <<"cpu", i, "dcache_port">>, <<"icache", i, "mem_side">>, <<"dcache", i, "mem_side">>,
                      <<"cpu", i, "itb_walker">>, <<"cpu", i, "dtb_walker">>}

(* createCacheHierarchy.                                                 *)
LEMMA SoundHierarchy ==
  ASSUME NEW i
  PROVE  Sound(CreateCacheHierarchy(i), {<<"cpu", i>>, One("membus")}, {<<"icache", i>>, <<"dcache", i>>},
               HierarchyPorts(i))
<1>1. PICK cp, ic, dc, mb :
         /\ cp = <<"cpu", i>> /\ ic = <<"icache", i>> /\ dc = <<"dcache", i>>
         /\ mb = One("membus")
  OBVIOUS
<1>2. PICK k2, k3, k4, k5, k6 :
         /\ k2 = {<<"icache", i, "cpu_side">>, <<"cpu", i, "icache_port">>}
         /\ k3 = {<<"dcache", i, "cpu_side">>, <<"cpu", i, "dcache_port">>}
         /\ k4 = {<<"icache", i, "mem_side">>}
         /\ k5 = {<<"dcache", i, "mem_side">>}
         /\ k6 = {<<"cpu", i, "itb_walker">>, <<"cpu", i, "dtb_walker">>}
  OBVIOUS
<1>3. PICK w :
         /\ w = <<Bind(<<"cpu", i, "itb_walker">>, Slave("membus")), Bind(<<"cpu", i, "dtb_walker">>, Slave("membus"))>>
  OBVIOUS
<1>4. /\ Sound(L1ICache(i), {}, {ic}, {})
      /\ Sound(L1DCache(i), {}, {dc}, {})
      /\ Sound(ConnectICacheCPU(i), {ic, cp}, {}, k2)
      /\ Sound(ConnectDCacheCPU(i), {dc, cp}, {}, k3)
      /\ Sound(ConnectBus("icache", i, "membus"), {ic, mb}, {}, k4)
      /\ Sound(ConnectBus("dcache", i, "membus"), {dc, mb}, {}, k5)
      /\ Sound(w, {cp, mb}, {}, k6)
  <2>1. Sound(L1ICache(i), {}, {ic}, {})
    BY <1>1, <1>2, <1>3, SoundPieces
  <2>2. Sound(L1DCache(i), {}, {dc}, {})
    BY <1>1, <1>2, <1>3, SoundPieces
  <2>3. Sound(ConnectICacheCPU(i), {ic, cp}, {}, k2)
    BY <1>1, <1>2, <1>3, SoundPieces
  <2>4. Sound(ConnectDCacheCPU(i), {dc, cp}, {}, k3)
    BY <1>1, <1>2, <1>3, SoundPieces
  <2>5. Sound(ConnectBus("icache", i, "membus"), {ic, mb}, {}, k4)
    BY <1>1, <1>2, <1>3, SoundPieces
  <2>6. Sound(ConnectBus("dcache", i, "membus"), {dc, mb}, {}, k5)
    BY <1>1, <1>2, <1>3, SoundPieces
  <2>7. Sound(w, {cp, mb}, {}, k6)
    <3>1. PICK p, q : p = <<"cpu", i, "itb_walker">> /\ q = <<"cpu", i, "dtb_walker">>
      OBVIOUS
    <3>2. RequestPort(p) /\ RequestPort(q) /\ {p} \cap {q} = {}
      <4>1. RequestPort(p) /\ RequestPort(q)
        BY <3>1, PortKinds
      <4>2. {p} \cap {q} = {}
        BY <3>1
      <4> QED
        BY <4>1, <4>2
    <3>3. Object(p) = cp /\ Object(q) = cp
      BY <1>1, <3>1, ObjectIs
    <3>4. PICK M : M = {cp, mb}
      OBVIOUS
    <3>5. PICK x, y : x = Bind(p, Slave("membus")) /\ y = Bind(q, Slave("membus"))
      OBVIOUS
    <3>6. Sound(<<x>>, M, {}, {p}) /\ Sound(<<y>>, M, {}, {q}) /\ M \subseteq M
      BY <1>1, <3>2, <3>3, <3>4, <3>5, SoundToSlave
    <3>7. Sound(<<x, y>>, M, {}, {p} \cup {q})
      BY <3>2, <3>6, SoundBinds2
    <3>8. k6 = {p} \cup {q} /\ w = <<x, y>>
      BY <1>2, <1>3, <3>1, <3>5
    <3> QED
      BY <3>4, <3>7, <3>8
  <2> QED
    BY <2>1, <2>2, <2>3, <2>4, <2>5, <2>6, <2>7
<1>5. /\ (k2) \cap k3 = {}
      /\ (k2 \cup k3) \cap k4 = {}
      /\ (k2 \cup k3 \cup k4) \cap k5 = {}
      /\ (k2 \cup k3 \cup k4 \cup k5) \cap k6 = {}
  BY <1>2
<1>6. PICK M, o0, o1, o2, o3, o4, o5, o6 :
         /\ M = {cp, mb}
         /\ o0 = {ic}
         /\ o1 = {ic, dc}
         /\ o2 = {ic, dc}
         /\ o3 = {ic, dc}
         /\ o4 = {ic, dc}
         /\ o5 = {ic, dc}
         /\ o6 = {ic, dc}
  OBVIOUS
<1>7. PICK p0, p1, p2, p3, p4, p5, p6 :
         /\ p0 = {}
         /\ p1 = {}
         /\ p2 = k2
         /\ p3 = k2 \cup k3
         /\ p4 = k2 \cup k3 \cup k4
         /\ p5 = k2 \cup k3 \cup k4 \cup k5
         /\ p6 = k2 \cup k3 \cup k4 \cup k5 \cup k6
  OBVIOUS
<1>8. PICK a0, a1, a2, a3, a4, a5, a6 :
         /\ a0 = L1ICache(i)
         /\ a1 = a0 \o L1DCache(i)
         /\ a2 = a1 \o ConnectICacheCPU(i)
         /\ a3 = a2 \o ConnectDCacheCPU(i)
         /\ a4 = a3 \o ConnectBus("icache", i, "membus")
         /\ a5 = a4 \o ConnectBus("dcache", i, "membus")
         /\ a6 = a5 \o w
  OBVIOUS
<1>9. Sound(a0, M, o0, p0)
  <2>1. PICK N : N = {}
    OBVIOUS
  <2>2. N \subseteq M /\ Sound(a0, N, o0, p0)
    BY <1>4, <1>6, <1>7, <1>8, <2>1
  <2> QED
    BY <2>2, SoundMore
<1>10. Sound(a1, M, o1, p1)
  <2>1. PICK N, O, K : N = {} /\ O = {dc} /\ K = {}
    OBVIOUS
  <2>2. N \subseteq M \cup o0 /\ o1 = o0 \cup O
    BY <1>6, <2>1
  <2>3. p0 \cap K = {} /\ p1 = p0 \cup K
    BY <1>5, <1>7, <2>1
  <2>4. Sound(L1DCache(i), N, O, K)
    BY <1>4, <2>1
  <2> QED
    BY <1>9, <1>8, <2>2, <2>3, <2>4, SoundNext
<1>11. Sound(a2, M, o2, p2)
  <2>1. PICK N, O, K : N = {ic, cp} /\ O = {} /\ K = k2
    OBVIOUS
  <2>2. N \subseteq M \cup o1 /\ o2 = o1 \cup O
    BY <1>6, <2>1
  <2>3. p1 \cap K = {} /\ p2 = p1 \cup K
    BY <1>5, <1>7, <2>1
  <2>4. Sound(ConnectICacheCPU(i), N, O, K)
    BY <1>4, <2>1
  <2> QED
    BY <1>10, <1>8, <2>2, <2>3, <2>4, SoundNext
<1>12. Sound(a3, M, o3, p3)
  <2>1. PICK N, O, K : N = {dc, cp} /\ O = {} /\ K = k3
    OBVIOUS
  <2>2. N \subseteq M \cup o2 /\ o3 = o2 \cup O
    BY <1>6, <2>1
  <2>3. p2 \cap K = {} /\ p3 = p2 \cup K
    BY <1>5, <1>7, <2>1
  <2>4. Sound(ConnectDCacheCPU(i), N, O, K)
    BY <1>4, <2>1
  <2> QED
    BY <1>11, <1>8, <2>2, <2>3, <2>4, SoundNext
<1>13. Sound(a4, M, o4, p4)
  <2>1. PICK N, O, K : N = {ic, mb} /\ O = {} /\ K = k4
    OBVIOUS
  <2>2. N \subseteq M \cup o3 /\ o4 = o3 \cup O
    BY <1>6, <2>1
  <2>3. p3 \cap K = {} /\ p4 = p3 \cup K
    BY <1>5, <1>7, <2>1
  <2>4. Sound(ConnectBus("icache", i, "membus"), N, O, K)
    BY <1>4, <2>1
  <2> QED
    BY <1>12, <1>8, <2>2, <2>3, <2>4, SoundNext
<1>14. Sound(a5, M, o5, p5)
  <2>1. PICK N, O, K : N = {dc, mb} /\ O = {} /\ K = k5
    OBVIOUS
  <2>2. N \subseteq M \cup o4 /\ o5 = o4 \cup O
    BY <1>6, <2>1
  <2>3. p4 \cap K = {} /\ p5 = p4 \cup K
    BY <1>5, <1>7, <2>1
  <2>4. Sound(ConnectBus("dcache", i, "membus"), N, O, K)
    BY <1>4, <2>1
  <2> QED
    BY <1>13, <1>8, <2>2, <2>3, <2>4, SoundNext
<1>15. Sound(a6, M, o6, p6)
  <2>1. PICK N, O, K : N = {cp, mb} /\ O = {} /\ K = k6
    OBVIOUS
  <2>2. N \subseteq M \cup o5 /\ o6 = o5 \cup O
    BY <1>6, <2>1
  <2>3. p5 \cap K = {} /\ p6 = p5 \cup K
    BY <1>5, <1>7, <2>1
  <2>4. Sound(w, N, O, K)
    BY <1>4, <2>1
  <2> QED
    BY <1>14, <1>8, <2>2, <2>3, <2>4, SoundNext
<1>16. a6 = CreateCacheHierarchy(i)
  BY <1>3, <1>8 DEF CreateCacheHierarchy
<1>17. o6 = {<<"icache", i>>, <<"dcache", i>>}
  BY <1>1, <1>6
<1>18. p6 = HierarchyPorts(i)
  BY <1>2, <1>7 DEF HierarchyPorts
<1> QED
  BY <1>1, <1>6, <1>15, <1>16, <1>17, <1>18

(* setupInterrupts.                                                      *)
LEMMA SoundSetup ==
  ASSUME NEW i
  PROVE  Sound(SetupInterrupts(i), {One("membus")}, {<<"interrupts", i>>}, InterruptPorts(i))
<1>1. PICK M, N, O : M = {One("membus")} /\ N = {<<"interrupts", i>>, One("membus")} /\ O = {<<"interrupts", i>>}
  OBVIOUS
<1>2. Sound(CreateInterrupts(i), M, O, {})
  <2>1. {} \subseteq M
    OBVIOUS
  <2> QED
    BY <1>1, <2>1, SoundPieces, SoundMore
<1>3. Sound(WireInterrupts(i, "membus"), N, {}, InterruptPorts(i))
  BY <1>1, SoundInterrupts
<1>4. N \subseteq M \cup O /\ O = O \cup {} /\ {} \cap InterruptPorts(i) = {}
      /\ InterruptPorts(i) = {} \cup InterruptPorts(i)
  BY <1>1
<1>5. Sound(CreateInterrupts(i) \o WireInterrupts(i, "membus"), M, O, InterruptPorts(i))
  BY <1>2, <1>3, <1>4, SoundNext
<1> QED
  BY <1>1, <1>5 DEF SetupInterrupts

(* The I/O system of the board.                                          *)
AttachPorts == {<<"io_apic", 0, "int_master">>, <<"io_apic", 0, "pio">>, <<"ide", 0, "dma">>,
                <<"iobus", 0, "default">>, <<"pci_host", 0, "pio">>}

LEMMA SoundAttach == Sound(AttachIO, {One("iobus")}, {One("io_apic"), One("ide"), One("pci_host")}, AttachPorts)
<1>1. PICK a, e, h, b : a = One("io_apic") /\ e = One("ide") /\ h = One("pci_host") /\ b = One("iobus")
  OBVIOUS
<1>2. PICK i, p, d, f, q : /\ i = <<"io_apic", 0, "int_master">> /\ p = <<"io_apic", 0, "pio">>
                           /\ d = <<"ide", 0, "dma">> /\ f = <<"iobus", 0, "default">>
                           /\ q = <<"pci_host", 0, "pio">>
  OBVIOUS
<1>3. RequestPort(i) /\ ResponsePort(p) /\ RequestPort(d) /\ RequestPort(f) /\ ResponsePort(q)
  BY <1>2, PortKinds
<1>4. Object(i) = a /\ Object(p) = a /\ Object(d) = e /\ Object(f) = b /\ Object(q) = h
  BY <1>1, <1>2, ObjectIs DEF One
<1>5. PICK x1, x2, x3, x4, x5, x6, x7 :
         /\ x1 = Make(a) /\ x2 = Make(e) /\ x3 = Make(h)
         /\ x4 = Bind(i, Slave("iobus")) /\ x5 = Bind(p, Master("iobus"))
         /\ x6 = Bind(d, Slave("iobus")) /\ x7 = Bind(f, q)
  OBVIOUS
<1>6. PICK M, N1, N2, O1, O2, O3, K1, K2, K3 :
         /\ M = {b} /\ N1 = {a, b} /\ N2 = {e, b, h} /\ O1 = {a, e, h} /\ O2 = {} /\ O3 = {}
         /\ K1 = {} /\ K2 = {i} \cup {p} /\ K3 = {d} \cup {f, q}
  OBVIOUS
<1>7. K2 \cap K3 = {} /\ K1 \cap (K2 \cup K3) = {} /\ K1 \cup K2 \cup K3 = AttachPorts
      /\ {i} \cap {p} = {} /\ {d} \cap {f, q} = {}
  BY <1>2, <1>6 DEF AttachPorts
<1>8. N1 \subseteq M \cup O1 /\ N2 \subseteq M \cup O1 \cup O2 /\ O1 \cup O2 \cup O3 = O1
  BY <1>6
<1>9. Sound(<<x1, x2, x3>>, M, O1, K1)
  <2>1. Sound(<<x1, x2, x3>>, {}, O1, K1) /\ {} \subseteq M
    BY <1>5, <1>6, SoundMakes
  <2> QED
    BY <2>1, SoundMore
<1>10. Sound(<<x4, x5>>, N1, O2, K2)
  <2>1. Sound(<<x4>>, N1, {}, {i}) /\ Sound(<<x5>>, N1, {}, {p}) /\ N1 \subseteq N1
    BY <1>1, <1>3, <1>4, <1>5, <1>6, SoundToSlave, SoundToMaster
  <2>2. Sound(<<x4, x5>>, N1, {}, {i} \cup {p})
    BY <1>7, <2>1, SoundBinds2
  <2> QED
    BY <1>6, <2>2
<1>11. Sound(<<x6, x7>>, N2, O3, K3)
  <2>1. PICK L1, L2, J : L1 = {e, b} /\ L2 = {b, h} /\ J = {f, q}
    OBVIOUS
  <2>2. Sound(<<x6>>, L1, {}, {d})
    BY <1>1, <1>3, <1>4, <1>5, <2>1, SoundToSlave
  <2>3. Sound(<<x7>>, L2, {}, J)
    BY <1>3, <1>4, <1>5, <2>1, SoundDirect DEF Fits
  <2>4. L1 \subseteq N2 /\ L2 \subseteq N2 /\ {d} \cap J = {}
    BY <1>6, <1>7, <2>1
  <2>5. Sound(<<x6, x7>>, N2, {}, {d} \cup J)
    BY <2>2, <2>3, <2>4, SoundBinds2
  <2> QED
    BY <1>6, <2>1, <2>5
<1>12. Sound(<<x1, x2, x3, x4, x5, x6, x7>>, M, O1 \cup O2 \cup O3, K1 \cup K2 \cup K3)
  BY <1>7, <1>8, <1>9, <1>10, <1>11, SoundRow7
<1>13. AttachIO = <<x1, x2, x3, x4, x5, x6, x7>>
  BY <1>1, <1>2, <1>5 DEF AttachIO
<1> QED
  BY <1>1, <1>6, <1>7, <1>8, <1>12, <1>13

BridgePorts == {<<"bridge", 0, "master">>, <<"bridge", 0, "slave">>, <<"apicbridge", 0, "slave">>,
                <<"apicbridge", 0, "master">>}
IOCachePorts == {<<"iocache", 0, "cpu_side">>, <<"iocache", 0, "mem_side">>}
BoardPortSet == BridgePorts \cup AttachPorts \cup IOCachePorts

(* The two bridges of the board.                                         *)
LEMMA SoundBridges ==
  Sound(<<Make(One("iobus")), Make(One("bridge")),
          Bind(<<"bridge", 0, "master">>, Slave("iobus")),
          Bind(<<"bridge", 0, "slave">>, Master("membus")),
          Make(One("apicbridge")),
          Bind(<<"apicbridge", 0, "slave">>, Master("iobus")),
          Bind(<<"apicbridge", 0, "master">>, Slave("membus"))>>,
        {One("membus")}, {One("iobus"), One("bridge"), One("apicbridge")}, BridgePorts)
<1>1. PICK m, b, r, a : m = One("membus") /\ b = One("iobus") /\ r = One("bridge") /\ a = One("apicbridge")
  OBVIOUS
<1>2. PICK p, q, c, d : /\ p = <<"bridge", 0, "master">> /\ q = <<"bridge", 0, "slave">>
                        /\ c = <<"apicbridge", 0, "slave">> /\ d = <<"apicbridge", 0, "master">>
  OBVIOUS
<1>3. RequestPort(p) /\ ResponsePort(q) /\ ResponsePort(c) /\ RequestPort(d)
  BY <1>2, PortKinds
<1>4. Object(p) = r /\ Object(q) = r /\ Object(c) = a /\ Object(d) = a
  BY <1>1, <1>2, ObjectIs DEF One
<1>5. PICK x1, x2, x3, x4, x5, x6, x7 :
         /\ x1 = Make(b) /\ x2 = Make(r) /\ x3 = Bind(p, Slave("iobus"))
         /\ x4 = Bind(q, Master("membus")) /\ x5 = Make(a)
         /\ x6 = Bind(c, Master("iobus")) /\ x7 = Bind(d, Slave("membus"))
  OBVIOUS
<1>6. PICK M, N1, N2, O1, O2, O3, K1, K2, K3 :
         /\ M = {m} /\ N1 = {r, m} /\ N2 = {a, b, m} /\ O1 = {b, r} /\ O2 = {a} /\ O3 = {}
         /\ K1 = {p} /\ K2 = {q} /\ K3 = {c} \cup {d}
  OBVIOUS
<1>7. K2 \cap K3 = {} /\ K1 \cap (K2 \cup K3) = {} /\ K1 \cup K2 \cup K3 = BridgePorts /\ {c} \cap {d} = {}
  BY <1>2, <1>6 DEF BridgePorts
<1>8. N1 \subseteq M \cup O1 /\ N2 \subseteq M \cup O1 \cup O2 /\ O1 \cup O2 \cup O3 = {b, r, a}
  BY <1>6
<1>9. Sound(<<x1, x2, x3>>, M, O1, K1)
  <2>1. Sound(<<x1, x2>>, {}, O1, {}) /\ {} \subseteq M
    BY <1>5, <1>6, SoundMakes
  <2>2. Sound(<<x1, x2>>, M, O1, {})
    BY <2>1, SoundMore
  <2>3. PICK N : N = {r, b}
    OBVIOUS
  <2>4. Sound(<<x3>>, N, {}, {p})
    BY <1>1, <1>3, <1>4, <1>5, <2>3, SoundToSlave
  <2>5. N \subseteq M \cup O1 /\ {} \cap {p} = {} /\ O1 = O1 \cup {} /\ K1 = {} \cup {p}
    BY <1>6, <2>3
  <2>6. Sound(<<x1, x2>> \o <<x3>>, M, O1, K1)
    BY <2>2, <2>4, <2>5, SoundNext
  <2> QED
    BY <2>6, RowOf3
<1>10. Sound(<<x4, x5>>, N1, O2, K2)
  <2>1. Sound(<<x4>>, N1, {}, {q})
    BY <1>1, <1>3, <1>4, <1>5, <1>6, SoundToMaster
  <2>2. Sound(<<x5>>, {}, O2, {})
    BY <1>5, <1>6, SoundMake
  <2>3. Sound(<<x4>> \o <<x5>>, N1, {} \cup O2, {q})
    BY <2>1, <2>2, SoundCreates
  <2>4. {} \cup O2 = O2
    OBVIOUS
  <2> QED
    BY <1>6, <2>3, <2>4, RowOf2
<1>11. Sound(<<x6, x7>>, N2, O3, K3)
  <2>1. PICK L1, L2 : L1 = {a, b} /\ L2 = {a, m}
    OBVIOUS
  <2>2. Sound(<<x6>>, L1, {}, {c}) /\ Sound(<<x7>>, L2, {}, {d})
    BY <1>1, <1>3, <1>4, <1>5, <2>1, SoundToSlave, SoundToMaster
  <2>3. L1 \subseteq N2 /\ L2 \subseteq N2 /\ {c} \cap {d} = {}
    BY <1>6, <1>7, <2>1
  <2>4. Sound(<<x6, x7>>, N2, {}, {c} \cup {d})
    BY <2>2, <2>3, SoundBinds2
  <2> QED
    BY <1>6, <2>4
<1>12. Sound(<<x1, x2, x3, x4, x5, x6, x7>>, M, O1 \cup O2 \cup O3, K1 \cup K2 \cup K3)
  BY <1>7, <1>8, <1>9, <1>10, <1>11, SoundRow7
<1>13. Sound(<<x1, x2, x3, x4, x5, x6, x7>>, M, {b, r, a}, BridgePorts)
  BY <1>7, <1>8, <1>12
<1> QED
  BY <1>1, <1>2, <1>5, <1>6, <1>13

(* The I/O cache.                                                        *)
LEMMA SoundIOCache ==
  Sound(<<Make(One("iocache")),
          Bind(<<"iocache", 0, "cpu_side">>, Master("iobus")),
          Bind(<<"iocache", 0, "mem_side">>, Slave("membus"))>>,
        {One("iobus"), One("membus")}, {One("iocache")}, IOCachePorts)
<1>1. PICK m, b, o, p, q : /\ m = One("membus") /\ b = One("iobus") /\ o = One("iocache")
                           /\ p = <<"iocache", 0, "cpu_side">> /\ q = <<"iocache", 0, "mem_side">>
  OBVIOUS
<1>2. ResponsePort(p) /\ RequestPort(q)
  BY <1>1, PortKinds
<1>3. Object(p) = o /\ Object(q) = o
  BY <1>1, ObjectIs DEF One
<1>4. PICK x, y, z : x = Make(o) /\ y = Bind(p, Master("iobus")) /\ z = Bind(q, Slave("membus"))
  OBVIOUS
<1>5. PICK M, N1, N2, O : M = {b, m} /\ N1 = {o, b} /\ N2 = {o, m} /\ O = {o}
  OBVIOUS
<1>6. Sound(<<x>>, M, O, {})
  <2>1. Sound(<<x>>, {}, O, {}) /\ {} \subseteq M
    BY <1>4, <1>5, SoundMake
  <2> QED
    BY <2>1, SoundMore
<1>7. Sound(<<y>>, M \cup O, {}, {p}) /\ Sound(<<z>>, M \cup O, {}, {q})
  <2>1. Sound(<<y>>, N1, {}, {p}) /\ Sound(<<z>>, N2, {}, {q})
    BY <1>1, <1>2, <1>3, <1>4, <1>5, SoundToSlave, SoundToMaster
  <2>2. N1 \subseteq M \cup O /\ N2 \subseteq M \cup O
    BY <1>5
  <2> QED
    BY <2>1, <2>2, SoundMore
<1>8. {} \cap {p} = {} /\ ({} \cup {p}) \cap {q} = {} /\ {} \cup {p} \cup {q} = IOCachePorts
  BY <1>1 DEF IOCachePorts
<1>9. Sound(<<x, y, z>>, M, O, {} \cup {p} \cup {q})
  BY <1>6, <1>7, <1>8, SoundRow3
<1> QED
  BY <1>1, <1>4, <1>5, <1>8, <1>9

(* init_fs needs the memory bus and makes the objects of the board.      *)
LEMMA SoundInit == ASSUME NEW n PROVE Sound(InitFS(n), {One("membus")}, BoardObjects, BoardPortSet)
<1>1. PICK s, t, f : /\ s = <<Make(One("iobus")), Make(One("bridge")),
                              Bind(<<"bridge", 0, "master">>, Slave("iobus")),
                              Bind(<<"bridge", 0, "slave">>, Master("membus")),
                              Make(One("apicbridge")),
                              Bind(<<"apicbridge", 0, "slave">>, Master("iobus")),
                              Bind(<<"apicbridge", 0, "master">>, Slave("membus"))>>
                     /\ t = <<Make(One("iocache")),
                              Bind(<<"iocache", 0, "cpu_side">>, Master("iobus")),
                              Bind(<<"iocache", 0, "mem_side">>, Slave("membus"))>>
                     /\ f = <<Install(Firmware(n))>>
  OBVIOUS
<1>2. PICK M, N, O1, O2, O3, I : /\ M = {One("membus")} /\ N = {One("iobus"), One("membus")} /\ I = {One("iobus")}
                                 /\ O1 = {One("iobus"), One("bridge"), One("apicbridge")}
                                 /\ O2 = {One("io_apic"), One("ide"), One("pci_host")} /\ O3 = {One("iocache")}
  OBVIOUS
<1>3. Sound(s, M, O1, BridgePorts) /\ Sound(AttachIO, I, O2, AttachPorts) /\ Sound(t, N, O3, IOCachePorts)
      /\ Sound(f, {}, {}, {})
  BY <1>1, <1>2, SoundBridges, SoundAttach, SoundIOCache, SoundInstall
<1>4. I \subseteq M \cup O1 /\ N \subseteq M \cup (O1 \cup O2) /\ O1 \cup O2 \cup O3 = BoardObjects
  BY <1>2 DEF BoardObjects
<1>5. BridgePorts \cap AttachPorts = {} /\ (BridgePorts \cup AttachPorts) \cap IOCachePorts = {}
  BY DEF BridgePorts, AttachPorts, IOCachePorts
<1>6. Sound(s \o AttachIO, M, O1 \cup O2, BridgePorts \cup AttachPorts)
  BY <1>3, <1>4, <1>5, SoundJoined
<1>7. Sound(s \o AttachIO \o t, M, BoardObjects, BoardPortSet)
  BY <1>3, <1>4, <1>5, <1>6, SoundNext DEF BoardPortSet
<1>8. BoardObjects = BoardObjects \cup {}
  OBVIOUS
<1>9. Sound(s \o AttachIO \o t \o f, M, BoardObjects \cup {}, BoardPortSet)
  BY <1>3, <1>7, SoundCreates
<1>10. InitFS(n) = s \o AttachIO \o t \o f
  BY <1>1 DEF InitFS, IOSystem
<1> QED
  BY <1>2, <1>8, <1>9, <1>10

(* The full system: ports of different kinds of objects are different.   *)
Of(K, names) == \A x \in K : x[1] \in names

FrontPorts == {<<"membus", 0, "default">>, <<"badaddr", 0, "pio">>}
FSPorts(n) == FrontPorts \cup {<<"system", 0, "system_port">>} \cup BoardPortSet
              \cup All([i \in 0 .. n - 1 |-> HierarchyPorts(i)], 0 .. n - 1)
              \cup {<<"mem_ctrl", 0, "port">>}
              \cup All([i \in 0 .. n - 1 |-> InterruptPorts(i)], 0 .. n - 1)

(* The beginning of MySystem.                                            *)
LEMMA SoundFront ==
  Sound(<<Make(One("system")), Make(One("membus")), Make(One("badaddr")),
          Bind(<<"membus", 0, "default">>, <<"badaddr", 0, "pio">>)>>,
        {}, {One("system"), One("membus"), One("badaddr")}, FrontPorts)
<1>1. PICK s, m, b, p, q : /\ s = One("system") /\ m = One("membus") /\ b = One("badaddr")
                           /\ p = <<"membus", 0, "default">> /\ q = <<"badaddr", 0, "pio">>
  OBVIOUS
<1>2. RequestPort(p) /\ ResponsePort(q)
  BY <1>1, PortKinds
<1>3. Object(p) = m /\ Object(q) = b
  BY <1>1, ObjectIs DEF One
<1>4. PICK x1, x2, x3, x4 : x1 = Make(s) /\ x2 = Make(m) /\ x3 = Make(b) /\ x4 = Bind(p, q)
  OBVIOUS
<1>5. PICK O, N, J, K : O = {s, m} /\ N = {m} /\ J = {m, b} /\ K = {p, q}
  OBVIOUS
<1>6. Sound(<<x1, x2>>, {}, O, {})
  BY <1>4, <1>5, SoundMakes
<1>7. Sound(<<x3, x4>>, N, {b}, K)
  <2>1. Sound(<<x4>>, J, {}, K)
    BY <1>2, <1>3, <1>4, <1>5, SoundDirect DEF Fits
  <2>2. J \subseteq N \cup {b}
    BY <1>5
  <2> QED
    BY <1>4, <2>1, <2>2, SoundMakesOne
<1>8. N \subseteq {} \cup O /\ {s, m, b} = O \cup {b} /\ {} \cap K = {} /\ K = {} \cup K
  BY <1>5
<1>9. PICK P : P = {s, m, b}
  OBVIOUS
<1>10. Sound(<<x1, x2>> \o <<x3, x4>>, {}, P, K)
  BY <1>6, <1>7, <1>8, <1>9, SoundNext
<1>11. K = FrontPorts
  BY <1>1, <1>5 DEF FrontPorts
<1>12. Sound(<<x1, x2, x3, x4>>, {}, P, K)
  <2>1. <<x1, x2, x3, x4>> = <<x1, x2>> \o <<x3, x4>>
    BY RowOf4
  <2> QED
    BY <1>10, <2>1
<1> QED
  BY <1>1, <1>4, <1>9, <1>11, <1>12

(* The ports each part of the full system connects are those of its      *)
(* objects.                                                              *)
LEMMA OfPorts ==
  /\ Of(FrontPorts, {"membus", "badaddr"})
  /\ Of(BoardPortSet, {"bridge", "apicbridge", "io_apic", "ide", "iobus", "pci_host", "iocache"})
  /\ \A n : Of(All([i \in 0 .. n - 1 |-> HierarchyPorts(i)], 0 .. n - 1), {"cpu", "icache", "dcache"})
  /\ \A n : Of(All([i \in 0 .. n - 1 |-> InterruptPorts(i)], 0 .. n - 1), {"interrupts"})
  /\ Of({<<"system", 0, "system_port">>}, {"system"}) /\ Of({<<"mem_ctrl", 0, "port">>}, {"mem_ctrl"})
<1>1. Of(FrontPorts, {"membus", "badaddr"})
  BY DEF Of, FrontPorts
<1>2. Of(BoardPortSet, {"bridge", "apicbridge", "io_apic", "ide", "iobus", "pci_host", "iocache"})
  BY DEF Of, BoardPortSet, BridgePorts, AttachPorts, IOCachePorts
<1>3. \A n : Of(All([i \in 0 .. n - 1 |-> HierarchyPorts(i)], 0 .. n - 1), {"cpu", "icache", "dcache"})
  <2>1. \A i : \A x \in HierarchyPorts(i) : x[1] \in {"cpu", "icache", "dcache"}
    BY DEF HierarchyPorts
  <2> QED
    BY <2>1 DEF Of, All
<1>4. \A n : Of(All([i \in 0 .. n - 1 |-> InterruptPorts(i)], 0 .. n - 1), {"interrupts"})
  <2>1. \A i : \A x \in InterruptPorts(i) : x[1] \in {"interrupts"}
    BY DEF InterruptPorts
  <2> QED
    BY <2>1 DEF Of, All
<1>5. Of({<<"system", 0, "system_port">>}, {"system"}) /\ Of({<<"mem_ctrl", 0, "port">>}, {"mem_ctrl"})
  BY DEF Of
<1> QED
  BY <1>1, <1>2, <1>3, <1>4, <1>5

(* The steps that are repeated for each CPU.                             *)
LEMMA SoundForEach ==
  ASSUME NEW n \in Nat
  PROVE  /\ Sound(ForEachCPU(n, [i \in 0 .. n - 1 |-> CreateCPU(i)]), {},
                  All([i \in 0 .. n - 1 |-> {<<"cpu", i>>}], 0 .. n - 1), {})
         /\ Sound(ForEachCPU(n, [i \in 0 .. n - 1 |-> CreateCacheHierarchy(i)]),
                  All([i \in 0 .. n - 1 |-> {<<"cpu", i>>}], 0 .. n - 1) \cup {One("membus")},
                  All([i \in 0 .. n - 1 |-> {<<"icache", i>>, <<"dcache", i>>}], 0 .. n - 1),
                  All([i \in 0 .. n - 1 |-> HierarchyPorts(i)], 0 .. n - 1))
         /\ Sound(ForEachCPU(n, [i \in 0 .. n - 1 |-> SetupInterrupts(i)]), {One("membus")},
                  All([i \in 0 .. n - 1 |-> {<<"interrupts", i>>}], 0 .. n - 1),
                  All([i \in 0 .. n - 1 |-> InterruptPorts(i)], 0 .. n - 1))
<1> DEFINE cpus == [i \in 0 .. n - 1 |-> CreateCPU(i)]
           o4 == [i \in 0 .. n - 1 |-> {<<"cpu", i>>}]
           k4 == [i \in 0 .. n - 1 |-> {}]
           caches == [i \in 0 .. n - 1 |-> CreateCacheHierarchy(i)]
           o5 == [i \in 0 .. n - 1 |-> {<<"icache", i>>, <<"dcache", i>>}]
           k5 == [i \in 0 .. n - 1 |-> HierarchyPorts(i)]
           ints == [i \in 0 .. n - 1 |-> SetupInterrupts(i)]
           o7 == [i \in 0 .. n - 1 |-> {<<"interrupts", i>>}]
           k7 == [i \in 0 .. n - 1 |-> InterruptPorts(i)]
           M5 == All(o4, 0 .. n - 1) \cup {One("membus")}
<1>1. Sound(ForEachCPU(n, cpus), {}, All(o4, 0 .. n - 1), {})
  <2>1. \A i \in 0 .. n - 1 : Sound(CreateCPU(i), {}, {<<"cpu", i>>}, {})
    BY SoundMake DEF CreateCPU
  <2>2. \A i \in 0 .. n - 1 : Sound(cpus[i], {}, o4[i], k4[i])
    BY <2>1
  <2>3. \A i, j \in 0 .. n - 1 : i # j => k4[i] \cap k4[j] = {}
    OBVIOUS
  <2>4. All(k4, 0 .. n - 1) = {}
    BY DEF All
  <2> HIDE DEF cpus, o4, k4
  <2>5. Sound(ForEachCPU(n, cpus), {}, All(o4, 0 .. n - 1), All(k4, 0 .. n - 1))
    BY <2>2, <2>3, SoundEach
  <2> QED
    BY <2>4, <2>5
<1>2. Sound(ForEachCPU(n, caches), M5, All(o5, 0 .. n - 1), All(k5, 0 .. n - 1))
  <2>1. ASSUME NEW i \in 0 .. n - 1 PROVE Sound(CreateCacheHierarchy(i), M5, {<<"icache", i>>, <<"dcache", i>>},
                                                HierarchyPorts(i))
    <3>1. {<<"cpu", i>>, One("membus")} \subseteq M5
      BY DEF All
    <3> HIDE DEF M5
    <3> QED
      BY <3>1, SoundHierarchy, SoundMore
  <2>2. \A i \in 0 .. n - 1 : caches[i] = CreateCacheHierarchy(i) /\ o5[i] = {<<"icache", i>>, <<"dcache", i>>}
                              /\ k5[i] = HierarchyPorts(i)
    OBVIOUS
  <2>3. \A i, j \in 0 .. n - 1 : i # j => HierarchyPorts(i) \cap HierarchyPorts(j) = {}
    <3>1. \A i : \A x \in HierarchyPorts(i) : x[2] = i
      BY DEF HierarchyPorts
    <3> QED
      BY <3>1
  <2> HIDE DEF caches, o5, k5, M5
  <2>4. \A i \in 0 .. n - 1 : Sound(caches[i], M5, o5[i], k5[i])
    BY <2>1, <2>2
  <2>5. \A i, j \in 0 .. n - 1 : i # j => k5[i] \cap k5[j] = {}
    BY <2>2, <2>3
  <2> QED
    BY <2>4, <2>5, SoundEach
<1>3. Sound(ForEachCPU(n, ints), {One("membus")}, All(o7, 0 .. n - 1), All(k7, 0 .. n - 1))
  <2>1. \A i \in 0 .. n - 1 : ints[i] = SetupInterrupts(i) /\ o7[i] = {<<"interrupts", i>>}
                              /\ k7[i] = InterruptPorts(i)
    OBVIOUS
  <2>2. \A i, j \in 0 .. n - 1 : i # j => InterruptPorts(i) \cap InterruptPorts(j) = {}
    <3>1. \A i : \A x \in InterruptPorts(i) : x[2] = i
      BY DEF InterruptPorts
    <3> QED
      BY <3>1
  <2> HIDE DEF ints, o7, k7
  <2>3. PICK M : M = {One("membus")}
    OBVIOUS
  <2>4. \A i \in 0 .. n - 1 : Sound(ints[i], M, o7[i], k7[i])
    BY <2>1, <2>3, SoundSetup
  <2>5. \A i, j \in 0 .. n - 1 : i # j => k7[i] \cap k7[j] = {}
    BY <2>1, <2>2
  <2>6. Sound(ForEachCPU(n, ints), M, All(o7, 0 .. n - 1), All(k7, 0 .. n - 1))
    BY <2>4, <2>5, SoundEach
  <2> QED
    BY <2>3, <2>6
<1> QED
  BY <1>1, <1>2, <1>3

(* MySystem, for any number of CPUs.                                     *)
LEMMA SoundSystem == ASSUME NEW n \in Nat PROVE Sound(MySystem(n, InitFS(n)), {}, FSObjects(n), FSPorts(n))
<1>1. PICK front, cpus, caches, ints :
         /\ front = <<Make(One("system")), Make(One("membus")), Make(One("badaddr")),
                      Bind(<<"membus", 0, "default">>, <<"badaddr", 0, "pio">>)>>
         /\ cpus = ForEachCPU(n, [i \in 0 .. n - 1 |-> CreateCPU(i)])
         /\ caches = ForEachCPU(n, [i \in 0 .. n - 1 |-> CreateCacheHierarchy(i)])
         /\ ints = ForEachCPU(n, [i \in 0 .. n - 1 |-> SetupInterrupts(i)])
  OBVIOUS
<1>2. PICK o1, o4, o5, o6, o7 :
         /\ o1 = {One("system"), One("membus"), One("badaddr")}
         /\ o4 = All([i \in 0 .. n - 1 |-> {<<"cpu", i>>}], 0 .. n - 1)
         /\ o5 = All([i \in 0 .. n - 1 |-> {<<"icache", i>>, <<"dcache", i>>}], 0 .. n - 1)
         /\ o6 = {One("mem_ctrl")}
         /\ o7 = All([i \in 0 .. n - 1 |-> {<<"interrupts", i>>}], 0 .. n - 1)
  OBVIOUS
<1>3. PICK k2, k5, k6, k7 :
         /\ k2 = {<<"system", 0, "system_port">>}
         /\ k5 = All([i \in 0 .. n - 1 |-> HierarchyPorts(i)], 0 .. n - 1)
         /\ k6 = {<<"mem_ctrl", 0, "port">>}
         /\ k7 = All([i \in 0 .. n - 1 |-> InterruptPorts(i)], 0 .. n - 1)
  OBVIOUS
<1>4. PICK m, c, b : m = {One("membus")} /\ c = {One("system"), One("membus")} /\ b = o4 \cup {One("membus")}
  OBVIOUS
<1>5. /\ Sound(front, {}, o1, FrontPorts) /\ Sound(SystemPort("membus"), c, {}, k2)
      /\ Sound(InitFS(n), m, BoardObjects, BoardPortSet) /\ Sound(cpus, {}, o4, {})
      /\ Sound(caches, b, o5, k5) /\ Sound(Memory("membus"), m, o6, k6) /\ Sound(ints, m, o7, k7)
  <2>1. Sound(front, {}, o1, FrontPorts)
    BY <1>1, <1>2, SoundFront
  <2>2. Sound(SystemPort("membus"), c, {}, k2)
    BY <1>3, <1>4, SoundPieces
  <2>3. Sound(InitFS(n), m, BoardObjects, BoardPortSet)
    BY <1>4, SoundInit
  <2>4. Sound(cpus, {}, o4, {})
    BY <1>1, <1>2, SoundForEach
  <2>5. Sound(caches, b, o5, k5)
    BY <1>1, <1>2, <1>3, <1>4, SoundForEach
  <2>6. Sound(Memory("membus"), m, o6, k6)
    BY <1>2, <1>3, <1>4, SoundMemory
  <2>7. Sound(ints, m, o7, k7)
    BY <1>1, <1>2, <1>3, <1>4, SoundForEach
  <2> QED
    BY <2>1, <2>2, <2>3, <2>4, <2>5, <2>6, <2>7
<1>6. /\ c \subseteq o1 /\ m \subseteq {} \cup o1
      /\ b \subseteq {} \cup (o1 \cup BoardObjects \cup o4)
      /\ m \subseteq {} \cup (o1 \cup BoardObjects \cup o4 \cup o5)
      /\ m \subseteq {} \cup (o1 \cup BoardObjects \cup o4 \cup o5 \cup o6)
  BY <1>2, <1>4
<1>7. /\ FrontPorts \cap k2 = {}
      /\ (FrontPorts \cup k2) \cap BoardPortSet = {}
      /\ (FrontPorts \cup k2 \cup BoardPortSet) \cap k5 = {}
      /\ (FrontPorts \cup k2 \cup BoardPortSet \cup k5) \cap k6 = {}
      /\ (FrontPorts \cup k2 \cup BoardPortSet \cup k5 \cup k6) \cap k7 = {}
  <2>1. /\ Of(FrontPorts, {"membus", "badaddr"}) /\ Of(k2, {"system"})
        /\ Of(BoardPortSet, {"bridge", "apicbridge", "io_apic", "ide", "iobus", "pci_host", "iocache"})
        /\ Of(k5, {"cpu", "icache", "dcache"}) /\ Of(k6, {"mem_ctrl"}) /\ Of(k7, {"interrupts"})
    BY <1>3, OfPorts
  <2>2. /\ \A x \in FrontPorts : x[1] \in {"membus", "badaddr"}
        /\ \A x \in k2 : x[1] = "system"
        /\ \A x \in BoardPortSet : x[1] \in {"bridge", "apicbridge", "io_apic", "ide", "iobus", "pci_host", "iocache"}
        /\ \A x \in k5 : x[1] \in {"cpu", "icache", "dcache"}
        /\ \A x \in k6 : x[1] = "mem_ctrl"
        /\ \A x \in k7 : x[1] = "interrupts"
    BY <2>1 DEF Of
  <2> QED
    BY <2>2
<1>8. Sound(front \o SystemPort("membus"), {}, o1, FrontPorts \cup k2)
  BY <1>5, <1>6, <1>7, SoundBinds
<1>9. Sound(front \o SystemPort("membus") \o InitFS(n), {}, o1 \cup BoardObjects, FrontPorts \cup k2 \cup BoardPortSet)
  BY <1>5, <1>6, <1>7, <1>8, SoundJoined
<1>10. Sound(front \o SystemPort("membus") \o InitFS(n) \o cpus, {}, o1 \cup BoardObjects \cup o4,
             FrontPorts \cup k2 \cup BoardPortSet)
  BY <1>5, <1>9, SoundCreates
<1>11. Sound(front \o SystemPort("membus") \o InitFS(n) \o cpus \o caches, {}, o1 \cup BoardObjects \cup o4 \cup o5,
             FrontPorts \cup k2 \cup BoardPortSet \cup k5)
  BY <1>5, <1>6, <1>7, <1>10, SoundJoined
<1>12. Sound(front \o SystemPort("membus") \o InitFS(n) \o cpus \o caches \o Memory("membus"), {},
             o1 \cup BoardObjects \cup o4 \cup o5 \cup o6, FrontPorts \cup k2 \cup BoardPortSet \cup k5 \cup k6)
  BY <1>5, <1>6, <1>7, <1>11, SoundJoined
<1>13. Sound(front \o SystemPort("membus") \o InitFS(n) \o cpus \o caches \o Memory("membus") \o ints, {},
             o1 \cup BoardObjects \cup o4 \cup o5 \cup o6 \cup o7,
             FrontPorts \cup k2 \cup BoardPortSet \cup k5 \cup k6 \cup k7)
  BY <1>5, <1>6, <1>7, <1>12, SoundJoined
<1>14. MySystem(n, InitFS(n)) = front \o SystemPort("membus") \o InitFS(n) \o cpus \o caches \o Memory("membus") \o ints
  BY <1>1 DEF MySystem
<1>15. FSObjects(n) = o1 \cup BoardObjects \cup o4 \cup o5 \cup o6 \cup o7
  BY <1>2 DEF FSObjects
<1>16. FSPorts(n) = FrontPorts \cup k2 \cup BoardPortSet \cup k5 \cup k6 \cup k7
  BY <1>3 DEF FSPorts
<1> QED
  BY <1>13, <1>14, <1>15, <1>16
---------------------------------------------------------------------------
(* The objects of a configuration.                                       *)
ObjectsOf(c) == CASE c.script = "simple"         -> StartObjects \cup LateObjects
                  [] c.script \in {"two_level", "two_level_opts"} -> TwoLevelObjects
                  [] c.script = "simple_memobj"  -> MemobjObjects \cup LateObjects
                  [] c.script = "simple_cache"   -> SimpleCacheObjects \cup LateObjects
                  [] c.script \in {"system", "system_mp"} -> FSObjects(c.cpus)

(* The statements of every script come in an order in which they can be  *)
(* executed.                                                             *)
LEMMA ProgramSound ==
  ASSUME config \in Configs
  PROVE  \E K : Sound(Program, {}, ObjectsOf(config), K)
<1>1. CASE config.script = "simple"
  <2>1. Program = Simple(config.isa) /\ ObjectsOf(config) = StartObjects \cup LateObjects
    BY <1>1 DEF Program, ObjectsOf
  <2> QED
    BY <2>1, SoundSimple
<1>2. CASE config.script = "two_level"
  <2>1. Program = TwoLevel(config.isa) /\ ObjectsOf(config) = TwoLevelObjects
    BY <1>2 DEF Program, ObjectsOf
  <2> QED
    BY <2>1, SoundTwoLevel
<1>3. CASE config.script = "two_level_opts"
  <2>1. Program = TwoLevel(config.isa) /\ ObjectsOf(config) = TwoLevelObjects
    BY <1>3, SameAsTwoLevel DEF Program, ObjectsOf
  <2> QED
    BY <2>1, SoundTwoLevel
<1>4. CASE config.script = "simple_memobj"
  <2>1. Program = SimpleMemobjScript /\ ObjectsOf(config) = MemobjObjects \cup LateObjects
    BY <1>4 DEF Program, ObjectsOf
  <2> QED
    BY <2>1, SoundMemobj
<1>5. CASE config.script = "simple_cache"
  <2>1. Program = SimpleCacheScript /\ ObjectsOf(config) = SimpleCacheObjects \cup LateObjects
    BY <1>5 DEF Program, ObjectsOf
  <2> QED
    BY <2>1, SoundSimpleCache
<1>6. CASE config.script \in {"system", "system_mp"}
  <2>1. Program = MySystem(config.cpus, InitFS(config.cpus))
    BY <1>6, ConfigFacts DEF Program, InitFSOfOne
  <2>2. ObjectsOf(config) = FSObjects(config.cpus) /\ config.cpus \in Nat
    BY <1>6, ConfigFacts DEF ObjectsOf
  <2> QED
    BY <2>1, <2>2, SoundSystem
<1> QED
  BY <1>1, <1>2, <1>3, <1>4, <1>5, <1>6, ConfigFacts

(* They are objects that a script can make.                              *)
LEMMA FSObjectsAre ==
  ASSUME NEW n, NEW o
  PROVE  o \in FSObjects(n) <=>
            \/ o \in {One("system"), One("membus"), One("badaddr"), One("mem_ctrl")} \cup BoardObjects
            \/ \E i \in 0 .. n - 1 : o \in {<<"cpu", i>>, <<"icache", i>>, <<"dcache", i>>, <<"interrupts", i>>}
<1>1. o \in All([i \in 0 .. n - 1 |-> {<<"cpu", i>>}], 0 .. n - 1) <=> \E i \in 0 .. n - 1 : o = <<"cpu", i>>
  BY DEF All
<1>2. o \in All([i \in 0 .. n - 1 |-> {<<"icache", i>>, <<"dcache", i>>}], 0 .. n - 1)
         <=> \E i \in 0 .. n - 1 : o = <<"icache", i>> \/ o = <<"dcache", i>>
  BY DEF All
<1>3. o \in All([i \in 0 .. n - 1 |-> {<<"interrupts", i>>}], 0 .. n - 1)
         <=> \E i \in 0 .. n - 1 : o = <<"interrupts", i>>
  BY DEF All
<1>4. PICK A, B, C : /\ A = All([i \in 0 .. n - 1 |-> {<<"cpu", i>>}], 0 .. n - 1)
                     /\ B = All([i \in 0 .. n - 1 |-> {<<"icache", i>>, <<"dcache", i>>}], 0 .. n - 1)
                     /\ C = All([i \in 0 .. n - 1 |-> {<<"interrupts", i>>}], 0 .. n - 1)
  OBVIOUS
<1>5. FSObjects(n) = {One("system"), One("membus"), One("badaddr")} \cup BoardObjects \cup A \cup B
                     \cup {One("mem_ctrl")} \cup C
  BY <1>4 DEF FSObjects
<1>6. /\ o \in A <=> \E i \in 0 .. n - 1 : o = <<"cpu", i>>
      /\ o \in B <=> \E i \in 0 .. n - 1 : o = <<"icache", i>> \/ o = <<"dcache", i>>
      /\ o \in C <=> \E i \in 0 .. n - 1 : o = <<"interrupts", i>>
  BY <1>1, <1>2, <1>3, <1>4
<1>7. o \in FSObjects(n) <=>
         \/ o \in {One("system"), One("membus"), One("badaddr"), One("mem_ctrl")} \cup BoardObjects
         \/ o \in A \/ o \in B \/ o \in C
  BY <1>5
<1> QED
  BY <1>6, <1>7

(* The objects there are, one by one.                                    *)
LEMMA ObjectsAre ==
  /\ {One("membus"), One("l2bus"), One("iobus"), One("bridge"), One("apicbridge"), One("l2cache"), One("iocache"),
      One("memobj"), One("cache"), One("system"), One("badaddr"), One("io_apic"), One("ide"), One("pci_host"),
      One("mem_ctrl")} \subseteq Objects
  /\ \A i \in CPUs : {<<"icache", i>>, <<"dcache", i>>, <<"cpu", i>>, <<"interrupts", i>>} \subseteq Objects
<1>1. {One("membus"), One("l2bus"), One("iobus"), One("bridge"), One("apicbridge")} \subseteq Objects
  BY DEF Objects, Busses, Bridges
<1>2. {One("l2cache"), One("iocache"), One("memobj"), One("cache")} \subseteq Objects
  BY DEF Objects, Caches
<1>3. {One("system"), One("badaddr"), One("io_apic"), One("ide"), One("pci_host"), One("mem_ctrl")} \subseteq Objects
  BY DEF Objects
<1>4. \A i \in CPUs : {<<"icache", i>>, <<"dcache", i>>} \subseteq Objects
  BY DEF Objects, Caches
<1>5. \A i \in CPUs : {<<"cpu", i>>, <<"interrupts", i>>} \subseteq Objects
  BY DEF Objects
<1> QED
  BY <1>1, <1>2, <1>3, <1>4, <1>5

(* A configuration has no others.                                        *)
LEMMA OfObjects ==
  ASSUME config \in Configs
  PROVE  ObjectsOf(config) \subseteq Objects
<1>1. 0 \in CPUs /\ CPUs = 0 .. config.cpus - 1
  BY ConfigFacts DEF CPUs
<1>2. LateObjects \subseteq Objects
  BY <1>1, ObjectsAre DEF LateObjects
<1>3. StartObjects \subseteq Objects
  BY <1>1, ObjectsAre DEF StartObjects
<1>4. MemobjObjects \subseteq Objects
  BY <1>1, ObjectsAre DEF MemobjObjects
<1>5. SimpleCacheObjects \subseteq Objects
  BY <1>1, ObjectsAre DEF SimpleCacheObjects
<1>6. TwoLevelObjects \subseteq Objects
  BY <1>1, ObjectsAre DEF TwoLevelObjects
<1>7. FSObjects(config.cpus) \subseteq Objects
  <2>1. BoardObjects \subseteq Objects
    BY ObjectsAre DEF BoardObjects
  <2>2. {One("system"), One("membus"), One("badaddr"), One("mem_ctrl")} \subseteq Objects
    BY ObjectsAre
  <2>3. \A i \in 0 .. config.cpus - 1 : {<<"icache", i>>, <<"dcache", i>>, <<"cpu", i>>,
                                         <<"interrupts", i>>} \subseteq Objects
    BY <1>1, ObjectsAre
  <2>4. ASSUME NEW n, n = config.cpus, NEW o \in FSObjects(n) PROVE o \in Objects
    <3>1. \/ o \in {One("system"), One("membus"), One("badaddr"), One("mem_ctrl")} \cup BoardObjects
          \/ \E i \in 0 .. n - 1 : o \in {<<"cpu", i>>, <<"icache", i>>, <<"dcache", i>>, <<"interrupts", i>>}
      BY <2>4, FSObjectsAre
    <3> QED
      BY <2>1, <2>2, <2>3, <2>4, <3>1
  <2> QED
    BY <2>4
<1> QED
  BY <1>2, <1>3, <1>4, <1>5, <1>6, <1>7, ConfigFacts DEF ObjectsOf

(* At the end of the script the objects are those of the configuration.  *)
LEMMA MadeAtEnd ==
  ASSUME Executed, pc = Len(Program), status # "failed"
  PROVE  \A o : o \in made <=> o \in ObjectsOf(config)
<1>1. PICK K : Sound(Program, {}, ObjectsOf(config), K)
  BY ProgramSound DEF Executed
<1>2. MadeSoFar
  BY DEF Executed
<1> QED
  BY <1>1, <1>2 DEF Sound, MadeSoFar

(* The objects of the full system, one by one.                           *)
LEMMA BoardMade ==
  ASSUME Executed, pc = Len(Program), status # "failed", FullSystem
  PROVE  /\ \A o : o \in made <=>
               \/ o \in {One("system"), One("membus"), One("badaddr"), One("mem_ctrl")} \cup BoardObjects
               \/ \E i \in 0 .. config.cpus - 1 :
                     o \in {<<"cpu", i>>, <<"icache", i>>, <<"dcache", i>>, <<"interrupts", i>>}
<1>1. \A o : o \in made <=> o \in FSObjects(config.cpus)
  BY MadeAtEnd DEF ObjectsOf, FullSystem
<1>2. PICK n : n = config.cpus
  OBVIOUS
<1>3. \A o : o \in FSObjects(n) <=>
            \/ o \in {One("system"), One("membus"), One("badaddr"), One("mem_ctrl")} \cup BoardObjects
            \/ \E i \in 0 .. n - 1 : o \in {<<"cpu", i>>, <<"icache", i>>, <<"dcache", i>>, <<"interrupts", i>>}
  BY FSObjectsAre
<1> QED
  BY <1>1, <1>2, <1>3

(* The objects of the other scripts.                                     *)
LEMMA PlainMade ==
  ASSUME Executed, pc = Len(Program), status # "failed", ~FullSystem
  PROVE  \A o : o \in made <=>
            \/ o \in {One("system"), <<"cpu", 0>>, One("membus"), <<"interrupts", 0>>, One("mem_ctrl")}
            \/ /\ config.script \in {"two_level", "two_level_opts"}
               /\ o \in {<<"icache", 0>>, <<"dcache", 0>>, One("l2bus"), One("l2cache")}
            \/ config.script = "simple_memobj" /\ o = One("memobj")
            \/ config.script = "simple_cache" /\ o = One("cache")
<1>1. config \in Configs /\ \A o : o \in made <=> o \in ObjectsOf(config)
  BY MadeAtEnd DEF Executed
<1>2. CASE config.script = "simple"
  BY <1>1, <1>2 DEF ObjectsOf, StartObjects, LateObjects
<1>3. CASE config.script \in {"two_level", "two_level_opts"}
  BY <1>1, <1>3 DEF ObjectsOf, TwoLevelObjects
<1>4. CASE config.script = "simple_memobj"
  BY <1>1, <1>4 DEF ObjectsOf, MemobjObjects, LateObjects
<1>5. CASE config.script = "simple_cache"
  BY <1>1, <1>5 DEF ObjectsOf, SimpleCacheObjects, LateObjects
<1> QED
  BY <1>1, <1>2, <1>3, <1>4, <1>5, ConfigFacts DEF FullSystem

(* A request is at an object that exists.                                *)
LEMMA HereMade ==
  ASSUME Executed, Done, OnItsWay(config, req)
  PROVE  Here \in made
<1>1. pc = Len(Program) /\ status # "failed" /\ Here = Object(req.at)
  BY DEF Executed, Done, Here
<1>2. CASE FullSystem
  <2>1. PICK n : n = config.cpus /\ BoardPlaces(n, req)
    BY <1>2 DEF OnItsWay, FullSystem
  <2>2. /\ {One("membus"), One("iobus"), One("bridge"), One("iocache"), One("apicbridge"), One("mem_ctrl"),
            One("badaddr"), One("io_apic"), One("pci_host")} \subseteq made
        /\ \A i \in 0 .. n - 1 : {<<"icache", i>>, <<"dcache", i>>, <<"interrupts", i>>} \subseteq made
    BY <1>1, <1>2, <2>1, BoardMade DEF BoardObjects
  <2>3. \/ Here \in {One("membus"), One("iobus"), One("bridge"), One("iocache"), One("apicbridge"), One("mem_ctrl"),
            One("badaddr"), One("io_apic"), One("pci_host")}
        \/ \E i \in 0 .. n - 1 : Here \in {<<"icache", i>>, <<"dcache", i>>, <<"interrupts", i>>}
    <3>1. \/ \E i \in 0 .. n - 1 : req.at \in {<<"icache", i, "cpu_side">>, <<"dcache", i, "cpu_side">>,
                                        <<"interrupts", i, "pio">>, <<"interrupts", i, "int_slave">>}
          \/ req.at \in {Slave("membus"), Slave("iobus")}
          \/ req.at \in {<<"bridge", 0, "slave">>, <<"iocache", 0, "cpu_side">>, <<"apicbridge", 0, "slave">>,
                         <<"mem_ctrl", 0, "port">>, <<"badaddr", 0, "pio">>, <<"io_apic", 0, "pio">>,
                         <<"pci_host", 0, "pio">>}
      BY <2>1 DEF BoardPlaces, Ends
    <3>2. CASE \E i \in 0 .. n - 1 : req.at \in {<<"icache", i, "cpu_side">>, <<"dcache", i, "cpu_side">>,
                                        <<"interrupts", i, "pio">>, <<"interrupts", i, "int_slave">>}
      BY <1>1, <3>2, Names
    <3>3. CASE req.at \in {Slave("membus"), Slave("iobus")}
      BY <1>1, <3>3, Names
    <3>4. CASE req.at \in {<<"bridge", 0, "slave">>, <<"iocache", 0, "cpu_side">>, <<"apicbridge", 0, "slave">>,
                         <<"mem_ctrl", 0, "port">>, <<"badaddr", 0, "pio">>, <<"io_apic", 0, "pio">>,
                         <<"pci_host", 0, "pio">>}
      BY <1>1, <3>4, Names
    <3> QED
      BY <3>1, <3>2, <3>3, <3>4
  <2> QED
    BY <2>2, <2>3
<1>3. CASE ~FullSystem
  <2>1. PlainPlaces(config.script, req)
    BY <1>3 DEF OnItsWay, FullSystem
  <2>2. /\ {One("membus"), One("mem_ctrl")} \subseteq made
        /\ config.script \in {"two_level", "two_level_opts"} =>
              {<<"icache", 0>>, <<"dcache", 0>>, One("l2bus"), One("l2cache")} \subseteq made
        /\ config.script = "simple_memobj" => One("memobj") \in made
        /\ config.script = "simple_cache" => One("cache") \in made
    BY <1>1, <1>3, PlainMade
  <2>3. CASE /\ config.script \in {"two_level", "two_level_opts"}
             /\ req.at \in {<<"icache", 0, "cpu_side">>, <<"dcache", 0, "cpu_side">>, Slave("l2bus"),
                            <<"l2cache", 0, "cpu_side">>}
    BY <1>1, <2>2, <2>3, Names
  <2>4. CASE /\ config.script = "simple_memobj"
             /\ req.at \in {<<"memobj", 0, "inst_port">>, <<"memobj", 0, "data_port">>}
    BY <1>1, <2>2, <2>4, Names
  <2>5. CASE config.script = "simple_cache" /\ req.at = <<"cache", 0, "cpu_side">>
    BY <1>1, <2>2, <2>5, Names
  <2>6. CASE req.at \in {Slave("membus"), <<"mem_ctrl", 0, "port">>}
    BY <1>1, <2>2, <2>6, Names
  <2> QED
    BY <2>1, <2>3, <2>4, <2>5, <2>6 DEF PlainPlaces
<1> QED
  BY <1>2, <1>3

(* The ports that simulation needs connected, object by object.          *)
LEMMA RequiredAre ==
  /\ \A i : \A p \in RequiredPorts(<<"cpu", i>>) :
        \/ p \in {<<"cpu", i, "icache_port">>, <<"cpu", i, "dcache_port">>}
        \/ FullSystem /\ p \in {<<"cpu", i, "itb_walker">>, <<"cpu", i, "dtb_walker">>}
  /\ \A i : \A p \in RequiredPorts(<<"interrupts", i>>) :
        /\ config.isa = "x86"
        /\ p \in {<<"interrupts", i, "pio">>, <<"interrupts", i, "int_master">>, <<"interrupts", i, "int_slave">>}
  /\ \A p \in RequiredPorts(One("memobj")) :
        p \in {<<"memobj", 0, "inst_port">>, <<"memobj", 0, "data_port">>, <<"memobj", 0, "mem_side">>}
  /\ \A c \in {"cache", "icache", "dcache", "l2cache", "iocache"} : \A i : \A p \in RequiredPorts(<<c, i>>) :
        p = <<c, i, "cpu_side">> \/ p = <<c, i, "mem_side">>
  /\ \A b \in {"bridge", "apicbridge"} : \A p \in RequiredPorts(One(b)) : p = <<b, 0, "slave">> \/ p = <<b, 0, "master">>
  /\ \A p \in RequiredPorts(One("mem_ctrl")) : p = <<"mem_ctrl", 0, "port">>
  /\ \A p \in RequiredPorts(One("badaddr")) : p = <<"badaddr", 0, "pio">>
  /\ \A p \in RequiredPorts(One("system")) : p = <<"system", 0, "system_port">>
  /\ \A o \in {"membus", "l2bus", "iobus", "io_apic", "ide", "pci_host"} : RequiredPorts(One(o)) = {}
<1>1. \A i : \A p \in RequiredPorts(<<"cpu", i>>) :
        \/ p \in {<<"cpu", i, "icache_port">>, <<"cpu", i, "dcache_port">>}
        \/ FullSystem /\ p \in {<<"cpu", i, "itb_walker">>, <<"cpu", i, "dtb_walker">>}
  BY DEF RequiredPorts, Port, FullSystem
<1>2. \A i : \A p \in RequiredPorts(<<"interrupts", i>>) :
        /\ config.isa = "x86"
        /\ p \in {<<"interrupts", i, "pio">>, <<"interrupts", i, "int_master">>, <<"interrupts", i, "int_slave">>}
  BY DEF RequiredPorts, Port
<1>3. \A p \in RequiredPorts(One("memobj")) :
        p \in {<<"memobj", 0, "inst_port">>, <<"memobj", 0, "data_port">>, <<"memobj", 0, "mem_side">>}
  BY DEF RequiredPorts, Port, One, SimpleMemobjPorts
<1>4. \A c \in {"cache", "icache", "dcache", "l2cache", "iocache"} : \A i : \A p \in RequiredPorts(<<c, i>>) :
        p = <<c, i, "cpu_side">> \/ p = <<c, i, "mem_side">>
  BY DEF RequiredPorts, Port, SimpleCachePorts
<1>5. \A b \in {"bridge", "apicbridge"} : \A p \in RequiredPorts(One(b)) : p = <<b, 0, "slave">> \/ p = <<b, 0, "master">>
  BY DEF RequiredPorts, Port, One
<1>6. \A p \in RequiredPorts(One("mem_ctrl")) : p = <<"mem_ctrl", 0, "port">>
  BY DEF RequiredPorts, Port, One
<1>7. \A p \in RequiredPorts(One("badaddr")) : p = <<"badaddr", 0, "pio">>
  BY DEF RequiredPorts, Port, One
<1>8. \A p \in RequiredPorts(One("system")) : p = <<"system", 0, "system_port">>
  BY DEF RequiredPorts, Port, One
<1>9. \A o \in {"membus", "l2bus", "iobus", "io_apic", "ide", "pci_host"} : RequiredPorts(One(o)) = {}
  BY DEF RequiredPorts, Port, One
<1> QED
  BY <1>1, <1>2, <1>3, <1>4, <1>5, <1>6, <1>7, <1>8, <1>9

(* A port at either end of a wire is connected.                          *)
LEMMA EndsBound ==
  ASSUME Executed, pc = Len(Program), status # "failed"
  PROVE  \A p, q : Wired(p, q) \in WiresOf(config) => Bound(p) /\ Bound(q)
<1>1. \A w : w \in wires <=> w \in WiresOf(config)
  BY BuiltAtEnd
<1>2. \A p, q : Wired(p, q)[1] = p /\ Wired(p, q)[2] = q
  BY DEF Wired
<1> QED
  BY <1>1, <1>2 DEF Bound

(* When the full system's script is done, no port it needs is open.      *)
LEMMA BoardLinked ==
  ASSUME Executed, pc = Len(Program), status # "failed", FullSystem, NEW o \in made, NEW p \in RequiredPorts(o)
  PROVE  Bound(p)
<1>1. PICK n : n = config.cpus
  OBVIOUS
<1>2. \A a, b : Joins(a, b, n) => Bound(a) /\ Bound(b)
  <2>1. n \in Nat /\ WiresOf(config) = FSWires(n)
    BY <1>1, ConfigFacts DEF Executed, WiresOf, FullSystem
  <2> QED
    BY <2>1, FSJoins, EndsBound
<1>3. /\ Bound(<<"badaddr", 0, "pio">>) /\ Bound(<<"system", 0, "system_port">>)
      /\ Bound(<<"bridge", 0, "master">>) /\ Bound(<<"bridge", 0, "slave">>)
      /\ Bound(<<"apicbridge", 0, "master">>) /\ Bound(<<"apicbridge", 0, "slave">>)
      /\ Bound(<<"iocache", 0, "mem_side">>) /\ Bound(<<"iocache", 0, "cpu_side">>)
      /\ Bound(<<"mem_ctrl", 0, "port">>)
  <2>1. /\ Joins(<<"membus", 0, "default">>, <<"badaddr", 0, "pio">>, n)
        /\ Joins(<<"system", 0, "system_port">>, Slave("membus"), n)
        /\ Joins(<<"bridge", 0, "master">>, Slave("iobus"), n)
        /\ Joins(Master("membus"), <<"bridge", 0, "slave">>, n)
        /\ Joins(<<"apicbridge", 0, "master">>, Slave("membus"), n)
        /\ Joins(Master("iobus"), <<"apicbridge", 0, "slave">>, n)
        /\ Joins(<<"iocache", 0, "mem_side">>, Slave("membus"), n)
        /\ Joins(Master("iobus"), <<"iocache", 0, "cpu_side">>, n)
        /\ Joins(Master("membus"), <<"mem_ctrl", 0, "port">>, n)
    BY Zenon DEF Joins
  <2> QED
    BY <1>2, <2>1
<1>4. ASSUME NEW i \in 0 .. n - 1
      PROVE  /\ Bound(<<"cpu", i, "icache_port">>) /\ Bound(<<"cpu", i, "dcache_port">>)
             /\ Bound(<<"cpu", i, "itb_walker">>) /\ Bound(<<"cpu", i, "dtb_walker">>)
             /\ Bound(<<"icache", i, "cpu_side">>) /\ Bound(<<"icache", i, "mem_side">>)
             /\ Bound(<<"dcache", i, "cpu_side">>) /\ Bound(<<"dcache", i, "mem_side">>)
             /\ Bound(<<"interrupts", i, "pio">>) /\ Bound(<<"interrupts", i, "int_master">>)
             /\ Bound(<<"interrupts", i, "int_slave">>)
  <2>1. /\ Joins(<<"cpu", i, "icache_port">>, <<"icache", i, "cpu_side">>, n)
        /\ Joins(<<"cpu", i, "dcache_port">>, <<"dcache", i, "cpu_side">>, n)
        /\ Joins(<<"cpu", i, "itb_walker">>, Slave("membus"), n)
        /\ Joins(<<"cpu", i, "dtb_walker">>, Slave("membus"), n)
        /\ Joins(<<"icache", i, "mem_side">>, Slave("membus"), n)
        /\ Joins(<<"dcache", i, "mem_side">>, Slave("membus"), n)
        /\ Joins(Master("membus"), <<"interrupts", i, "pio">>, n)
        /\ Joins(<<"interrupts", i, "int_master">>, Slave("membus"), n)
        /\ Joins(Master("membus"), <<"interrupts", i, "int_slave">>, n)
    BY Zenon DEF Joins
  <2> QED
    BY <1>2, <2>1
<1>5. \/ o \in {One("system"), One("badaddr"), One("mem_ctrl"), One("bridge"), One("apicbridge"), One("iocache")}
      \/ o \in {One("membus"), One("iobus"), One("io_apic"), One("ide"), One("pci_host")}
      \/ \E i \in 0 .. n - 1 : o \in {<<"cpu", i>>, <<"icache", i>>, <<"dcache", i>>, <<"interrupts", i>>}
  BY <1>1, BoardMade DEF BoardObjects
<1>6. CASE o \in {One("membus"), One("iobus"), One("io_apic"), One("ide"), One("pci_host")}
  BY <1>6, RequiredAre
<1>7. CASE o \in {One("system"), One("badaddr"), One("mem_ctrl"), One("bridge"), One("apicbridge"), One("iocache")}
  <2>1. CASE o \in {One("system"), One("badaddr"), One("mem_ctrl")}
    BY <1>3, <2>1, RequiredAre
  <2>2. CASE o \in {One("bridge"), One("apicbridge")}
    BY <1>3, <2>2, RequiredAre
  <2>3. CASE o = <<"iocache", 0>>
    <3>1. p = <<"iocache", 0, "cpu_side">> \/ p = <<"iocache", 0, "mem_side">>
      BY <2>3, RequiredAre
    <3> QED
      BY <1>3, <3>1
  <2> QED
    BY <1>7, <2>1, <2>2, <2>3 DEF One
<1>8. ASSUME NEW i \in 0 .. n - 1, o \in {<<"cpu", i>>, <<"icache", i>>, <<"dcache", i>>, <<"interrupts", i>>}
      PROVE  Bound(p)
  <2>1. CASE o = <<"cpu", i>>
    <3>1. p \in {<<"cpu", i, "icache_port">>, <<"cpu", i, "dcache_port">>, <<"cpu", i, "itb_walker">>,
                 <<"cpu", i, "dtb_walker">>}
      BY <2>1, RequiredAre
    <3> QED
      BY <1>4, <3>1
  <2>2. CASE o = <<"interrupts", i>>
    <3>1. p \in {<<"interrupts", i, "pio">>, <<"interrupts", i, "int_master">>, <<"interrupts", i, "int_slave">>}
      BY <2>2, RequiredAre
    <3> QED
      BY <1>4, <3>1
  <2>3. CASE o = <<"icache", i>>
    <3>1. p = <<"icache", i, "cpu_side">> \/ p = <<"icache", i, "mem_side">>
      BY <2>3, RequiredAre
    <3> QED
      BY <1>4, <3>1
  <2>4. CASE o = <<"dcache", i>>
    <3>1. p = <<"dcache", i, "cpu_side">> \/ p = <<"dcache", i, "mem_side">>
      BY <2>4, RequiredAre
    <3> QED
      BY <1>4, <3>1
  <2> QED
    BY <1>8, <2>1, <2>2, <2>3, <2>4
<1> QED
  BY <1>5, <1>6, <1>7, <1>8

(* The same for the other scripts.                                       *)
LEMMA PlainLinked ==
  ASSUME Executed, pc = Len(Program), status # "failed", ~FullSystem, NEW o \in made, NEW p \in RequiredPorts(o)
  PROVE  Bound(p)
<1>1. \A a, b : PlainWire(config, a, b) => Bound(a) /\ Bound(b)
  BY PlainWires, EndsBound DEF Executed
<1>2. \A a, b : MemoryJoins(a, b, config.isa = "x86") => Bound(a) /\ Bound(b)
  BY <1>1 DEF PlainWire
<1>3. Bound(<<"mem_ctrl", 0, "port">>) /\ Bound(<<"system", 0, "system_port">>)
  <2>1. /\ MemoryJoins(Master("membus"), <<"mem_ctrl", 0, "port">>, config.isa = "x86")
        /\ MemoryJoins(<<"system", 0, "system_port">>, Slave("membus"), config.isa = "x86")
    BY Zenon DEF MemoryJoins
  <2> QED
    BY <1>2, <2>1
<1>4. ASSUME config.isa = "x86"
      PROVE  /\ Bound(<<"interrupts", 0, "pio">>) /\ Bound(<<"interrupts", 0, "int_master">>)
             /\ Bound(<<"interrupts", 0, "int_slave">>)
  <2>1. /\ MemoryJoins(Master("membus"), <<"interrupts", 0, "pio">>, config.isa = "x86")
        /\ MemoryJoins(<<"interrupts", 0, "int_master">>, Slave("membus"), config.isa = "x86")
        /\ MemoryJoins(Master("membus"), <<"interrupts", 0, "int_slave">>, config.isa = "x86")
    BY <1>4, Zenon DEF MemoryJoins
  <2> QED
    BY <1>2, <2>1
<1>5. ASSUME NEW i, NEW d, \A a, b : CPUJoins(a, b, i, d) => PlainWire(config, a, b)
      PROVE  /\ Bound(<<"cpu", 0, "icache_port">>) /\ Bound(<<"cpu", 0, "dcache_port">>)
             /\ Bound(i) /\ Bound(d)
  <2>1. CPUJoins(<<"cpu", 0, "icache_port">>, i, i, d) /\ CPUJoins(<<"cpu", 0, "dcache_port">>, d, i, d)
    BY Zenon DEF CPUJoins
  <2> QED
    BY <1>1, <1>5, <2>1
<1>6. ASSUME config.script \in {"two_level", "two_level_opts"}
      PROVE  /\ Bound(<<"cpu", 0, "icache_port">>) /\ Bound(<<"cpu", 0, "dcache_port">>)
             /\ Bound(<<"icache", 0, "cpu_side">>) /\ Bound(<<"icache", 0, "mem_side">>)
             /\ Bound(<<"dcache", 0, "cpu_side">>) /\ Bound(<<"dcache", 0, "mem_side">>)
             /\ Bound(<<"l2cache", 0, "cpu_side">>) /\ Bound(<<"l2cache", 0, "mem_side">>)
  <2>1. \A a, b : LevelJoins(a, b) => PlainWire(config, a, b)
    BY <1>6 DEF PlainWire
  <2>2. \A a, b : CPUJoins(a, b, <<"icache", 0, "cpu_side">>, <<"dcache", 0, "cpu_side">>) => PlainWire(config, a, b)
    BY <1>6 DEF PlainWire
  <2>3. /\ LevelJoins(<<"icache", 0, "mem_side">>, Slave("l2bus"))
        /\ LevelJoins(<<"dcache", 0, "mem_side">>, Slave("l2bus"))
        /\ LevelJoins(Master("l2bus"), <<"l2cache", 0, "cpu_side">>)
        /\ LevelJoins(<<"l2cache", 0, "mem_side">>, Slave("membus"))
    BY Zenon DEF LevelJoins
  <2> QED
    BY <1>1, <1>5, <2>1, <2>2, <2>3
<1>7. ASSUME config.script = "simple_memobj"
      PROVE  /\ Bound(<<"cpu", 0, "icache_port">>) /\ Bound(<<"cpu", 0, "dcache_port">>)
             /\ Bound(<<"memobj", 0, "inst_port">>) /\ Bound(<<"memobj", 0, "data_port">>)
             /\ Bound(<<"memobj", 0, "mem_side">>)
  <2>1. PlainWire(config, <<"memobj", 0, "mem_side">>, Slave("membus"))
    BY <1>7 DEF PlainWire
  <2>2. \A a, b : CPUJoins(a, b, <<"memobj", 0, "inst_port">>, <<"memobj", 0, "data_port">>)
            => PlainWire(config, a, b)
    BY <1>7 DEF PlainWire
  <2> QED
    BY <1>1, <1>5, <2>1, <2>2
<1>8. ASSUME config.script = "simple_cache"
      PROVE  /\ Bound(<<"cpu", 0, "icache_port">>) /\ Bound(<<"cpu", 0, "dcache_port">>)
             /\ Bound(<<"cache", 0, "cpu_side">>) /\ Bound(<<"cache", 0, "mem_side">>)
  <2>1. PlainWire(config, <<"cache", 0, "mem_side">>, Slave("membus"))
    BY <1>8 DEF PlainWire
  <2>2. \A a, b : CPUJoins(a, b, <<"cache", 0, "cpu_side">>, <<"cache", 0, "cpu_side">>) => PlainWire(config, a, b)
    BY <1>8 DEF PlainWire
  <2> QED
    BY <1>1, <1>5, <2>1, <2>2
<1>9. Bound(<<"cpu", 0, "icache_port">>) /\ Bound(<<"cpu", 0, "dcache_port">>)
  <2>1. ASSUME config.script = "simple" PROVE Bound(<<"cpu", 0, "icache_port">>) /\ Bound(<<"cpu", 0, "dcache_port">>)
    <3>1. \A a, b : CPUJoins(a, b, Slave("membus"), Slave("membus")) => PlainWire(config, a, b)
      BY <2>1 DEF PlainWire
    <3> QED
      BY <1>5, <3>1
  <2> QED
    BY <1>6, <1>7, <1>8, <2>1, ConfigFacts DEF Executed, FullSystem
<1>10. \/ o \in {One("system"), One("mem_ctrl"), One("membus")} \/ o = <<"cpu", 0>> \/ o = <<"interrupts", 0>>
       \/ /\ config.script \in {"two_level", "two_level_opts"}
          /\ o \in {<<"icache", 0>>, <<"dcache", 0>>, One("l2bus"), <<"l2cache", 0>>}
       \/ config.script = "simple_memobj" /\ o = One("memobj")
       \/ config.script = "simple_cache" /\ o = <<"cache", 0>>
  BY PlainMade DEF One
<1>11. CASE o \in {One("system"), One("mem_ctrl"), One("membus")}
  BY <1>3, <1>11, RequiredAre
<1>12. CASE o = <<"cpu", 0>>
  BY <1>9, <1>12, RequiredAre
<1>13. CASE o = <<"interrupts", 0>>
  BY <1>4, <1>13, RequiredAre
<1>14. CASE /\ config.script \in {"two_level", "two_level_opts"}
            /\ o \in {<<"icache", 0>>, <<"dcache", 0>>, One("l2bus"), <<"l2cache", 0>>}
  <2>1. CASE o = <<"icache", 0>>
    BY <1>6, <1>14, <2>1, RequiredAre
  <2>2. CASE o = <<"dcache", 0>>
    BY <1>6, <1>14, <2>2, RequiredAre
  <2>3. CASE o = <<"l2cache", 0>>
    BY <1>6, <1>14, <2>3, RequiredAre
  <2>4. CASE o = One("l2bus")
    BY <2>4, RequiredAre
  <2> QED
    BY <1>14, <2>1, <2>2, <2>3, <2>4
<1>15. CASE config.script = "simple_memobj" /\ o = One("memobj")
  BY <1>7, <1>15, RequiredAre
<1>16. CASE config.script = "simple_cache" /\ o = <<"cache", 0>>
  BY <1>8, <1>16, RequiredAre
<1> QED
  BY <1>10, <1>11, <1>12, <1>13, <1>14, <1>15, <1>16
---------------------------------------------------------------------------
(* A statement about two ports finds both objects made, and both ports   *)
(* free.                                                                 *)
LEMMA BindGoes ==
  ASSUME Executed, status = "building", pc < Len(Program), Statement.op = "bind"
  PROVE  CanBind(Statement.a, Statement.b)
<1>1. PICK O, K : Sound(Program, {}, O, K)
  BY ProgramSound DEF Executed
<1>2. pc \in Nat /\ Len(Program) \in Nat /\ MadeSoFar /\ WiresSoFar
  BY <1>1 DEF Sound, Executed
<1>3. PICK k : k = pc + 1
  OBVIOUS
<1>4. k \in 1 .. Len(Program) /\ Statement = Program[k] /\ k - 1 = pc
  BY <1>2, <1>3 DEF Statement
<1>5. PICK p, q : p = Statement.a /\ q = Statement.b
  OBVIOUS
<1>6. Program[k] = Bind(p, q)
  BY <1>2, <1>4, <1>5, StatementKinds DEF Executed
<1>7. Fits(p, q)
  BY <1>1, <1>4, <1>6, Distinct DEF Sound, Proper
<1>8. Touches(Program[k]) = {p, q}
  BY <1>6, TouchesAre
<1>9. \A x \in {p, q} : Object(x) \in made
  <2>1. \A x \in {p, q} : Reachable(Program, {}, k, Object(x))
    BY <1>1, <1>4, <1>8 DEF Sound
  <2> QED
    BY <1>2, <1>4, <2>1 DEF Reachable, MadeSoFar
<1>10. ASSUME NEW x \in {p, q}, Bound(x) PROVE VectorPort(x)
  <2>1. PICK w \in wires : x \in {w[1], w[2]}
    BY <1>10 DEF Bound
  <2>2. PICK j \in 1 .. pc : \E a, b : Program[j] = Bind(a, b) /\ w = Wire(a, b)
    BY <1>2, <2>1 DEF WiresSoFar
  <2>3. PICK a, b : Program[j] = Bind(a, b) /\ w = Wire(a, b)
    BY <2>2
  <2>4. x \in {a, b}
    BY <2>1, <2>3 DEF Wire
  <2>5. x \in Touches(Program[j]) \cap Touches(Program[k])
    BY <1>8, <2>3, <2>4, TouchesAre
  <2>6. j \in 1 .. Len(Program) /\ j < k
    BY <1>2, <1>3
  <2> QED
    BY <1>1, <1>4, <2>5, <2>6 DEF Sound, Once
<1> QED
  BY <1>5, <1>7, <1>9, <1>10 DEF CanBind, Fits

(* What the options of a configuration can lack.                         *)
LEMMA OptsAre ==
  ASSUME config \in Configs
  PROVE  \/ config.opts = {}
         \/ config.opts = {ParsedOptions}
         \/ FullSystem /\ config.opts = {ScriptOptions}
         \/ FullSystem /\ config.opts = {ScriptOptions \cup CacheOptions}
<1> DEFINE Run(script, isas, cpus, opts) == [script : {script}, isa : isas, cpus : cpus, opts : opts]
           parsed == {{ScriptOptions}, {ScriptOptions \cup CacheOptions}}
<1>1. \A script, isas, cpus, opts : \A c \in Run(script, isas, cpus, opts) : c.script = script /\ c.opts \in opts
  OBVIOUS
<1>2. \/ config \in Run("simple", {"x86", "arm"}, {1}, {{}})
      \/ config \in Run("two_level", {"x86", "arm"}, {1}, {{}})
      \/ config \in Run("two_level_opts", {"x86", "arm"}, {1}, {{ParsedOptions}})
      \/ config \in Run("simple_memobj", {"x86"}, {1}, {{}})
      \/ config \in Run("simple_cache", {"x86"}, {1}, {{}})
      \/ config \in Run("system", {"x86"}, {1}, parsed)
      \/ config \in Run("system_mp", {"x86"}, CPUCounts, parsed)
  BY DEF Configs
<1> HIDE DEF Run
<1>3. \/ config.opts \in {{}}
      \/ config.opts \in {{ParsedOptions}}
      \/ config.script \in {"system", "system_mp"} /\ config.opts \in parsed
  BY <1>1, <1>2
<1> QED
  BY <1>3 DEF FullSystem

(* A constructor that reads an option finds it, but in the full system   *)
(* without the options of the caches.                                    *)
LEMMA OptionMissing ==
  ASSUME Executed, pc < Len(Program), Statement.op = "option",
         NEW opts \in config.opts, Statement.a \notin opts
  PROVE  FullSystem /\ config.opts = {ScriptOptions}
<1>1. PICK O, K : Sound(Program, {}, O, K)
  BY ProgramSound DEF Executed
<1>2. config \in Configs /\ pc \in Nat /\ Len(Program) \in Nat /\ pc + 1 \in 1 .. Len(Program)
  BY <1>1 DEF Sound, Executed
<1>3. Proper(Statement)
  BY <1>1, <1>2 DEF Sound, Statement
<1>4. PICK s : s = Statement
  OBVIOUS
<1>5. \E f \in CacheOptions : s = ReadOption(f)
  BY <1>3, <1>4 DEF Proper, Make, Bind, Install, ReadOption
<1>6. Statement.a \in CacheOptions
  BY <1>4, <1>5 DEF ReadOption
<1>7. CacheOptions \subseteq ParsedOptions /\ CacheOptions \subseteq ScriptOptions \cup CacheOptions
  BY DEF CacheOptions, ParsedOptions
<1> QED
  BY <1>2, <1>6, <1>7, OptsAre

(* An object that a statement makes is one of the configuration.         *)
LEMMA MakesObject ==
  ASSUME Executed, pc < Len(Program), Statement.op = "make"
  PROVE  Statement.a \in Objects
<1>1. PICK K : Sound(Program, {}, ObjectsOf(config), K)
  BY ProgramSound DEF Executed
<1>2. config \in Configs /\ pc \in Nat /\ Len(Program) \in Nat /\ pc + 1 \in 1 .. Len(Program)
  BY <1>1 DEF Sound, Executed
<1>3. Program[pc + 1] = Make(Statement.a)
  BY <1>2, StatementKinds DEF Statement
<1>4. Statement.a \in ObjectsOf(config)
  BY <1>1, <1>2, <1>3 DEF Sound
<1> QED
  BY <1>2, <1>4, OfObjects

(* No port both makes and answers requests.                              *)
LEMMA WireTyped ==
  ASSUME NEW p, NEW q, Fits(p, q)
  PROVE  RequestPort(Wire(p, q)[1]) /\ ResponsePort(Wire(p, q)[2]) /\ {Wire(p, q)[1], Wire(p, q)[2]} = {p, q}
<1>1. \A x : ~(RequestPort(x) /\ ResponsePort(x))
  BY DEF RequestPort, ResponsePort
<1> HIDE DEF RequestPort, ResponsePort
<1>2. CASE RequestPort(p)
  BY <1>1, <1>2 DEF Wire, Fits
<1>3. CASE ~RequestPort(p)
  BY <1>1, <1>3 DEF Wire, Fits
<1> QED
  BY <1>2, <1>3

(* The tables that init_fs leaves.                                       *)
LEMMA TablesAre ==
  \A t \in Tables : DOMAIN t = {"mp", "ioapicId", "e820", "bridge", "apicbridge", "iocache"}
  BY DEF Tables, Firmware

WiresTyped == \A w \in wires : /\ RequestPort(w[1]) /\ ResponsePort(w[2])
                               /\ {Object(w[1]), Object(w[2])} \subseteq made
TableFields == {"mp", "ioapicId", "e820", "bridge", "apicbridge", "iocache"}
FirmwareTyped == firmware = NoFirmware \/ DOMAIN firmware = TableFields

Typed == /\ config \in Configs
         /\ pc \in 0 .. Len(Program)
         /\ made \subseteq Objects
         /\ WiresTyped
         /\ FirmwareTyped
         /\ status \in {"building", "failed", "running", "loop", "overlap", "nowhere"}
         /\ status = "failed" => FullSystem /\ config.opts = {ScriptOptions} /\ Program[pc].op = "option"
         /\ req = NoRequest \/ req.path \subseteq made

(* TypeOK is the conjunction of its named parts.                         *)
LEMMA TypeParts == (TypeOK <=> Typed) /\ (TypeOK' <=> Typed')
  BY DEF TypeOK, Typed, WiresTyped, FirmwareTyped, TableFields

(* TypeOK holds at first.                                                *)
LEMMA TypeInit == Init => TypeOK
<1> SUFFICES ASSUME Init PROVE TypeOK
  OBVIOUS
<1>1. Executed
  BY ExecutedInit
<1>2. config \in Configs /\ pc \in 0 .. Len(Program)
  BY <1>1 DEF Executed
<1>3. made = {} /\ wires = {} /\ firmware = NoFirmware /\ status = "building" /\ req = NoRequest
  BY DEF Init
<1> QED
  BY <1>2, <1>3, TypeParts DEF Typed, WiresTyped, FirmwareTyped

(* While the script is executed, each statement leads to a typed state,  *)
(* and m5.instantiate() to a running system; it needs what Executed says *)
(* of the statements before.                                             *)
LEMMA TypeBuild ==
  ASSUME Executed, TypeOK, Executed', Routed,
         MakeObject \/ ConnectPorts \/ ReadSize \/ InstallFirmware \/ Instantiate
  PROVE  TypeOK'
<1>1. status = "building" /\ config' = config /\ req' = req
  BY DEF MakeObject, ConnectPorts, ReadSize, InstallFirmware, Instantiate, Executes
<1>2. config' \in Configs /\ pc' \in 0 .. Len(Program')
  BY DEF Executed
<1>3. Program' = Program /\ Objects' = Objects /\ (FullSystem' <=> FullSystem)
  BY <1>1, SameScript DEF Objects, Caches, CPUs, Busses, Bridges, FullSystem
<1>4. made \subseteq Objects /\ WiresTyped /\ FirmwareTyped
  BY TypeParts DEF Typed
<1>5. req' = NoRequest
  BY <1>1 DEF Routed, Done
<1>6. ASSUME made' \subseteq Objects, WiresTyped', FirmwareTyped', status' = "building" \/ status' = "running"
      PROVE  TypeOK'
  BY <1>2, <1>3, <1>5, <1>6, TypeParts DEF Typed
<1>7. ASSUME made' = made, wires' = wires PROVE made' \subseteq Objects /\ WiresTyped'
  BY <1>4, <1>7 DEF WiresTyped
<1>8. CASE MakeObject
  <2>1. /\ pc < Len(Program) /\ Statement.op = "make" /\ made' = made \cup {Statement.a} /\ wires' = wires
        /\ firmware' = firmware /\ status' = "building"
    BY <1>1, <1>8 DEF MakeObject, Executes
  <2>2. made' \subseteq Objects
    BY <1>4, <2>1, MakesObject
  <2>3. WiresTyped' /\ FirmwareTyped'
    BY <1>4, <2>1 DEF WiresTyped, FirmwareTyped
  <2> QED
    BY <1>6, <2>1, <2>2, <2>3
<1>9. CASE ConnectPorts
  <2>1. PICK p, q : p = Statement.a /\ q = Statement.b
    OBVIOUS
  <2>2. pc < Len(Program) /\ Statement.op = "bind"
    BY <1>9 DEF ConnectPorts, Executes
  <2>3. CanBind(p, q)
    BY <1>1, <2>1, <2>2, BindGoes
  <2>4. /\ wires' = wires \cup {Wire(p, q)} /\ made' = made /\ firmware' = firmware /\ status' = status
    BY <1>9, <2>1, <2>3 DEF ConnectPorts, Wire
  <2>5. Fits(p, q) /\ {Object(p), Object(q)} \subseteq made
    BY <2>3 DEF CanBind, Fits
  <2>6. PICK w : w = Wire(p, q)
    OBVIOUS
  <2>7. RequestPort(w[1]) /\ ResponsePort(w[2]) /\ {Object(w[1]), Object(w[2])} \subseteq made
    BY <2>5, <2>6, WireTyped
  <2>8. WiresTyped' /\ FirmwareTyped' /\ made' \subseteq Objects
    BY <1>4, <2>4, <2>6, <2>7 DEF WiresTyped, FirmwareTyped
  <2> QED
    BY <1>1, <1>6, <2>4, <2>8
<1>10. CASE ReadSize
  <2>1. pc < Len(Program) /\ Statement.op = "option" /\ pc' = pc + 1
    BY <1>10 DEF ReadSize, Executes
  <2>2. /\ made' = made /\ wires' = wires /\ firmware' = firmware
        /\ \/ status' = status
           \/ status' = "failed" /\ \E opts \in config.opts : Statement.a \notin opts
    BY <1>10 DEF ReadSize, Fail
  <2>3. WiresTyped' /\ FirmwareTyped' /\ made' \subseteq Objects
    BY <1>4, <1>7, <2>2 DEF FirmwareTyped
  <2>4. CASE status' = status
    BY <1>1, <1>6, <2>3, <2>4
  <2>5. CASE status' = "failed" /\ \E opts \in config.opts : Statement.a \notin opts
    <3>1. FullSystem /\ config.opts = {ScriptOptions}
      BY <2>1, <2>5, OptionMissing
    <3>2. Program'[pc'].op = "option"
      BY <1>3, <2>1 DEF Statement
    <3> QED
      BY <1>1, <1>2, <1>3, <1>5, <2>3, <2>5, <3>1, <3>2, TypeParts DEF Typed
  <2> QED
    BY <2>2, <2>4, <2>5
<1>11. CASE InstallFirmware
  <2>1. /\ pc < Len(Program) /\ Statement.op = "install" /\ firmware' = Statement.a /\ made' = made
        /\ wires' = wires /\ status' = status
    BY <1>11 DEF InstallFirmware, Executes
  <2>2. Statement.a \in Tables
    BY <2>1, StatementKinds DEF Executed
  <2>3. FirmwareTyped'
    BY <2>1, <2>2, TablesAre DEF FirmwareTyped, TableFields
  <2> QED
    BY <1>1, <1>6, <1>7, <2>1, <2>3
<1>12. CASE Instantiate
  <2>1. /\ pc = Len(Program) /\ made' = made /\ wires' = wires /\ firmware' = firmware
        /\ (\A o \in made : \A p \in RequiredPorts(o) : Bound(p)) => status' = "running"
    BY <1>12 DEF Instantiate
  <2>2. \A o \in made : \A p \in RequiredPorts(o) : Bound(p)
    BY <1>1, <2>1, BoardLinked, PlainLinked
  <2>3. FirmwareTyped'
    BY <1>4, <2>1 DEF FirmwareTyped
  <2> QED
    BY <1>6, <1>7, <2>1, <2>2, <2>3
<1> QED
  BY <1>8, <1>9, <1>10, <1>11, <1>12

(* A request that is handed on has passed an object that exists.         *)
LEMMA PathMade ==
  ASSUME Executed, Done, OnItsWay(config, req), req.path \subseteq made, NEW t, GoOn(t)
  PROVE  req'.path \subseteq made /\ status' = status
<1>1. IsRequest(req)
  BY DEF OnItsWay
<1>2. req'.path = req.path \cup {Here} /\ status' = status
  BY <1>1, Moved
<1> QED
  BY <1>2, HereMade

(* Every step leads from a typed state to a typed state.                 *)
LEMMA TypeStep == Executed /\ Routed /\ TypeOK /\ Executed' /\ [Next]_vars => TypeOK'
<1> SUFFICES ASSUME Executed, Routed, TypeOK, Executed', [Next]_vars PROVE TypeOK'
  OBVIOUS
<1>1. ASSUME UNCHANGED <<config, pc, made, wires, firmware>>, status = "running",
             status' \in {"running", "loop", "overlap", "nowhere"},
             req' = NoRequest \/ req'.path \subseteq made
      PROVE  TypeOK'
  <2>1. Objects' = Objects /\ config' \in Configs /\ pc' \in 0 .. Len(Program')
    BY <1>1 DEF Objects, Caches, CPUs, Busses, Bridges, Executed
  <2>2. made \subseteq Objects /\ WiresTyped /\ FirmwareTyped
    BY TypeParts DEF Typed
  <2>3. made' \subseteq Objects' /\ WiresTyped' /\ FirmwareTyped'
    BY <1>1, <2>1, <2>2 DEF WiresTyped, FirmwareTyped
  <2> QED
    BY <1>1, <2>1, <2>3, TypeParts DEF Typed
<1>2. ASSUME NEW S, Sending(S)
      PROVE  /\ status = "running" /\ Done /\ OnItsWay(config, req) /\ req.path \subseteq made
             /\ UNCHANGED <<config, pc, made, wires, firmware>>
  <2>1. req # NoRequest /\ status = "running" /\ UNCHANGED <<config, pc, made, wires, firmware>>
    BY <1>2 DEF Sending
  <2> QED
    BY <2>1, TypeParts DEF Typed, Routed
<1>3. CASE Send
  <2>1. PICK r \in Requests : req' = [src |-> r[1], addr |-> r[2], at |-> Peer(r[1]), path |-> {}]
    BY <1>3 DEF Send
  <2>2. req'.path = {}
    BY <2>1
  <2>3. status = "running" /\ status' = status /\ UNCHANGED <<config, pc, made, wires, firmware>>
    BY <1>3 DEF Send
  <2> QED
    BY <1>1, <2>2, <2>3
<1>4. CASE ThroughBus
  <2>1. Sending(Busses)
    BY <1>4 DEF ThroughBus
  <2> DEFINE claimants == {p \in Peers(Port(Here, "mem_side_ports")) : Claims(p, req.addr)}
             nexts     == IF claimants = {} THEN Peers(Port(Here, "default")) ELSE claimants
             trouble   == CASE Here \in req.path      -> "loop"
                            [] Cardinality(nexts) > 1 -> "overlap"
                            [] nexts = {}             -> "nowhere"
                            [] OTHER                  -> "none"
  <2>2. \/ trouble = "none" /\ \E p \in nexts : GoOn(p)
        \/ trouble # "none" /\ status' = trouble /\ UNCHANGED req
    BY <1>4, Zenon DEF ThroughBus
  <2>3. trouble \in {"loop", "overlap", "nowhere", "none"}
    <3> HIDE DEF claimants, nexts
    <3> QED
      OBVIOUS
  <2> HIDE DEF claimants, nexts, trouble
  <2>4. CASE \E p \in nexts : GoOn(p)
    <3>1. PICK p \in nexts : GoOn(p)
      BY <2>4
    <3>2. req'.path \subseteq made /\ status' = status
      BY <1>2, <2>1, <3>1, PathMade
    <3> QED
      BY <1>1, <1>2, <2>1, <3>2
  <2>5. CASE trouble # "none" /\ status' = trouble /\ UNCHANGED req
    BY <1>1, <1>2, <2>1, <2>3, <2>5
  <2> QED
    BY <2>2, <2>4, <2>5
<1>5. CASE ThroughCache
  <2>1. Sending(Caches) /\ GoOn(Peer(Port(Here, "mem_side")))
    BY <1>5 DEF ThroughCache
  <2>2. req'.path \subseteq made /\ status' = status
    BY <1>2, <2>1, PathMade
  <2> QED
    BY <1>1, <1>2, <2>1, <2>2
<1>6. CASE ThroughBridge
  <2>1. Sending(Bridges) /\ GoOn(Peer(Port(Here, "master")))
    BY <1>6 DEF ThroughBridge
  <2>2. req'.path \subseteq made /\ status' = status
    BY <1>2, <2>1, PathMade
  <2> QED
    BY <1>1, <1>2, <2>1, <2>2
<1>7. CASE Answer
  BY <1>1, <1>7 DEF Answer
<1>8. CASE UNCHANGED vars
  <2>1. UNCHANGED <<config, pc, made, wires, firmware, status, req>>
    BY <1>8 DEF vars
  <2>2. Program' = Program /\ Objects' = Objects /\ (FullSystem' <=> FullSystem)
    BY <2>1, SameScript DEF Objects, Caches, CPUs, Busses, Bridges, FullSystem
  <2>3. WiresTyped' <=> WiresTyped
    BY <2>1 DEF WiresTyped
  <2>4. FirmwareTyped' <=> FirmwareTyped
    BY <2>1 DEF FirmwareTyped
  <2> QED
    BY <2>1, <2>2, <2>3, <2>4, TypeParts DEF Typed
<1> QED
  BY <1>3, <1>4, <1>5, <1>6, <1>7, <1>8, TypeBuild DEF Next

(* TypeOK of Platform: whatever the order in which a script of the three *)
(* parts creates and connects things, every statement finds the objects  *)
(* and the free ports it needs, a wire joins a request port to a         *)
(* response port, no port that simulation uses is left open, for every   *)
(* number of CPUs; a constructor fails only in the full system, whose    *)
(* run.py does not define the options of the caches.                     *)
THEOREM TypeCorrect == Spec => []TypeOK
<1>1. Init => Executed /\ Routed /\ TypeOK
  BY ExecutedInit, RoutedInit, TypeInit
<1>2. Executed /\ Routed /\ TypeOK /\ [Next]_vars => (Executed /\ Routed /\ TypeOK)'
  BY ExecutedStep, RoutedStep, TypeStep
<1> QED
  BY <1>1, <1>2, PTL DEF Spec
============================================================================
