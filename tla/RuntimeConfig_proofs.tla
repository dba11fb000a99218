----------------------- MODULE RuntimeConfig_proofs -------------------------
(***************************************************************************)
(* That the runner of a command is what the files, config.toml and the     *)
(* flags say of it, and that a claude session is resumed where it ran, for *)
(* all commands, files and configurations.                                 *)
(*                                                                         *)
(* The agents are resolved in any order, each after its base: RuntimeInv   *)
(* keeps that the names under way (path) are a line of different names,    *)
(* each the base of the one before, and that the line of a resolved agent  *)
(* ends, within as many steps as there are resolved names.  So every line  *)
(* ends when all are resolved, and one that comes back to itself or leaves *)
(* the files never does.  What an agent inherits is what the nearest of    *)
(* its line says, by induction over the steps of the line, for which the   *)
(* least element of a set of numbers stands in.                            *)
(***************************************************************************)
EXTENDS Resume, FiniteSetTheorems, SequenceTheorems, WellFoundedInduction, TLAPS

-----------------------------------------------------------------------------
(* Induction *)

LEMMA LeastElement ==
  ASSUME NEW S \in SUBSET Nat, S # {}
  PROVE  \E x \in S : \A y \in S : x <= y
<1>1. IsWellFoundedOn(OpToRel(<, Nat), Nat)
  BY NatLessThanWellFounded
<1>2. \E x \in S : \A y \in S : ~ (<<y, x>> \in OpToRel(<, Nat))
  BY <1>1, WFMin
<1>3. PICK x \in S : \A y \in S : ~ (<<y, x>> \in OpToRel(<, Nat))
  BY <1>2
<1>4. ASSUME NEW y \in S PROVE x <= y
  <2>1. x \in Nat /\ y \in Nat
    OBVIOUS
  <2>2. ~ (<<y, x>> \in OpToRel(<, Nat))
    BY <1>3
  <2>3. ~ (y < x)
    BY <2>1, <2>2 DEF OpToRel
  <2> QED
    BY <2>1, <2>3
<1> QED
  BY <1>4

LEMMA Induct ==
  ASSUME NEW S \in SUBSET Nat, 0 \in S, \A n \in S : n + 1 \in S
  PROVE  S = Nat
<1> SUFFICES ASSUME S # Nat PROVE FALSE
  OBVIOUS
<1> DEFINE T == Nat \ S
<1>1. T # {} /\ T \in SUBSET Nat
  OBVIOUS
<1>2. PICK x \in T : \A y \in T : x <= y
  <2> HIDE DEF T
  <2> QED BY <1>1, LeastElement
<1>3. x # 0 /\ x \in Nat
  OBVIOUS
<1>4. x - 1 \in Nat /\ ~ (x <= x - 1)
  BY <1>3
<1>5. x - 1 \in S
  BY <1>2, <1>4
<1>6. x - 1 + 1 \in S
  BY <1>5
<1>7. x - 1 + 1 = x
  BY <1>3
<1> QED
  BY <1>6, <1>7, <1>2

LEMMA MinIs ==
  ASSUME NEW S \in SUBSET Nat, NEW x \in S, \A y \in S : x <= y
  PROVE  Min(S) = x
<1>1. \A z \in S : (\A y \in S : z <= y) => z = x
  OBVIOUS
<1> QED
  BY <1>1 DEF Min

LEMMA FirstOfTwo ==
  ASSUME NEW a, NEW b
  PROVE  FirstSet(<<a, b>>) = IF a # "" THEN a ELSE b
<1> DEFINE s == <<a, b>>
           none == ""
           set == {i \in DOMAIN s : s[i] # none}
<1>1. DOMAIN s = {1, 2} /\ s[1] = a /\ s[2] = b
  OBVIOUS
<1>2. FirstSet(s) = IF set = {} THEN none ELSE s[Min(set)]
  BY DEF FirstSet
<1> HIDE DEF s, none
<1>3. CASE a # none
  <2>1. 1 \in set /\ \A y \in set : 1 <= y
    BY <1>1, <1>3
  <2>2. set \in SUBSET Nat
    BY <1>1
  <2>3. Min(set) = 1
    <3> HIDE DEF set
    <3> QED BY <2>1, <2>2, MinIs
  <2> QED BY <1>1, <1>2, <1>3, <2>1, <2>3 DEF s, none
<1>4. CASE a = none /\ b # none
  <2>1. 2 \in set /\ \A y \in set : 2 <= y
    BY <1>1, <1>4
  <2>2. set \in SUBSET Nat
    BY <1>1
  <2>3. Min(set) = 2
    <3> HIDE DEF set
    <3> QED BY <2>1, <2>2, MinIs
  <2> QED BY <1>1, <1>2, <1>4, <2>1, <2>3 DEF s, none
<1>5. CASE a = none /\ b = none
  <2>1. set = {}
    BY <1>1, <1>5
  <2> QED BY <1>2, <1>5, <2>1 DEF s, none
<1> QED
  BY <1>3, <1>4, <1>5

-----------------------------------------------------------------------------
(* One agent that inherits from another. *)

\* A field that an agent says is its own, any other is that of its base.
LEMMA InheritedSays ==
  ASSUME NEW ac \in AgentConfigs, NEW base \in AgentConfigs
  PROVE  /\ Inherited(ac, base) \in AgentConfigs
         /\ Inherited(ac, base).base = ac.base
         /\ \A f \in Fields : Said(Inherited(ac, base), f) = IF Said(ac, f) # {} THEN Said(ac, f) ELSE Said(base, f)
<1> DEFINE none == ""
           new == Inherited(ac, base)
<1>1. /\ new = [base |-> ac.base, type |-> new.type, command |-> new.command, model |-> new.model,
                inside |-> new.inside, dir |-> new.dir, env |-> new.env]
      /\ new.base = ac.base
      /\ new.type = IF ac.type # none THEN ac.type ELSE base.type
      /\ new.command = IF ac.command # none THEN ac.command ELSE base.command
      /\ new.model = IF ac.model # none THEN ac.model ELSE base.model
      /\ new.dir = IF ac.dir # none THEN ac.dir ELSE base.dir
      /\ new.inside = (ac.inside \/ base.inside)
      /\ new.env = IF ac.env = Unset THEN base.env ELSE ac.env
  <2>1. ac = [base |-> ac.base, type |-> ac.type, command |-> ac.command, model |-> ac.model,
              inside |-> ac.inside, dir |-> ac.dir, env |-> ac.env]
    BY DEF AgentConfigs
  <2>2. PICK t, c, m, d, i, v :
          /\ t = FirstSet(<<ac.type, base.type>>) /\ c = FirstSet(<<ac.command, base.command>>)
          /\ m = FirstSet(<<ac.model, base.model>>) /\ d = FirstSet(<<ac.dir, base.dir>>)
          /\ i = (ac.inside \/ base.inside) /\ v = IF ac.env = Unset THEN base.env ELSE ac.env
    OBVIOUS
  <2>3. new = [ac EXCEPT !.type = t, !.command = c, !.model = m, !.inside = i, !.dir = d, !.env = v]
    BY <2>2 DEF Inherited
  <2>4. new = [base |-> ac.base, type |-> t, command |-> c, model |-> m, inside |-> i, dir |-> d, env |-> v]
    <3> HIDE DEF new
    <3> QED BY <2>1, <2>3
  <2>5. /\ new.base = ac.base /\ new.type = t /\ new.command = c /\ new.model = m
        /\ new.inside = i /\ new.dir = d /\ new.env = v
    <3> HIDE DEF new
    <3> QED BY <2>4
  <2>6. /\ t = IF ac.type # none THEN ac.type ELSE base.type
        /\ c = IF ac.command # none THEN ac.command ELSE base.command
        /\ m = IF ac.model # none THEN ac.model ELSE base.model
        /\ d = IF ac.dir # none THEN ac.dir ELSE base.dir
    BY <2>2, FirstOfTwo
  <2> HIDE DEF new
  <2> QED BY <2>2, <2>4, <2>5, <2>6
<1>2. new \in AgentConfigs
  <2> DEFINE Dirs == {"", "abs", "rel", "role"}
  <2>1. /\ ac.type \in STRING /\ base.type \in STRING /\ ac.command \in STRING /\ base.command \in STRING
        /\ ac.model \in STRING /\ base.model \in STRING /\ ac.env \in STRING /\ base.env \in STRING
        /\ ac.base \in STRING /\ ac.inside \in BOOLEAN /\ base.inside \in BOOLEAN
        /\ ac.dir \in Dirs /\ base.dir \in Dirs
    BY DEF AgentConfigs
  <2>2. /\ new.base \in STRING /\ new.type \in STRING /\ new.command \in STRING /\ new.model \in STRING
        /\ new.inside \in BOOLEAN /\ new.dir \in Dirs /\ new.env \in STRING
    <3> HIDE DEF new, Dirs, none
    <3> QED BY <1>1, <2>1
  <2>3. new = [base |-> new.base, type |-> new.type, command |-> new.command, model |-> new.model,
                inside |-> new.inside, dir |-> new.dir, env |-> new.env]
    BY <1>1
  <2> HIDE DEF new
  <2> QED BY <2>2, <2>3 DEF AgentConfigs
<1>3. ASSUME NEW f \in Fields
      PROVE  Said(new, f) = IF Said(ac, f) # {} THEN Said(ac, f) ELSE Said(base, f)
  <2> HIDE DEF new
  <2>1. CASE f = "env"
    BY <1>1, <2>1 DEF Said
  <2>2. CASE f = "inside"
    BY <1>1, <2>2 DEF Said, AgentConfigs
  <2>3. CASE f \in {"type", "command", "model", "dir"}
    <3>1. \A a : Said(a, f) = IF a[f] = none THEN {} ELSE {a[f]}
      BY <2>3 DEF Said
    <3>2. new[f] = IF ac[f] # none THEN ac[f] ELSE base[f]
      BY <1>1, <2>3
    <3> QED BY <3>1, <3>2
  <2> QED BY <2>1, <2>2, <2>3 DEF Fields
<1> HIDE DEF new
<1>4. new.base = ac.base
  BY <1>1
<1> QED
  BY <1>2, <1>3, <1>4 DEF new

-----------------------------------------------------------------------------
(* The bases of an agent, as they were written. *)

LEMMA LineageIs ==
  ASSUME NEW W, IsFiniteSet(DOMAIN W), NEW n
  PROVE  /\ Cardinality(DOMAIN W) \in Nat
         /\ DOMAIN Lineage(W, n) = 0..Cardinality(DOMAIN W)
         /\ Lineage(W, n)[0] = {n}
         /\ \A k \in 1..Cardinality(DOMAIN W) :
              Lineage(W, n)[k] = Bases(W, Lineage(W, n)[k - 1])
<1> DEFINE N == Cardinality(DOMAIN W)
           Is(up, top) == up = [k \in 0..top |-> IF k = 0 THEN {n} ELSE Bases(W, up[k - 1])]
           S == {top \in Nat : \E up : Is(up, top)}
<1>1. N \in Nat
  BY FS_CardinalityType
<1> HIDE DEF N
<1>2. S = Nat
  <2>1. 0 \in S
    <3>1. Is([k \in 0..0 |-> {n}], 0)
      OBVIOUS
    <3> QED BY <3>1
  <2>2. ASSUME NEW top \in S PROVE top + 1 \in S
    <3>1. PICK up : Is(up, top)
      BY <2>2
    <3> DEFINE next == [k \in 0..top + 1 |-> IF k = top + 1 THEN Bases(W, up[top]) ELSE up[k]]
    <3>2. top \in Nat
      OBVIOUS
    <3>3. \A k \in 0..top : up[k] = IF k = 0 THEN {n} ELSE Bases(W, up[k - 1])
      BY <3>1
    <3>4. ASSUME NEW k \in 0..top + 1 PROVE next[k] = IF k = 0 THEN {n} ELSE Bases(W, next[k - 1])
      <4>1. CASE k = top + 1
        <5>1. k # 0 /\ k - 1 = top /\ k - 1 \in 0..top + 1 /\ k - 1 # top + 1
          BY <3>2, <4>1
        <5>2. next[k] = Bases(W, up[top]) /\ next[k - 1] = up[top]
          BY <4>1, <5>1
        <5> QED BY <5>1, <5>2
      <4>2. CASE k # top + 1
        <5>1. k \in 0..top
          BY <3>2, <4>2
        <5>2. next[k] = up[k]
          BY <4>2
        <5>3. CASE k = 0
          BY <3>3, <5>1, <5>2, <5>3
        <5>4. CASE k # 0
          <6>1. k - 1 \in 0..top + 1 /\ k - 1 # top + 1
            BY <5>1, <5>4, <3>2
          <6>2. next[k - 1] = up[k - 1]
            BY <6>1
          <6> QED BY <3>3, <5>1, <5>2, <5>4, <6>2
        <5> QED BY <5>3, <5>4
      <4> QED BY <4>1, <4>2
    <3>5. Is(next, top + 1)
      <4>1. next = [k \in 0..top + 1 |-> next[k]]
        OBVIOUS
      <4> HIDE DEF next
      <4> QED BY <3>4, <4>1
    <3> HIDE DEF next, Is
    <3> QED BY <3>2, <3>5
  <2> HIDE DEF S
  <2>3. S \in SUBSET Nat
    BY DEF S
  <2> QED BY <2>1, <2>2, <2>3, Induct
<1>3. PICK up : Is(up, N) /\ Lineage(W, n) = up
  <2> DEFINE it == CHOOSE o : Is(o, N)
  <2>1. \E o : Is(o, N)
    <3> HIDE DEF Is
    <3> QED BY <1>1, <1>2
  <2>2. Is(it, N)
    <3> HIDE DEF Is
    <3> QED BY <2>1
  <2>3. Lineage(W, n) = it
    BY DEF Lineage, N
  <2> HIDE DEF Is, it
  <2> QED BY <2>2, <2>3
<1>4. \A k \in 0..N : up[k] = IF k = 0 THEN {n} ELSE Bases(W, up[k - 1])
  BY <1>3
<1>5. DOMAIN up = 0..N /\ up[0] = {n} /\ \A k \in 1..N : up[k] = Bases(W, up[k - 1])
  <2>1. DOMAIN up = 0..N
    BY <1>3
  <2>2. 0 \in 0..N /\ \A k \in 1..N : k \in 0..N /\ k # 0
    BY <1>1
  <2> QED BY <1>4, <2>1, <2>2
<1> QED
  BY <1>1, <1>3, <1>5 DEF N

\* The line of an agent with a base is that of the base, one step further.
LEMMA LineOfBase ==
  ASSUME NEW W, IsFiniteSet(DOMAIN W), NEW n, NEW b, Bases(W, {n}) = {b}
  PROVE  \A k \in 0..Cardinality(DOMAIN W) :
           k + 1 <= Cardinality(DOMAIN W) => Lineage(W, n)[k + 1] = Lineage(W, b)[k]
<1> DEFINE N == Cardinality(DOMAIN W)
           f == Lineage(W, n)
           g == Lineage(W, b)
           S == {k \in Nat : k + 1 <= N => f[k + 1] = g[k]}
<1>1. N \in Nat
  BY FS_CardinalityType
<1>2. f[0] = {n} /\ \A k \in 1..N : f[k] = Bases(W, f[k - 1])
  BY LineageIs
<1>3. g[0] = {b} /\ \A k \in 1..N : g[k] = Bases(W, g[k - 1])
  BY LineageIs
<1> HIDE DEF N, f, g
<1>5. 0 \in S
  <2> SUFFICES ASSUME 0 + 1 <= N PROVE f[0 + 1] = g[0]
    OBVIOUS
  <2>1. 1 \in 1..N /\ 0 + 1 = 1 /\ 1 - 1 = 0
    BY <1>1
  <2>2. f[1] = Bases(W, f[0])
    BY <1>2, <2>1
  <2> QED BY <1>2, <1>3, <2>1, <2>2
<1>6. ASSUME NEW k \in S PROVE k + 1 \in S
  <2>1. k \in Nat /\ k + 1 \in Nat
    OBVIOUS
  <2> SUFFICES ASSUME (k + 1) + 1 <= N PROVE f[(k + 1) + 1] = g[k + 1]
    BY <2>1
  <2>2. /\ (k + 1) + 1 \in 1..N /\ ((k + 1) + 1) - 1 = k + 1 /\ k + 1 <= N
        /\ k + 1 \in 1..N /\ (k + 1) - 1 = k
    BY <1>1, <2>1
  <2>3. f[(k + 1) + 1] = Bases(W, f[k + 1]) /\ g[k + 1] = Bases(W, g[k])
    BY <1>2, <1>3, <2>2
  <2>4. f[k + 1] = g[k]
    BY <2>2
  <2> QED BY <2>3, <2>4
<1>7. S = Nat
  <2>1. S \in SUBSET Nat
    OBVIOUS
  <2> HIDE DEF S
  <2> QED BY <1>5, <1>6, <2>1, Induct
<1>8. \A k \in 0..N : k + 1 <= N => f[k + 1] = g[k]
  BY <1>7, <1>1
<1> QED
  BY <1>8 DEF N, f, g

\* A line that has ended stays so.
LEMMA LineEnds ==
  ASSUME NEW W, IsFiniteSet(DOMAIN W), NEW n, NEW k \in 0..Cardinality(DOMAIN W), Lineage(W, n)[k] = {}
  PROVE  \A i \in k..Cardinality(DOMAIN W) : Lineage(W, n)[i] = {}
<1> DEFINE N == Cardinality(DOMAIN W)
           f == Lineage(W, n)
           S == {j \in Nat : k + j <= N => f[k + j] = {}}
<1>1. N \in Nat /\ k \in Nat /\ k <= N
  BY FS_CardinalityType
<1>2. \A i \in 1..N : f[i] = Bases(W, f[i - 1])
  BY LineageIs
<1>3. \A i \in 1..N : f[i - 1] = {} => f[i] = {}
  <2>1. Bases(W, {}) = {}
    BY DEF Bases
  <2> HIDE DEF f, N
  <2> QED BY <1>2, <2>1
<1>4. f[k] = {}
  OBVIOUS
<1> HIDE DEF f, N
<1>5. 0 \in S
  BY <1>1, <1>4
<1>6. ASSUME NEW j \in S PROVE j + 1 \in S
  <2>1. j \in Nat /\ j + 1 \in Nat
    OBVIOUS
  <2> SUFFICES ASSUME k + (j + 1) <= N PROVE f[k + (j + 1)] = {}
    BY <2>1
  <2>2. k + (j + 1) \in 1..N /\ (k + (j + 1)) - 1 = k + j /\ k + j <= N
    BY <1>1, <2>1
  <2> QED BY <1>3, <2>2
<1>7. S = Nat
  <2>1. S \in SUBSET Nat
    OBVIOUS
  <2> HIDE DEF S
  <2> QED BY <1>5, <1>6, <2>1, Induct
<1>8. ASSUME NEW i \in k..N PROVE f[i] = {}
  <2>1. i - k \in Nat /\ k + (i - k) = i /\ i <= N
    BY <1>1
  <2>2. i - k \in S
    BY <1>7, <2>1
  <2> QED BY <2>1, <2>2
<1> QED
  BY <1>8 DEF N, f

\* The line of n has ended after k steps, and no name of it is unknown.
Ends(W, n, k) ==
  /\ k \in 0..Cardinality(DOMAIN W) /\ Lineage(W, n)[k] = {}
  /\ \A i \in 0..Cardinality(DOMAIN W) : Lineage(W, n)[i] \subseteq DOMAIN W

LEMMA EndsGrounded ==
  ASSUME NEW W, IsFiniteSet(DOMAIN W), NEW n, NEW k, Ends(W, n, k)
  PROVE  Grounded(W, n)
BY LineageIs DEF Ends, Grounded

SaysAt(W, n, f, k) == UNION {Said(W[m], f) : m \in Lineage(W, n)[k] \cap DOMAIN W}
SaidAt(W, n, f) == {k \in DOMAIN Lineage(W, n) : SaysAt(W, n, f, k) # {}}

LEMMA NearestIs ==
  ASSUME NEW W, NEW n, NEW f
  PROVE  Nearest(W, n, f) = IF SaidAt(W, n, f) = {} THEN {} ELSE SaysAt(W, n, f, Min(SaidAt(W, n, f)))
BY DEF Nearest, SaidAt, SaysAt

LEMMA SaysFirst ==
  ASSUME NEW W, IsFiniteSet(DOMAIN W), NEW n \in DOMAIN W, NEW f
  PROVE  /\ SaysAt(W, n, f, 0) = Said(W[n], f)
         /\ Said(W[n], f) # {} => Nearest(W, n, f) = Said(W[n], f)
<1>1. Lineage(W, n)[0] = {n} /\ DOMAIN Lineage(W, n) = 0..Cardinality(DOMAIN W) /\ Cardinality(DOMAIN W) \in Nat
  BY LineageIs
<1>2. SaysAt(W, n, f, 0) = Said(W[n], f)
  BY <1>1 DEF SaysAt
<1>3. ASSUME Said(W[n], f) # {} PROVE Nearest(W, n, f) = Said(W[n], f)
  <2>1. SaidAt(W, n, f) \in SUBSET Nat /\ 0 \in SaidAt(W, n, f)
    BY <1>1, <1>2, <1>3 DEF SaidAt
  <2>2. Min(SaidAt(W, n, f)) = 0
    BY <2>1, MinIs
  <2> QED BY <1>2, <2>1, <2>2, NearestIs
<1> QED
  BY <1>2, <1>3

LEMMA RootEnds ==
  ASSUME NEW W, IsFiniteSet(DOMAIN W), NEW n \in DOMAIN W, Bases(W, {n}) = {}
  PROVE  Ends(W, n, 1) /\ \A f : Nearest(W, n, f) = Said(W[n], f)
<1> DEFINE N == Cardinality(DOMAIN W)
<1>1. N \in Nat /\ N # 0
  BY FS_CardinalityType, FS_EmptySet
<1>2. Lineage(W, n)[0] = {n} /\ DOMAIN Lineage(W, n) = 0..N /\ Lineage(W, n)[1] = {}
  <2>1. 1 \in 1..N /\ 1 - 1 = 0
    BY <1>1
  <2>2. Lineage(W, n)[1] = Bases(W, Lineage(W, n)[1 - 1])
    BY <2>1, LineageIs
  <2>3. Lineage(W, n)[0] = {n} /\ DOMAIN Lineage(W, n) = 0..N
    BY LineageIs
  <2>4. Lineage(W, n)[1 - 1] = {n}
    BY <2>1, <2>3
  <2> QED BY <2>2, <2>3, <2>4
<1>3. \A i \in 1..N : Lineage(W, n)[i] = {}
  <2>1. 1 \in 0..N
    BY <1>1
  <2> QED BY <1>2, <2>1, LineEnds
<1> HIDE DEF N
<1>4. \A i \in 0..N : i = 0 \/ i \in 1..N
  BY <1>1
<1>5. Ends(W, n, 1)
  <2>1. 1 \in 0..N
    BY <1>1
  <2>2. \A i \in 0..N : Lineage(W, n)[i] \subseteq DOMAIN W
    BY <1>2, <1>3, <1>4
  <2> QED BY <1>2, <2>1, <2>2 DEF Ends, N
<1>6. ASSUME NEW f PROVE Nearest(W, n, f) = Said(W[n], f)
  <2>1. CASE Said(W[n], f) # {}
    BY <2>1, SaysFirst
  <2>2. CASE Said(W[n], f) = {}
    <3>1. \A i \in 1..N : SaysAt(W, n, f, i) = {}
      BY <1>3 DEF SaysAt
    <3>2. SaysAt(W, n, f, 0) = {}
      BY <2>2, SaysFirst
    <3>3. SaidAt(W, n, f) = {}
      BY <1>2, <1>4, <3>1, <3>2 DEF SaidAt
    <3> QED BY <2>2, <3>3, NearestIs
  <2> QED BY <2>1, <2>2
<1> QED
  BY <1>5, <1>6

LEMMA ChildEnds ==
  ASSUME NEW W, IsFiniteSet(DOMAIN W), NEW n \in DOMAIN W, NEW b, Bases(W, {n}) = {b},
         NEW k, Ends(W, b, k), k < Cardinality(DOMAIN W)
  PROVE  /\ Ends(W, n, k + 1)
         /\ \A f : Nearest(W, n, f) = IF Said(W[n], f) # {} THEN Said(W[n], f) ELSE Nearest(W, b, f)
<1> DEFINE N == Cardinality(DOMAIN W)
           up == Lineage(W, n)
           down == Lineage(W, b)
<1>1. N \in Nat /\ DOMAIN up = 0..N /\ DOMAIN down = 0..N /\ up[0] = {n}
  BY LineageIs
<1>2. k \in 0..N /\ k < N /\ down[k] = {} /\ \A i \in 0..N : down[i] \subseteq DOMAIN W
  BY DEF Ends
<1>3. \A i \in 0..N : i + 1 <= N => up[i + 1] = down[i]
  BY LineOfBase
<1>4. \A i \in k..N : down[i] = {}
  BY <1>2, LineEnds
<1> HIDE DEF N, up, down
<1>5. \A i \in 1..N : i - 1 \in 0..N /\ (i - 1) + 1 = i /\ up[i] = down[i - 1]
  <2>1. \A i \in 1..N : i - 1 \in 0..N /\ (i - 1) + 1 = i /\ (i - 1) + 1 <= N
    BY <1>1
  <2> QED BY <1>3, <2>1
<1>6. \A i \in 0..N : i = 0 \/ i \in 1..N
  BY <1>1
<1>7. Ends(W, n, k + 1)
  <2>1. k + 1 \in 0..N /\ k + 1 <= N
    BY <1>1, <1>2
  <2>2. up[k + 1] = {}
    BY <1>2, <1>3, <2>1
  <2>3. \A i \in 0..N : up[i] \subseteq DOMAIN W
    BY <1>1, <1>2, <1>5, <1>6
  <2> QED BY <2>1, <2>2, <2>3 DEF Ends, N, up
<1>8. ASSUME NEW f, Said(W[n], f) = {} PROVE Nearest(W, n, f) = Nearest(W, b, f)
  <2> DEFINE A == SaidAt(W, n, f)
             B == SaidAt(W, b, f)
  <2>1. \A i \in 1..N : SaysAt(W, n, f, i) = SaysAt(W, b, f, i - 1)
    BY <1>5 DEF SaysAt, up, down
  <2>2. SaysAt(W, n, f, 0) = {}
    BY <1>8, SaysFirst
  <2>3. \A i : i \in A <=> i \in 0..N /\ SaysAt(W, n, f, i) # {}
    BY <1>1 DEF SaidAt, up
  <2>4. \A i : i \in B <=> i \in 0..N /\ SaysAt(W, b, f, i) # {}
    BY <1>1 DEF SaidAt, down
  <2>5. SaysAt(W, b, f, N) = {}
    <3>1. N \in k..N
      BY <1>1, <1>2
    <3> QED BY <1>4, <3>1 DEF SaysAt, down
  <2> HIDE DEF A, B
  <2>6. \A i \in A : i \in 1..N /\ i - 1 \in B
    <3>1. \A i \in A : i \in 1..N
      BY <1>6, <2>2, <2>3
    <3>2. \A i \in A : SaysAt(W, b, f, i - 1) # {}
      BY <2>1, <2>3, <3>1
    <3> QED BY <1>5, <2>4, <3>1, <3>2
  <2>7. \A i \in B : i \in Nat /\ i + 1 \in A /\ SaysAt(W, n, f, i + 1) = SaysAt(W, b, f, i)
    <3> SUFFICES ASSUME NEW i \in B PROVE i \in Nat /\ i + 1 \in A /\ SaysAt(W, n, f, i + 1) = SaysAt(W, b, f, i)
      OBVIOUS
    <3>1. i \in 0..N /\ SaysAt(W, b, f, i) # {}
      BY <2>4
    <3>2. i # N
      BY <2>5, <3>1
    <3>3. i \in Nat /\ i + 1 \in 1..N /\ i + 1 \in 0..N /\ (i + 1) - 1 = i
      BY <1>1, <3>1, <3>2
    <3>4. SaysAt(W, n, f, i + 1) = SaysAt(W, b, f, i)
      BY <2>1, <3>3
    <3> QED BY <2>3, <3>1, <3>3, <3>4
  <2>8. CASE B = {}
    <3>1. A = {}
      BY <2>6, <2>8
    <3> QED BY <2>8, <3>1, NearestIs DEF A, B
  <2>9. CASE B # {}
    <3>1. B \in SUBSET Nat /\ A \in SUBSET Nat
      BY <2>6, <2>7
    <3>2. PICK x \in B : \A y \in B : x <= y
      BY <2>9, <3>1, LeastElement
    <3>3. x + 1 \in A /\ \A y \in A : x + 1 <= y
      BY <2>6, <2>7, <3>1, <3>2
    <3>4. Min(B) = x /\ Min(A) = x + 1
      BY <3>1, <3>2, <3>3, MinIs
    <3>5. A # {}
      BY <3>3
    <3> QED BY <2>7, <2>9, <3>2, <3>4, <3>5, NearestIs DEF A, B
  <2> QED BY <2>8, <2>9
<1> QED
  BY <1>7, <1>8, SaysFirst

\* Names that are each other's bases are of no line that ends.
LEMMA CycleNeverEnds ==
  ASSUME NEW W, IsFiniteSet(DOMAIN W), NEW C, \A m \in C : \E b \in C : Bases(W, {m}) = {b},
         NEW n \in C
  PROVE  ~Grounded(W, n)
<1> DEFINE N == Cardinality(DOMAIN W)
           f == Lineage(W, n)
           S == {k \in Nat : k <= N => \E m \in C : f[k] = {m}}
<1>1. N \in Nat /\ DOMAIN f = 0..N /\ f[0] = {n} /\ \A k \in 1..N : f[k] = Bases(W, f[k - 1])
  BY LineageIs
<1> HIDE DEF N, f
<1>2. 0 \in S
  BY <1>1
<1>3. ASSUME NEW k \in S PROVE k + 1 \in S
  <2>1. k \in Nat /\ k + 1 \in Nat
    OBVIOUS
  <2> SUFFICES ASSUME k + 1 <= N PROVE \E m \in C : f[k + 1] = {m}
    BY <2>1
  <2>2. k + 1 \in 1..N /\ (k + 1) - 1 = k /\ k <= N
    BY <1>1, <2>1
  <2>3. PICK m \in C : f[k] = {m}
    BY <2>2
  <2>4. f[k + 1] = Bases(W, {m})
    BY <1>1, <2>2, <2>3
  <2> QED BY <2>4
<1>4. S = Nat
  <2>1. S \in SUBSET Nat
    OBVIOUS
  <2> HIDE DEF S
  <2> QED BY <1>2, <1>3, <2>1, Induct
<1>5. \A k \in 0..N : f[k] # {}
  <2>1. \A k \in 0..N : k \in S /\ k <= N
    BY <1>1, <1>4
  <2> QED BY <2>1
<1> QED
  BY <1>1, <1>5 DEF Grounded, f

\* Nor is an agent whose base is not there.
LEMMA UnknownNotGrounded ==
  ASSUME NEW W, IsFiniteSet(DOMAIN W), NEW n \in DOMAIN W, NEW b, Bases(W, {n}) = {b}, b \notin DOMAIN W
  PROVE  ~Grounded(W, n)
<1> DEFINE N == Cardinality(DOMAIN W)
<1>1. N \in Nat /\ N # 0
  BY FS_CardinalityType, FS_EmptySet
<1>2. 1 \in 1..N /\ 1 - 1 = 0 /\ 1 \in 0..N
  BY <1>1
<1>3. Lineage(W, n)[1] = Bases(W, Lineage(W, n)[0]) /\ Lineage(W, n)[0] = {n} /\ DOMAIN Lineage(W, n) = 0..N
  <2>1. Lineage(W, n)[1] = Bases(W, Lineage(W, n)[1 - 1])
    BY <1>2, LineageIs
  <2> QED BY <1>2, <2>1, LineageIs
<1>4. Lineage(W, n)[1] = {b}
  BY <1>3
<1> HIDE DEF N
<1> QED
  BY <1>2, <1>3, <1>4 DEF Grounded

-----------------------------------------------------------------------------
(* What the files of a command make of the agents. *)

LEMMA GreatestElement ==
  ASSUME NEW n \in Nat, NEW S \in SUBSET (1..n), S # {}
  PROVE  \E x \in S : \A y \in S : y <= x
<1> DEFINE T == {k \in Nat : n - k \in S}
<1>1. T \in SUBSET Nat
  OBVIOUS
<1>2. \A i \in S : n - i \in Nat /\ n - (n - i) = i
  OBVIOUS
<1>3. \A i \in S : n - i \in T
  BY <1>2
<1>4. PICK t \in T : \A u \in T : t <= u
  <2> HIDE DEF T
  <2> QED BY <1>1, <1>3, LeastElement
<1>5. n - t \in S /\ t \in Nat
  BY <1>4
<1>6. \A y \in S : y <= n - t
  <2> HIDE DEF T
  <2> QED BY <1>1, <1>3, <1>4, <1>5
<1> QED
  BY <1>5, <1>6

FilesRead(q) == {q.files.embedded, q.files.orgDefaults, q.files.org, q.files.project}

LEMMA LevelsAreFiles ==
  ASSUME NEW q, NEW e
  PROVE  Levels(q, e) \in Seq(FilesRead(q))
<1> DEFINE a == <<q.files.embedded>>
           b == IF e.org # NoDir THEN <<q.files.orgDefaults, q.files.org>> ELSE <<>>
           c == IF e.project # NoDir THEN <<q.files.project>> ELSE <<>>
<1>1. a \in Seq(FilesRead(q)) /\ <<q.files.orgDefaults, q.files.org>> \in Seq(FilesRead(q))
      /\ <<q.files.project>> \in Seq(FilesRead(q)) /\ <<>> \in Seq(FilesRead(q))
  BY DEF FilesRead
<1>2. b \in Seq(FilesRead(q)) /\ c \in Seq(FilesRead(q))
  BY <1>1
<1>3. Levels(q, e) = a \o b \o c
  BY DEF Levels
<1> HIDE DEF a, b, c
<1> QED
  BY <1>1, <1>2, <1>3, ConcatProperties

\* Every agent is a block of one of the files.
LEMMA WrittenTyped ==
  ASSUME NEW q \in Commands, NEW e
  PROVE  /\ IsFiniteSet(DOMAIN AgentConfig(q, e))
         /\ AgentConfig(q, e) \in [DOMAIN AgentConfig(q, e) -> AgentConfigs]
         /\ \A n \in DOMAIN AgentConfig(q, e) : ReadBack(n)
<1> DEFINE files == Levels(q, e)
           names == UNION {DOMAIN files[i]["agents"] : i \in DOMAIN files}
           with(n) == {i \in DOMAIN files : n \in DOMAIN files[i]["agents"]}
<1>1. /\ Len(files) \in Nat /\ DOMAIN files = 1..Len(files)
      /\ \A i \in DOMAIN files : files[i] \in FilesRead(q)
  BY LevelsAreFiles, LenProperties, ElementOfSeq
<1>2. \A f \in FilesRead(q) : IsFiniteSet(DOMAIN f["agents"]) /\ \A n \in DOMAIN f["agents"] : f["agents"][n] \in AgentConfigs
  BY CommandsAssumption DEF IsCommand, FilesRead
<1>6. \A f \in FilesRead(q) : \A n \in DOMAIN f["agents"] : ReadBack(n)
  <2> DEFINE all == UNION {DOMAIN f.agents : f \in FilesRead(q)}
  <2>1. \A n \in all : ReadBack(n)
    BY CommandsAssumption DEF IsCommand, FilesRead
  <2>2. \A f \in FilesRead(q) : \A n \in DOMAIN f["agents"] : n \in all
    OBVIOUS
  <2> HIDE DEF all
  <2> QED BY <2>1, <2>2
<1> HIDE DEF files
<1>3. AgentConfig(q, e) = [n \in names |-> files[Max(with(n))]["agents"][n]]
  BY DEF AgentConfig, Merged, files
<1>4. IsFiniteSet(names)
  <2> DEFINE one(f) == DOMAIN f["agents"]
             all == one(q.files.embedded) \cup one(q.files.orgDefaults) \cup one(q.files.org) \cup one(q.files.project)
  <2>1. /\ IsFiniteSet(one(q.files.embedded)) /\ IsFiniteSet(one(q.files.orgDefaults))
        /\ IsFiniteSet(one(q.files.org)) /\ IsFiniteSet(one(q.files.project))
    BY <1>2 DEF FilesRead
  <2>2. names \subseteq all
    BY <1>1 DEF FilesRead
  <2> HIDE DEF one
  <2>3. IsFiniteSet(all)
    BY <2>1, FS_Union
  <2> HIDE DEF all, names
  <2> QED BY <2>2, <2>3, FS_Subset
<1>5. ASSUME NEW n \in names PROVE files[Max(with(n))]["agents"][n] \in AgentConfigs
  <2>1. with(n) \in SUBSET (1..Len(files)) /\ with(n) # {}
    BY <1>1
  <2>2. Max(with(n)) \in with(n)
    <3> HIDE DEF with
    <3>1. PICK x \in with(n) : \A y \in with(n) : y <= x
      BY <1>1, <2>1, GreatestElement
    <3>2. \A y \in with(n) : x >= y
      BY <3>1, <2>1, <1>1
    <3> QED BY <3>2 DEF Max
  <2>3. Max(with(n)) \in DOMAIN files /\ n \in DOMAIN files[Max(with(n))]["agents"]
    BY <2>2
  <2> HIDE DEF with
  <2> QED BY <1>1, <1>2, <2>3
<1>7. \A n \in names : ReadBack(n)
  <2>1. \A n \in names : \E f \in FilesRead(q) : n \in DOMAIN f["agents"]
    BY <1>1
  <2> HIDE DEF names
  <2> QED BY <1>6, <2>1
<1> HIDE DEF names, with
<1> QED
  BY <1>3, <1>4, <1>5, <1>7

-----------------------------------------------------------------------------
(* What a command is answered: a refusal, or a runner of an agent that the *)
(* runner's profile tells, with that agent's directory.                    *)

Refusals ==
  {"unknown agent", "codex-tmux is host-only", "missing secrets", "work-dir outside the project", "panic",
   "unknown profile", "mutually exclusive", "codex-tmux requires a state directory",
   "container name not set", "no native cap"}

IsRunner(r) ==
  /\ r.kind = "runner" /\ r = [x \in DOMAIN r |-> r[x]]
  /\ {"kind", "agent", "profile", "dir", "env", "container", "name", "source", "subRuns"} \subseteq DOMAIN r
  /\ r.agent = [type |-> r.agent.type, command |-> r.agent.command, model |-> r.agent.model]

\* The profile of a run is none, stands for an agent, or is one that names an agent.
Tells(ps, as, profile, dir) ==
  \/ profile = ""
  \/ \E n \in DOMAIN as : profile = OfAgent(n) /\ dir = as[n].dir
  \/ profile \in DOMAIN ps /\ ps[profile].agent \in DOMAIN as /\ dir = as[ps[profile].agent].dir

Answered(ps, as, r) ==
  \/ \E w \in Refusals : r = Failure(w)
  \/ IsRunner(r) /\ Tells(ps, as, r.profile, r.dir)

LEMMA FailureIs ==
  ASSUME NEW w
  PROVE  Failure(w).kind = "error" /\ Failure(w).kind # "runner" /\ Failure(w) # Nil
BY DEF Failure, Nil

LEMMA RefusalIs ==
  \A w \in Refusals : Failure(w) \notin {Failure("circular"), Failure("unknown base")}
<1>1. "circular" \notin Refusals /\ "unknown base" \notin Refusals
  BY DEF Refusals
<1>2. \A v, w : Failure(v) = Failure(w) => v = w
  <2>1. \A v : Failure(v).why = v
    BY DEF Failure
  <2> QED BY <2>1
<1> QED
  BY <1>1, <1>2

LEMMA RunnerIs ==
  ASSUME NEW name, NEW ac, NEW profile, NEW args, NEW ct, NEW type
  PROVE  LET r == BuiltRunner(name, ac, profile, args, ct, type)
         IN IsRunner(r) /\ r.profile = profile /\ r.dir = ac.dir
<1> DEFINE blank == ""
<1>1. PICK agent, inside, dir, v :
         /\ agent = BuildAgent(name, ac) /\ inside = ac.inside /\ dir = ac.dir
         /\ v = IF ac.type = "builtin" THEN Unset ELSE ac.env
  OBVIOUS
<1>2. PICK a, c, m : agent = [type |-> a, command |-> c, model |-> m]
  BY <1>1 DEF BuildAgent
<1>3. BuiltRunner(name, ac, profile, args, ct, type) =
        [kind |-> "runner", agent |-> agent, profile |-> profile, args |-> args,
         inside |-> inside, dir |-> dir, env |-> v,
         container |-> ct, containerType |-> type, name |-> blank, source |-> blank, subRuns |-> blank]
  BY <1>1 DEF BuiltRunner
<1> HIDE DEF blank
<1>4. PICK r : r = BuiltRunner(name, ac, profile, args, ct, type)
  OBVIOUS
<1>5. /\ r.kind = "runner" /\ r.agent = agent /\ r.profile = profile /\ r.dir = dir
      /\ DOMAIN r = {"kind", "agent", "profile", "args", "inside", "dir", "env", "container", "containerType",
                     "name", "source", "subRuns"}
      /\ r = [x \in DOMAIN r |-> r[x]]
  BY <1>3, <1>4
<1>6. agent = [type |-> agent.type, command |-> agent.command, model |-> agent.model]
  BY <1>2
<1>7. IsRunner(r)
  BY <1>5, <1>6 DEF IsRunner
<1> QED
  BY <1>1, <1>4, <1>5, <1>7

\* What a flag changes of a runner is not its profile, nor its directory.
LEMMA RunnerExcept ==
  ASSUME NEW r, IsRunner(r), NEW f \in {"container", "name", "source", "subRuns"}, NEW v
  PROVE  LET s == [r EXCEPT ![f] = v]
         IN IsRunner(s) /\ s.profile = r.profile /\ s.dir = r.dir /\ s.agent = r.agent /\ s.env = r.env
<1>1. PICK s : s = [r EXCEPT ![f] = v]
  OBVIOUS
<1>2. /\ DOMAIN s = DOMAIN r /\ s = [x \in DOMAIN s |-> s[x]]
      /\ \A x \in DOMAIN r : x # f => s[x] = r[x]
  BY <1>1
<1>3. s.kind = r.kind /\ s.profile = r.profile /\ s.dir = r.dir /\ s.agent = r.agent /\ s.env = r.env
  BY <1>2 DEF IsRunner
<1>4. IsRunner(s)
  BY <1>2, <1>3 DEF IsRunner
<1> QED
  BY <1>1, <1>3, <1>4

LEMMA ModelExcept ==
  ASSUME NEW r, IsRunner(r), NEW v
  PROVE  LET s == [r EXCEPT !.agent.model = v]
         IN /\ IsRunner(s) /\ s.profile = r.profile /\ s.dir = r.dir /\ s.env = r.env
            /\ s.agent.type = r.agent.type /\ s.agent.model = v
<1>1. PICK s : s = [r EXCEPT !.agent.model = v]
  OBVIOUS
<1>2. PICK a : a = [r.agent EXCEPT !.model = v]
  OBVIOUS
<1>3. s = [r EXCEPT !.agent = a]
  BY <1>1, <1>2
<1>4. a = [type |-> r.agent.type, command |-> r.agent.command, model |-> v]
  BY <1>2 DEF IsRunner
<1>5. /\ DOMAIN s = DOMAIN r /\ s = [x \in DOMAIN s |-> s[x]] /\ s.agent = a
      /\ \A x \in DOMAIN r : x # "agent" => s[x] = r[x]
  BY <1>3 DEF IsRunner
<1>6. s.kind = r.kind /\ s.profile = r.profile /\ s.dir = r.dir /\ s.env = r.env
  BY <1>5 DEF IsRunner
<1>7. IsRunner(s) /\ s.agent.type = r.agent.type /\ s.agent.model = v
  BY <1>4, <1>5, <1>6 DEF IsRunner
<1> QED
  BY <1>1, <1>6, <1>7

LEMMA AgentRunnerAnswered ==
  ASSUME NEW ps, NEW as, NEW name
  PROVE  Answered(ps, as, NewRunnerFromAgent(as, name))
<1>1. CASE name \notin DOMAIN as
  BY <1>1 DEF NewRunnerFromAgent, Answered, Refusals
<1>2. CASE name \in DOMAIN as
  <2>1. PICK blank : blank = ""
    OBVIOUS
  <2>6. PICK ac, type : ac = as[name] /\ type = "none"
    OBVIOUS
  <2>2. PICK r : r = BuiltRunner(name, ac, OfAgent(name), blank, Nil, type)
    OBVIOUS
  <2>3. NewRunnerFromAgent(as, name) = r
    BY <1>2, <2>1, <2>2, <2>6 DEF NewRunnerFromAgent
  <2>7. IsRunner(r) /\ r.profile = OfAgent(name) /\ r.dir = ac.dir
    BY <2>2, RunnerIs
  <2>4. IsRunner(r) /\ r.profile = OfAgent(name) /\ r.dir = as[name].dir
    BY <2>6, <2>7
  <2>5. Tells(ps, as, r.profile, r.dir)
    BY <1>2, <2>4 DEF Tells
  <2> QED BY <2>3, <2>4, <2>5 DEF Answered
<1> QED
  BY <1>1, <1>2

LEMMA ProfileRunnerAnswered ==
  ASSUME NEW q, NEW e, NEW as, NEW name, NEW role, WholeProfile(q, e, as, name)
  PROVE  Answered(ProfileConfig(q, e), as, NewRunnerFromProfile(q, e, as, name, role))
<1> DEFINE ps == ProfileConfig(q, e)
           answer == NewRunnerFromProfile(q, e, as, name, role)
<1>1. name \in DOMAIN ps /\ ps[name].agent \in DOMAIN as
  BY DEF WholeProfile
<1>5. PICK prof : prof = ps[name]
  OBVIOUS
<1>6. PICK ac, cc : ac = as[prof.agent] /\ cc = ContainerConfig(q, e)[prof.container]
  OBVIOUS
<1>7. PICK ct, type : ct = ContainerOf(q, e, cc, role) /\ type = cc.type
  OBVIOUS
<1>8. PICK v : v = IF ct = Nil THEN "" ELSE ct.name
  OBVIOUS
<1>9. answer = IF ac.type = "codex-tmux" /\ type # "none" THEN Failure("codex-tmux is host-only")
               ELSE IF type # "none" /\ ~q.secrets THEN Failure("missing secrets")
               ELSE IF ~PreflightContainerSupportsWorkDir(e, cc) THEN Failure("work-dir outside the project")
               ELSE IF type # "none" /\ ct = Nil THEN Failure("panic")
               ELSE [BuiltRunner(prof.agent, ac, name, prof.args, ct, type) EXCEPT !.name = v]
  BY <1>5, <1>6, <1>7, <1>8 DEF NewRunnerFromProfile
<1> HIDE DEF answer
<1>2. \/ answer = [BuiltRunner(prof.agent, ac, name, prof.args, ct, type) EXCEPT !.name = v]
      \/ answer \in {Failure("codex-tmux is host-only"), Failure("missing secrets"),
                     Failure("work-dir outside the project"), Failure("panic")}
  BY <1>9
<1>3. CASE answer = [BuiltRunner(prof.agent, ac, name, prof.args, ct, type) EXCEPT !.name = v]
  <2>1. PICK r : r = BuiltRunner(prof.agent, ac, name, prof.args, ct, type)
    OBVIOUS
  <2>2. IsRunner(r) /\ r.profile = name /\ r.dir = ac.dir
    BY <2>1, RunnerIs
  <2>3. IsRunner(answer) /\ answer.profile = name /\ answer.dir = ac.dir
    BY <1>3, <2>1, <2>2, RunnerExcept
  <2>4. Tells(ps, as, answer.profile, answer.dir)
    BY <1>1, <1>5, <1>6, <2>3 DEF Tells
  <2> QED BY <2>3, <2>4 DEF Answered, answer
<1>4. CASE answer \in {Failure("codex-tmux is host-only"), Failure("missing secrets"),
                       Failure("work-dir outside the project"), Failure("panic")}
  <2>1. \E w \in Refusals : answer = Failure(w)
    BY <1>4 DEF Refusals
  <2> QED BY <2>1 DEF Answered, answer
<1> QED
  BY <1>2, <1>3, <1>4

LEMMA ResolvedAnswered ==
  ASSUME NEW q, NEW e, NEW as, NEW spec
  PROVE  Answered(ProfileConfig(q, e), as, ResolveRunner(q, e, as, spec))
<1> DEFINE ps == ProfileConfig(q, e)
           answer == ResolveRunner(q, e, as, spec)
<1>1. Answered(ps, as, Failure("mutually exclusive")) /\ Answered(ps, as, Failure("unknown profile"))
  BY DEF Answered, Refusals
<1>2. \A name, role : Answered(ps, as, NewRunner(q, e, as, name, role))
  BY <1>1, AgentRunnerAnswered, ProfileRunnerAnswered DEF NewRunner
<1>3. PICK name : \/ answer = NewRunner(q, e, as, name, spec.role)
                  \/ answer = NewRunnerFromAgent(as, spec.agent)
                  \/ answer = Failure("mutually exclusive")
  BY DEF ResolveRunner
<1> HIDE DEF answer, ps
<1>4. Answered(ps, as, answer)
  BY <1>1, <1>2, <1>3, AgentRunnerAnswered
<1> QED
  BY <1>4 DEF answer, ps

LEMMA MinimalAnswered ==
  ASSUME NEW q, NEW e, NEW as, NEW spec
  PROVE  Answered(ProfileConfig(q, e), as, ResolveRunnerMinimal(q, e, as, spec))
<1> DEFINE ps == ProfileConfig(q, e)
           answer == ResolveRunnerMinimal(q, e, as, spec)
<1>1. /\ Answered(ps, as, Failure("mutually exclusive")) /\ Answered(ps, as, Failure("unknown profile"))
      /\ Answered(ps, as, Failure("codex-tmux requires a state directory"))
  BY DEF Answered, Refusals
<1>2. \A r : Answered(ps, as, r) => Answered(ps, as, RejectCodexTmuxWithoutStateDir(e, r))
  BY <1>1 DEF RejectCodexTmuxWithoutStateDir
<1>3. PICK blank : blank = ""
  OBVIOUS
<1>4. \A name, ac, args : Answered(ps, as, BuiltRunner(name, ac, blank, args, Nil, blank))
  <2> SUFFICES ASSUME NEW name, NEW ac, NEW args PROVE Answered(ps, as, BuiltRunner(name, ac, blank, args, Nil, blank))
    OBVIOUS
  <2>1. PICK r : r = BuiltRunner(name, ac, blank, args, Nil, blank)
    OBVIOUS
  <2>2. IsRunner(r) /\ r.profile = blank
    BY <2>1, RunnerIs
  <2>3. Tells(ps, as, r.profile, r.dir)
    BY <1>3, <2>2 DEF Tells
  <2> QED BY <2>1, <2>2, <2>3 DEF Answered
<1>5. PICK name, ac, args : \/ answer = Failure("mutually exclusive")
                            \/ answer = RejectCodexTmuxWithoutStateDir(e, NewRunnerFromAgent(as, spec.agent))
                            \/ answer = RejectCodexTmuxWithoutStateDir(e, BuiltRunner(name, ac, blank, args, Nil, blank))
                            \/ answer = Failure("unknown profile")
  BY <1>3 DEF ResolveRunnerMinimal
<1> HIDE DEF answer, ps
<1>6. Answered(ps, as, answer)
  BY <1>1, <1>2, <1>4, <1>5, AgentRunnerAnswered
<1> QED
  BY <1>6 DEF answer, ps

LEMMA NameOverride ==
  ASSUME NEW r, IsRunner(r), NEW name, NEW source
  PROVE  LET s == [ApplyContainerNameOverride(r, name) EXCEPT !.source = source]
         IN IsRunner(s) /\ s.profile = r.profile /\ s.dir = r.dir /\ s.agent = r.agent
<1>1. PICK o : o = ApplyContainerNameOverride(r, name)
  OBVIOUS
<1>2. IsRunner(o) /\ o.profile = r.profile /\ o.dir = r.dir /\ o.agent = r.agent
  <2>1. PICK c : c = [r.container EXCEPT !.name = name]
    OBVIOUS
  <2>2. PICK m : m = [r EXCEPT !.container = c]
    OBVIOUS
  <2>3. IsRunner(m) /\ m.profile = r.profile /\ m.dir = r.dir /\ m.agent = r.agent
    BY <2>2, RunnerExcept
  <2>4. PICK n : n = [m EXCEPT !.name = name]
    OBVIOUS
  <2>5. IsRunner(n) /\ n.profile = r.profile /\ n.dir = r.dir /\ n.agent = r.agent
    BY <2>3, <2>4, RunnerExcept
  <2>6. o = n \/ o = r
    BY <1>1, <2>1, <2>2, <2>4 DEF ApplyContainerNameOverride
  <2> QED BY <2>5, <2>6
<1>3. PICK s : s = [o EXCEPT !.source = source]
  OBVIOUS
<1>4. IsRunner(s) /\ s.profile = r.profile /\ s.dir = r.dir /\ s.agent = r.agent
  BY <1>2, <1>3, RunnerExcept
<1> QED
  BY <1>1, <1>3, <1>4

\* A runner that has a model has the one the flags name.
Modelled(q, s) == s.kind = "runner" /\ q.model # "" /\ s.agent.type # "builtin" => s.agent.model = q.model

\* The flags leave a refusal as it is and give a runner the model they name.
LEMMA OverriddenAnswered ==
  ASSUME NEW ps, NEW as, NEW q, NEW spec, NEW r, Answered(ps, as, r)
  PROVE  LET s == ApplyRunnerOverrides(q, spec, r)
         IN Answered(ps, as, s) /\ Modelled(q, s)
<1> DEFINE Kept(s, t) == IsRunner(t) /\ t.profile = s.profile /\ t.dir = s.dir /\ t.agent = s.agent
<1>1. PICK a : a = ApplyContainerName(q, r)
  OBVIOUS
<1>2. Answered(ps, as, a)
  <2>1. CASE IsRunner(r)
    <3>1. r.kind # "error" /\ Tells(ps, as, r.profile, r.dir)
      BY <2>1, FailureIs DEF IsRunner, Answered
    <3>2. Kept(r, [r EXCEPT !.source = "config"])
      <4>1. PICK v : v = "config"
        OBVIOUS
      <4>2. Kept(r, [r EXCEPT !.source = v])
        BY <2>1, RunnerExcept
      <4> QED BY <4>1, <4>2
    <3>3. \A name, v : Kept(r, [ApplyContainerNameOverride(r, name) EXCEPT !.source = v])
      BY <2>1, NameOverride
    <3> HIDE DEF Kept
    <3>4. Kept(r, a) \/ a = Failure("container name not set")
      BY <1>1, <3>1, <3>2, <3>3 DEF ApplyContainerName
    <3>5. CASE Kept(r, a)
      BY <3>1, <3>5 DEF Kept, Answered
    <3>6. CASE a = Failure("container name not set")
      BY <3>6 DEF Answered, Refusals
    <3> QED BY <3>4, <3>5, <3>6
  <2>2. CASE ~IsRunner(r)
    <3>1. r.kind = "error"
      BY <2>2, FailureIs DEF Answered
    <3> QED BY <1>1, <3>1 DEF ApplyContainerName
  <2> QED BY <2>1, <2>2
<1>3. PICK b : b = ApplyModelOverrides(q, a)
  OBVIOUS
<1>4. PICK chosen : /\ chosen = FirstSet(<<q.model, IF q.cheaper THEN CheaperModelName ELSE "">>)
                    /\ q.model # "" => chosen = q.model
  BY FirstOfTwo
<1>5. b = IF a.kind = "runner" /\ chosen # "" /\ a.agent.type # "builtin" THEN [a EXCEPT !.agent.model = chosen] ELSE a
  BY <1>3, <1>4 DEF ApplyModelOverrides
<1>6. /\ Answered(ps, as, b)
      /\ Modelled(q, b)
  <2>1. CASE a.kind = "runner" /\ chosen # "" /\ a.agent.type # "builtin"
    <3>1. IsRunner(a) /\ Tells(ps, as, a.profile, a.dir)
      BY <1>2, <2>1, FailureIs DEF Answered
    <3>2. b = [a EXCEPT !.agent.model = chosen]
      BY <1>5, <2>1
    <3>3. IsRunner(b) /\ b.profile = a.profile /\ b.dir = a.dir /\ b.agent.model = chosen
      BY <3>1, <3>2, ModelExcept
    <3> QED BY <1>4, <3>1, <3>3 DEF Answered, Modelled
  <2>2. CASE ~(a.kind = "runner" /\ chosen # "" /\ a.agent.type # "builtin")
    <3>1. b = a
      BY <1>5, <2>2
    <3> QED BY <1>2, <1>4, <2>2, <3>1 DEF Modelled
  <2> QED BY <2>1, <2>2
<1>7. PICK s : s = ApplyMaxBudgetUSD(q, spec, b)
  OBVIOUS
<1>8. s = b \/ s = Failure("no native cap")
  BY <1>7 DEF ApplyMaxBudgetUSD
<1>9. Answered(ps, as, Failure("no native cap")) /\ Modelled(q, Failure("no native cap"))
  BY FailureIs DEF Answered, Refusals, Modelled
<1>10. s = ApplyRunnerOverrides(q, spec, r)
  BY <1>1, <1>3, <1>7 DEF ApplyRunnerOverrides
<1>11. Modelled(q, s)
  BY <1>6, <1>8, <1>9
<1> QED
  BY <1>6, <1>8, <1>9, <1>10, <1>11

LEMMA BuiltAnswered ==
  ASSUME NEW q, NEW e, NEW as, NEW spec
  PROVE  LET s == BuildRunner(q, e, as, spec)
         IN Answered(ProfileConfig(q, e), as, s) /\ Modelled(q, s)
<1>1. PICK r : r = IF HasProject(e) THEN ResolveRunner(q, e, as, spec) ELSE ResolveRunnerMinimal(q, e, as, spec)
  OBVIOUS
<1>2. Answered(ProfileConfig(q, e), as, r)
  BY <1>1, ResolvedAnswered, MinimalAnswered
<1>3. BuildRunner(q, e, as, spec) = ApplyRunnerOverrides(q, spec, r)
  BY <1>1 DEF BuildRunner
<1>4. PICK s : s = ApplyRunnerOverrides(q, spec, r)
  OBVIOUS
<1>5. Answered(ProfileConfig(q, e), as, s) /\ Modelled(q, s)
  BY <1>2, <1>4, OverriddenAnswered
<1> QED
  BY <1>3, <1>4, <1>5

LEMMA CommandAnswered ==
  ASSUME NEW q, NEW e, NEW as
  PROVE  LET s == Answer(q, e, as)
         IN Answered(ProfileConfig(q, e), as, s) /\ Modelled(q, s)
<1> DEFINE ps == ProfileConfig(q, e)
<1>1. PICK common, own : common = BuildRunner(q, e, as, Asked(q)) /\ own = BuildRunner(q, e, as, AskFor(q, OwnProfile(q), q.role))
  OBVIOUS
<1>2. Answered(ps, as, common) /\ Modelled(q, common) /\ Answered(ps, as, own) /\ Modelled(q, own)
  <2>1. \A spec : Answered(ps, as, BuildRunner(q, e, as, spec)) /\ Modelled(q, BuildRunner(q, e, as, spec))
    BY BuiltAnswered
  <2> HIDE DEF ps
  <2> QED BY <1>1, <2>1
<1>3. PICK s : s = Dressed(q, common, own)
  OBVIOUS
<1>4. PICK sub : sub = SubRunProfile(q)
  OBVIOUS
<1>5. s = common \/ s = own \/ (common.kind # "error" /\ s = [common EXCEPT !.subRuns = sub])
  BY <1>3, <1>4 DEF Dressed, RoleRunner
<1>6. ASSUME common.kind # "error", s = [common EXCEPT !.subRuns = sub] PROVE Answered(ps, as, s) /\ Modelled(q, s)
  <2>1. IsRunner(common) /\ Tells(ps, as, common.profile, common.dir)
    BY <1>2, <1>6, FailureIs DEF Answered
  <2>2. IsRunner(s) /\ s.profile = common.profile /\ s.dir = common.dir /\ s.agent = common.agent
    BY <1>6, <2>1, RunnerExcept
  <2>3. Answered(ps, as, s)
    BY <2>1, <2>2 DEF Answered
  <2>4. common.kind = "runner"
    BY <2>1 DEF IsRunner
  <2> QED BY <1>2, <2>2, <2>3, <2>4 DEF Modelled
<1>7. Answered(ps, as, s) /\ Modelled(q, s)
  <2> QED BY <1>2, <1>5, <1>6
<1>8. s = Answer(q, e, as)
  BY <1>1, <1>3 DEF Answer
<1> QED
  BY <1>7, <1>8

-----------------------------------------------------------------------------
(* The inductive invariant *)

Found ==
  IF RequiresProject(asked) THEN ResolveEnv(asked.fs, asked.cwd, asked.flags)
  ELSE LookupEnv(asked.fs, asked.cwd, asked.flags)

\* One step after another: where it is, what is written, what is resolved.
InOrder ==
  /\ asked \in Commands
  /\ env # Nil => env = Found
  /\ env = Nil => agents = <<>>
  /\ agents = <<>> => resolved = {} /\ path = <<>>

\* Nothing has changed what an agent is based on, nor any agent before its turn.
AsWritten ==
  agents # <<>> =>
    /\ agents \in [DOMAIN Written -> AgentConfigs] /\ resolved \subseteq DOMAIN Written
    /\ \A n \in DOMAIN Written : agents[n].base = Written[n].base
    /\ \A n \in DOMAIN Written \ resolved : agents[n] = Written[n]

\* The memo: those that are in it are done, with no more bases between an agent
\* and the end of its line than the memo has names.
Memo ==
  agents # <<>> =>
    \A n \in resolved :
      /\ \E k \in 1..Cardinality(resolved) : Ends(Written, n, k)
      /\ \A f \in Fields : Said(agents[n], f) = Nearest(Written, n, f)

\* The names under way are different ones, each the base of the one before.
UnderWay ==
  agents # <<>> =>
    /\ path \in Seq(DOMAIN Written \ resolved)
    /\ \A i, j \in DOMAIN path : path[i] = path[j] => i = j
    /\ \A i \in 1..Len(path) - 1 : path[i + 1] = Written[path[i]].base /\ path[i + 1] # ""

Chosen == runner # Nil /\ env.ok /\ resolved # {} /\ resolved = DOMAIN agents

\* An answer is that of the agents as they were resolved, or a line that never ends.
AsAnswered ==
  /\ runner \in {Failure("circular"), Failure("unknown base")} => \E n \in DOMAIN agents : ~Grounded(Written, n)
  /\ Chosen \/ runner.kind = "runner" => runner = Answer(asked, env, agents)

RuntimeInv == InOrder /\ AsWritten /\ Memo /\ UnderWay /\ AsAnswered

-----------------------------------------------------------------------------
(* Every step keeps it *)

LEMMA WrittenIs ==
  ASSUME InOrder
  PROVE  /\ IsFiniteSet(DOMAIN Written) /\ Written \in [DOMAIN Written -> AgentConfigs]
         /\ \A n \in DOMAIN Written : ReadBack(n)
BY WrittenTyped DEF InOrder, Written

\* The base of an agent, as a set of one name or none.
LEMMA BasesOfOne ==
  ASSUME NEW W, NEW n \in DOMAIN W
  PROVE  Bases(W, {n}) = IF W[n].base = "" THEN {} ELSE {W[n].base}
<1>1. PICK blank : blank = ""
  OBVIOUS
<1>2. Bases(W, {n}) = {W[n].base} \ {blank}
  BY <1>1 DEF Bases
<1>3. PICK b : b = W[n].base
  OBVIOUS
<1>4. {b} \ {blank} = IF b = blank THEN {} ELSE {b}
  OBVIOUS
<1> QED
  BY <1>1, <1>2, <1>3, <1>4

Early == {"no project", "no git repo", "--role requires a project", "cannot parse"}

\* Before the agents are resolved there is no answer about them.
LEMMA EarlyAnswer ==
  ASSUME NEW r, r = Nil \/ \E w \in Early : r = Failure(w)
  PROVE  r \notin {Failure("circular"), Failure("unknown base")} /\ r.kind # "runner"
<1>1. CASE r = Nil
  BY <1>1, FailureIs DEF Nil
<1>2. ASSUME NEW w \in Early, r = Failure(w)
      PROVE r \notin {Failure("circular"), Failure("unknown base")} /\ r.kind # "runner"
  <2>1. "circular" \notin Early /\ "unknown base" \notin Early
    BY DEF Early
  <2>2. \A u, v : Failure(u) = Failure(v) => u = v
    <3>1. \A v : Failure(v).why = v
      BY DEF Failure
    <3> QED BY <3>1
  <2> QED BY <1>2, <2>1, <2>2, FailureIs
<1> QED
  BY <1>1, <1>2

LEMMA InitHolds ==
  ASSUME RuntimeInit PROVE RuntimeInv
<1>1. asked \in Commands /\ env = Nil /\ agents = <<>> /\ resolved = {} /\ path = <<>> /\ runner = Nil
  BY DEF RuntimeInit
<1> QED
  BY <1>1, EarlyAnswer DEF RuntimeInv, InOrder, AsWritten, Memo, UnderWay, AsAnswered, Chosen

LEMMA LocateKeeps ==
  ASSUME RuntimeInv, Locate PROVE RuntimeInv'
<1>1. env = Nil /\ agents = <<>> /\ resolved = {} /\ path = <<>> /\ asked \in Commands
  BY DEF RuntimeInv, InOrder, Locate
<1>2. /\ agents' = <<>> /\ resolved' = {} /\ path' = <<>> /\ asked' = asked
      /\ env' = Found
  BY <1>1 DEF Locate, Found
<1>3. Found' = Found
  BY <1>2 DEF Found
<1>4. InOrder'
  BY <1>1, <1>2, <1>3 DEF InOrder
<1>5. runner' = Nil \/ \E w \in Early : runner' = Failure(w)
  BY DEF Locate, Early
<1>6. (AsWritten /\ Memo /\ UnderWay /\ AsAnswered)'
  BY <1>2, <1>5, EarlyAnswer DEF AsWritten, Memo, UnderWay, AsAnswered, Chosen
<1> QED
  BY <1>4, <1>6 DEF RuntimeInv

LEMMA LoadKeeps ==
  ASSUME RuntimeInv, Load PROVE RuntimeInv'
<1>1. /\ env # Nil /\ env = Found /\ agents = <<>> /\ resolved = {} /\ path = <<>> /\ asked \in Commands
      /\ runner = Nil
  BY DEF RuntimeInv, InOrder, Load
<1>2. asked' = asked /\ env' = env /\ resolved' = {} /\ path' = <<>>
  BY <1>1 DEF Load
<1>3. Found' = Found /\ Written' = Written
  BY <1>2 DEF Found, Written
<1>4. InOrder'
  BY <1>1, <1>2, <1>3 DEF InOrder
<1>5. CASE agents' = agents /\ runner' = Failure("cannot parse")
  <2>1. (AsWritten /\ Memo /\ UnderWay /\ AsAnswered)'
    BY <1>1, <1>2, <1>5, EarlyAnswer DEF AsWritten, Memo, UnderWay, AsAnswered, Chosen, Early
  <2> QED BY <1>4, <2>1 DEF RuntimeInv
<1>6. CASE agents' = Written /\ runner' = Nil
  <2>1. AsWritten' /\ Memo'
    <3>1. Written \in [DOMAIN Written -> AgentConfigs]
      BY WrittenIs DEF RuntimeInv
    <3> QED BY <1>2, <1>3, <1>6, <3>1 DEF AsWritten, Memo
  <2>2. UnderWay'
    <3>1. path' \in Seq(DOMAIN Written \ resolved) /\ DOMAIN path' = {} /\ 1..Len(path') - 1 = {}
      BY <1>2, EmptySeq
    <3> QED BY <1>2, <1>3, <3>1 DEF UnderWay
  <2>3. AsAnswered'
    <3>1. runner' \notin {Failure("circular"), Failure("unknown base")} /\ (runner').kind # "runner"
      BY <1>6, FailureIs DEF Nil
    <3> QED BY <1>6, <3>1 DEF AsAnswered, Chosen
  <2> QED BY <1>4, <2>1, <2>2, <2>3 DEF RuntimeInv
<1> QED
  BY <1>1, <1>5, <1>6 DEF Load, Written

\* What does not change while the agents are resolved.
LEMMA StillUnderWay ==
  ASSUME RuntimeInv, Underway, asked' = asked, env' = env, DOMAIN agents' = DOMAIN agents
  PROVE  /\ InOrder /\ env = Found /\ env # Nil /\ agents # <<>> /\ agents' # <<>> /\ DOMAIN agents = DOMAIN Written
         /\ Written' = Written /\ InOrder'
<1>1. agents # <<>> /\ DOMAIN agents = DOMAIN Written
  BY DEF RuntimeInv, AsWritten, Underway
<1>2. agents' # <<>>
  <2>1. DOMAIN agents # {}
    BY <1>1 DEF RuntimeInv, AsWritten
  <2> QED BY <2>1
<1>3. Found' = Found /\ Written' = Written
  BY DEF Found, Written
<1>4. InOrder /\ env = Found /\ env # Nil
  BY <1>1 DEF RuntimeInv, InOrder
<1>5. InOrder'
  BY <1>2, <1>3, <1>4 DEF InOrder
<1> QED
  BY <1>1, <1>2, <1>3, <1>4, <1>5

LEMMA VisitKeeps ==
  ASSUME RuntimeInv, NEW n \in DOMAIN agents, Visit(n) PROVE RuntimeInv'
<1>1. /\ Underway /\ n \in DOMAIN agents \ resolved /\ path' = <<n>>
      /\ asked' = asked /\ env' = env /\ agents' = agents /\ resolved' = resolved /\ runner' = Nil
  BY DEF Visit, Underway
<1>2. /\ InOrder' /\ Written' = Written /\ DOMAIN agents = DOMAIN Written
  BY <1>1, StillUnderWay
<1>3. AsWritten' /\ Memo'
  BY <1>1, <1>2 DEF RuntimeInv, AsWritten, Memo
<1>4. UnderWay'
  <2>1. path' \in Seq(DOMAIN Written \ resolved) /\ DOMAIN path' = {1} /\ 1..Len(path') - 1 = {}
    BY <1>1, <1>2
  <2> QED BY <1>1, <1>2, <2>1 DEF UnderWay
<1>5. AsAnswered'
  BY <1>1, EarlyAnswer DEF AsAnswered, Chosen
<1> QED
  BY <1>2, <1>3, <1>4, <1>5 DEF RuntimeInv

LEMMA PathIs ==
  ASSUME NEW S, NEW p \in Seq(S), p # <<>>
  PROVE  /\ Len(p) \in Nat \ {0} /\ DOMAIN p = 1..Len(p) /\ Len(p) \in DOMAIN p /\ \A i \in DOMAIN p : p[i] \in S
         /\ Last(p) = p[Len(p)] /\ Last(p) \in S
         /\ Len(Front(p)) = Len(p) - 1 /\ \A i \in 1..Len(p) - 1 : Front(p)[i] = p[i] /\ i \in DOMAIN p /\ i # Len(p)
<1> DEFINE L == Len(p)
<1>1. L \in Nat \ {0} /\ DOMAIN p = 1..L /\ \A i \in DOMAIN p : p[i] \in S
  BY EmptySeq, LenProperties, ElementOfSeq
<1>2. Last(p) = p[L] /\ Front(p) = SubSeq(p, 1, L - 1)
  BY DEF Last, Front
<1> HIDE DEF L
<1>3. L - 1 \in Int /\ L \in 1..L /\ \A i \in 1..L - 1 : i \in 1..L /\ i # L
  BY <1>1
<1>4. /\ Len(Front(p)) = IF 1 <= L - 1 THEN L - 1 - 1 + 1 ELSE 0
      /\ \A i \in 1..L - 1 - 1 + 1 : Front(p)[i] = p[1 + i - 1]
  <2>1. \A i \in 1..L - 1 : p[i] \in S
    BY <1>1, <1>3
  <2> QED BY <1>2, <1>3, <2>1, SubSeqProperties
<1>5. L - 1 - 1 + 1 = L - 1 /\ \A i \in 1..L - 1 : 1 + i - 1 = i
  BY <1>1
<1>6. Len(Front(p)) = L - 1
  <2>1. PICK l : l = Len(Front(p))
    OBVIOUS
  <2>2. l = IF 1 <= L - 1 THEN L - 1 - 1 + 1 ELSE 0
    BY <1>4, <2>1
  <2>3. l = L - 1
    BY <1>1, <2>2
  <2> QED BY <2>1, <2>3
<1>7. \A i \in 1..L - 1 : Front(p)[i] = p[i]
  BY <1>4, <1>5
<1>8. L \in DOMAIN p /\ \A i \in 1..L - 1 : i \in DOMAIN p /\ i # L
  BY <1>1, <1>3
<1> QED
  BY <1>1, <1>2, <1>6, <1>7, <1>8 DEF L

\* What is left of the path, when the last name of it is done.
LEMMA FrontIs ==
  ASSUME NEW S, NEW p \in Seq(S), p # <<>>, \A i, j \in DOMAIN p : p[i] = p[j] => i = j
  PROVE  /\ Front(p) \in Seq(S \ {Last(p)})
         /\ DOMAIN Front(p) \subseteq DOMAIN p /\ \A i \in DOMAIN Front(p) : Front(p)[i] = p[i]
         /\ \A i \in 1..Len(Front(p)) - 1 : i \in 1..Len(p) - 1 /\ i \in DOMAIN Front(p) /\ i + 1 \in DOMAIN Front(p)
<1> DEFINE L == Len(p)
           q == Front(p)
           l == Len(q)
<1>1. /\ L \in Nat \ {0} /\ DOMAIN p = 1..L /\ L \in DOMAIN p /\ \A i \in DOMAIN p : p[i] \in S
      /\ Last(p) = p[L]
      /\ l = L - 1 /\ \A i \in 1..L - 1 : q[i] = p[i] /\ i \in DOMAIN p /\ i # L
  BY PathIs
<1>2. q = SubSeq(p, 1, L - 1)
  BY DEF Front
<1> HIDE DEF L, q, l
<1>3. \A i \in 1..L - 1 : p[i] \in S \ {Last(p)}
  <2>1. \A i \in 1..L - 1 : i \in DOMAIN p /\ i # L
    BY <1>1
  <2>2. \A i \in 1..L - 1 : p[i] # p[L]
    BY <1>1, <2>1
  <2> QED BY <1>1, <2>1, <2>2
<1>4. L - 1 \in Int
  BY <1>1
<1>5. q \in Seq(S \ {Last(p)})
  BY <1>2, <1>3, <1>4, SubSeqProperties
<1>6. DOMAIN q = 1..l
  BY <1>5, LenProperties DEF l
<1>7. DOMAIN q = 1..L - 1
  BY <1>1, <1>6
<1>8. \A i \in 1..l - 1 : i \in 1..L - 1 /\ i + 1 \in 1..L - 1
  BY <1>1
<1> QED
  BY <1>1, <1>5, <1>7, <1>8 DEF L, q, l

\* The last of the path, whose turn it is.
LEMMA TurnOf ==
  ASSUME RuntimeInv, Underway, path # <<>>
  PROVE  /\ InOrder /\ DOMAIN agents = DOMAIN Written
         /\ Last(path) \in DOMAIN Written \ resolved /\ agents[Last(path)] = Written[Last(path)]
         /\ Base = Written[Last(path)].base
         /\ path \in Seq(DOMAIN Written \ resolved) /\ \A i, j \in DOMAIN path : path[i] = path[j] => i = j
         /\ \A i \in 1..Len(path) - 1 : path[i + 1] = Written[path[i]].base /\ path[i + 1] # ""
         /\ IsFiniteSet(DOMAIN Written) /\ Written \in [DOMAIN Written -> AgentConfigs]
         /\ agents \in [DOMAIN Written -> AgentConfigs]
<1>1. agents # <<>> /\ InOrder
  BY DEF RuntimeInv, Underway
<1>2. /\ agents \in [DOMAIN Written -> AgentConfigs] /\ \A n \in DOMAIN Written \ resolved : agents[n] = Written[n]
      /\ path \in Seq(DOMAIN Written \ resolved) /\ \A i, j \in DOMAIN path : path[i] = path[j] => i = j
      /\ \A i \in 1..Len(path) - 1 : path[i + 1] = Written[path[i]].base /\ path[i + 1] # ""
  BY <1>1 DEF RuntimeInv, AsWritten, UnderWay
<1>3. Last(path) \in DOMAIN Written \ resolved
  BY <1>2, PathIs
<1> QED
  BY <1>1, <1>2, <1>3, WrittenIs DEF Base

\* There is room in the memo for an agent that is not in it.
LEMMA MemoGrows ==
  ASSUME NEW D, IsFiniteSet(D), NEW R \in SUBSET D, NEW n \in D \ R
  PROVE  /\ Cardinality(R) \in Nat /\ Cardinality(R) < Cardinality(D)
         /\ Cardinality(R \cup {n}) = Cardinality(R) + 1
<1>1. IsFiniteSet(R) /\ Cardinality(R) <= Cardinality(D) /\ Cardinality(R) # Cardinality(D)
  BY FS_Subset
<1>2. Cardinality(R) \in Nat /\ Cardinality(D) \in Nat
  BY <1>1, FS_CardinalityType
<1>3. Cardinality(R \cup {n}) = Cardinality(R) + 1
  BY <1>1, FS_AddElement
<1> QED
  BY <1>1, <1>2, <1>3

LEMMA InheritKeeps ==
  ASSUME RuntimeInv, Inherit PROVE RuntimeInv'
<1> DEFINE n == Last(path)
           b == Base
           W == Written
           more == Cardinality(resolved) + 1
           none == ""
<1>1. /\ Underway /\ path # <<>> /\ (b = none \/ b \in resolved)
      /\ agents' = IF b = none THEN agents ELSE [agents EXCEPT ![n] = Inherited(@, agents[b])]
      /\ resolved' = resolved \cup {n} /\ path' = Front(path)
      /\ asked' = asked /\ env' = env /\ runner' = Nil
  BY DEF Inherit, Underway
<1>2. /\ InOrder /\ DOMAIN agents = DOMAIN W /\ n \in DOMAIN W \ resolved /\ agents[n] = W[n] /\ b = W[n].base
      /\ path \in Seq(DOMAIN W \ resolved) /\ \A i, j \in DOMAIN path : path[i] = path[j] => i = j
      /\ \A i \in 1..Len(path) - 1 : path[i + 1] = W[path[i]].base /\ path[i + 1] # ""
      /\ IsFiniteSet(DOMAIN W) /\ W \in [DOMAIN W -> AgentConfigs] /\ agents \in [DOMAIN W -> AgentConfigs]
  BY <1>1, TurnOf
<1>3. DOMAIN agents' = DOMAIN agents
  BY <1>1
<1>4. agents # <<>> /\ agents' # <<>> /\ Written' = W /\ InOrder'
  BY <1>1, <1>3, StillUnderWay
<1>5. /\ resolved \subseteq DOMAIN W /\ \A m \in DOMAIN W : agents[m].base = W[m].base
      /\ \A m \in DOMAIN W \ resolved : agents[m] = W[m]
      /\ \A m \in resolved : /\ \E k \in 1..Cardinality(resolved) : Ends(W, m, k)
                             /\ \A f \in Fields : Said(agents[m], f) = Nearest(W, m, f)
  BY <1>4 DEF RuntimeInv, AsWritten, Memo
<1> HIDE DEF n, b, W
<1>6. /\ Cardinality(resolved) \in Nat /\ Cardinality(resolved) < Cardinality(DOMAIN W)
      /\ Cardinality(resolved') = more
  BY <1>1, <1>2, <1>5, MemoGrows
<1>7. /\ agents' \in [DOMAIN W -> AgentConfigs] /\ agents'[n].base = W[n].base
      /\ \A m \in DOMAIN W : m # n => agents'[m] = agents[m]
      /\ \E k \in 1..more : Ends(W, n, k)
      /\ \A f \in Fields : Said(agents'[n], f) = Nearest(W, n, f)
  <2>1. CASE b = none
    <3>1. Bases(W, {n}) = {}
      BY <1>2, <2>1, BasesOfOne
    <3>2. Ends(W, n, 1) /\ \A f : Nearest(W, n, f) = Said(W[n], f)
      BY <1>2, <3>1, RootEnds
    <3>3. 1 \in 1..more
      BY <1>6
    <3>4. agents' = agents
      BY <1>1, <2>1
    <3> HIDE DEF more
    <3> QED BY <1>2, <3>2, <3>3, <3>4
  <2>2. CASE b # none
    <3>1. Bases(W, {n}) = {b} /\ b \in resolved /\ b \in DOMAIN W
      BY <1>1, <1>2, <1>5, <2>2, BasesOfOne
    <3>2. PICK k \in 1..Cardinality(resolved) : Ends(W, b, k)
      BY <1>5, <3>1
    <3>3. k < Cardinality(DOMAIN W) /\ k + 1 \in 1..more
      <4>1. Cardinality(DOMAIN W) \in Nat
        BY <1>2, FS_CardinalityType
      <4> QED BY <1>6, <4>1
    <3>4. /\ Ends(W, n, k + 1)
          /\ \A f : Nearest(W, n, f) = IF Said(W[n], f) # {} THEN Said(W[n], f) ELSE Nearest(W, b, f)
      <4>1. n \in DOMAIN W /\ IsFiniteSet(DOMAIN W)
        BY <1>2
      <4> QED BY <3>1, <3>2, <3>3, <4>1, ChildEnds
    <3>5. PICK new : new = Inherited(W[n], agents[b])
      OBVIOUS
    <3>6. agents' = [agents EXCEPT ![n] = new]
      BY <1>1, <1>2, <2>2, <3>5
    <3>7. W[n] \in AgentConfigs /\ agents[b] \in AgentConfigs
      BY <1>2, <3>1
    <3>8. /\ new \in AgentConfigs /\ new.base = W[n].base
          /\ \A f \in Fields : Said(new, f) = IF Said(W[n], f) # {} THEN Said(W[n], f) ELSE Said(agents[b], f)
      BY <3>5, <3>7, InheritedSays
    <3>9. \A f \in Fields : Said(agents[b], f) = Nearest(W, b, f)
      BY <1>5, <3>1
    <3>10. agents'[n] = new /\ \A m \in DOMAIN W : m # n => agents'[m] = agents[m]
      BY <1>2, <3>6
    <3>11. agents' \in [DOMAIN W -> AgentConfigs]
      BY <1>2, <3>6, <3>8
    <3>12. \A f \in Fields : Said(new, f) = Nearest(W, n, f)
      BY <3>4, <3>8, <3>9
    <3> HIDE DEF more
    <3> QED BY <3>3, <3>4, <3>8, <3>10, <3>11, <3>12
  <2> QED BY <2>1, <2>2
<1>8. \A m \in resolved : m # n /\ m \in DOMAIN W
  BY <1>2, <1>5
<1>9. AsWritten'
  <2>1. \A m \in DOMAIN W : agents'[m].base = W[m].base
    BY <1>5, <1>7
  <2>2. \A m \in DOMAIN W \ resolved' : agents'[m] = W[m]
    BY <1>1, <1>5, <1>7
  <2>3. resolved' \subseteq DOMAIN W
    BY <1>1, <1>2, <1>5
  <2> QED BY <1>4, <1>7, <2>1, <2>2, <2>3 DEF AsWritten
<1>10. Memo'
  <2>1. \A k \in 1..Cardinality(resolved) : k \in 1..more
    BY <1>6
  <2>2. ASSUME NEW m \in resolved'
        PROVE  /\ \E k \in 1..more : Ends(W, m, k)
               /\ \A f \in Fields : Said(agents'[m], f) = Nearest(W, m, f)
    <3> HIDE DEF more
    <3> QED BY <1>1, <1>5, <1>7, <1>8, <2>1
  <2> HIDE DEF more
  <2> QED BY <1>4, <1>6, <2>2 DEF Memo
<1>11. UnderWay'
  <2>1. PICK S : S = DOMAIN W \ resolved
    OBVIOUS
  <2>2. /\ path' \in Seq(S \ {n}) /\ DOMAIN path' \subseteq DOMAIN path /\ \A i \in DOMAIN path' : path'[i] = path[i]
        /\ \A i \in 1..Len(path') - 1 : i \in 1..Len(path) - 1 /\ i \in DOMAIN path' /\ i + 1 \in DOMAIN path'
    BY <1>1, <1>2, <2>1, FrontIs DEF n
  <2>3. S \ {n} = DOMAIN W \ resolved'
    BY <1>1, <2>1
  <2>4. \A i, j \in DOMAIN path' : path'[i] = path'[j] => i = j
    BY <1>2, <2>2
  <2>5. \A i \in 1..Len(path') - 1 : path'[i + 1] = W[path'[i]].base /\ path'[i + 1] # ""
    BY <1>2, <2>2
  <2> QED BY <1>4, <2>2, <2>3, <2>4, <2>5 DEF UnderWay
<1>12. AsAnswered'
  BY <1>1, EarlyAnswer DEF AsAnswered, Chosen
<1> QED
  BY <1>4, <1>9, <1>10, <1>11, <1>12 DEF RuntimeInv

LEMMA DescendKeeps ==
  ASSUME RuntimeInv, Descend PROVE RuntimeInv'
<1> DEFINE n == Last(path)
           b == Base
           W == Written
           none == ""
<1>1. /\ Underway /\ path # <<>> /\ b # none /\ b \notin resolved
      /\ asked' = asked /\ env' = env /\ agents' = agents /\ resolved' = resolved
      /\ \/ b \in ToSet(path) /\ runner' = Failure("circular") /\ path' = path
         \/ b \notin DOMAIN agents /\ runner' = Failure("unknown base") /\ path' = path
         \/ b \in DOMAIN agents /\ b \notin ToSet(path) /\ runner' = Nil /\ path' = Append(path, b)
  BY DEF Descend, Underway
<1>2. /\ InOrder /\ DOMAIN agents = DOMAIN W /\ n \in DOMAIN W \ resolved /\ b = W[n].base
      /\ path \in Seq(DOMAIN W \ resolved) /\ \A i, j \in DOMAIN path : path[i] = path[j] => i = j
      /\ \A i \in 1..Len(path) - 1 : path[i + 1] = W[path[i]].base /\ path[i + 1] # ""
      /\ IsFiniteSet(DOMAIN W)
  BY <1>1, TurnOf
<1>3. agents # <<>> /\ agents' # <<>> /\ Written' = W /\ InOrder'
  BY <1>1, StillUnderWay
<1>4. AsWritten' /\ Memo'
  BY <1>1, <1>3 DEF RuntimeInv, AsWritten, Memo
<1>5. /\ Len(path) \in Nat \ {0} /\ DOMAIN path = 1..Len(path) /\ n = path[Len(path)]
      /\ \A i \in DOMAIN path : path[i] \in DOMAIN W \ resolved
  BY <1>1, <1>2, PathIs
<1>6. ToSet(path) = {path[i] : i \in DOMAIN path}
  BY DEF ToSet
<1> HIDE DEF n, b, W
<1> DEFINE L == Len(path)
<1>10. L \in Nat \ {0}
  BY <1>5
<1> HIDE DEF L
<1>7. L \in Nat \ {0} /\ L \in 1..L /\ \A i \in 1..L : i = L \/ (i \in 1..L - 1 /\ i + 1 \in 1..L)
  <2>1. L \in 1..L
    BY <1>10
  <2>2. \A i \in 1..L : i # L => i \in 1..L - 1 /\ i + 1 \in 1..L
    BY <1>10
  <2> QED BY <1>10, <2>1, <2>2
<1>8. CASE runner' # Nil
  <2>1. path' = path
    BY <1>1, <1>8
  <2>2. UnderWay'
    <3>1. UnderWay
      BY DEF RuntimeInv
    <3> QED BY <1>1, <1>3, <2>1, <3>1 DEF UnderWay, W
  <2>3. ~Grounded(W, n)
    <3>1. CASE b \in ToSet(path)
      <4> DEFINE C == ToSet(path)
      <4>1. n \in C
        BY <1>5, <1>6, <1>7 DEF L
      <4>2. ASSUME NEW m \in C PROVE \E c \in C : Bases(W, {m}) = {c}
        <5>1. PICK i \in 1..L : m = path[i]
          BY <1>5, <1>6 DEF L
        <5>2. m \in DOMAIN W
          BY <1>5, <5>1 DEF L
        <5>3. CASE i = L
          <6>1. Bases(W, {m}) = {b}
            BY <1>1, <1>2, <1>5, <5>1, <5>2, <5>3, BasesOfOne DEF L
          <6> QED BY <3>1, <6>1
        <5>4. CASE i \in 1..L - 1 /\ i + 1 \in 1..L
          <6>1. path[i + 1] = W[m].base /\ path[i + 1] # none
            BY <1>2, <5>1, <5>4 DEF L
          <6>2. Bases(W, {m}) = {path[i + 1]}
            BY <5>2, <6>1, BasesOfOne
          <6>3. path[i + 1] \in C
            BY <1>5, <1>6, <5>4 DEF L
          <6> QED BY <6>2, <6>3
        <5> QED BY <1>7, <5>3, <5>4
      <4> HIDE DEF C
      <4> QED BY <1>2, <4>1, <4>2, CycleNeverEnds
    <3>2. CASE b \notin DOMAIN W
      <4>1. n \in DOMAIN W
        BY <1>2
      <4>2. Bases(W, {n}) = {b}
        BY <1>1, <1>2, <4>1, BasesOfOne
      <4> QED BY <1>2, <3>2, <4>1, <4>2, UnknownNotGrounded
    <3> QED BY <1>1, <1>2, <1>8, <3>1, <3>2
  <2>4. \E m \in DOMAIN agents' : ~Grounded(Written', m)
    BY <1>1, <1>2, <1>3, <2>3
  <2>5. resolved' # DOMAIN agents'
    BY <1>1, <1>2
  <2>6. (runner').kind # "runner"
    BY <1>1, <1>8, FailureIs
  <2>7. AsAnswered'
    BY <2>4, <2>5, <2>6 DEF AsAnswered, Chosen
  <2> QED BY <1>3, <1>4, <2>2, <2>7 DEF RuntimeInv
<1>9. CASE runner' = Nil
  <2>1. b \in DOMAIN W \ resolved /\ b \notin ToSet(path) /\ path' = Append(path, b)
    BY <1>1, <1>2, <1>9, FailureIs
  <2>2. PICK S : S = DOMAIN W \ resolved
    OBVIOUS
  <2>3. PICK p : p = path'
    OBVIOUS
  <2>4. /\ p \in Seq(S) /\ Len(p) = L + 1 /\ \A i \in 1..L : p[i] = path[i]
        /\ p[L + 1] = b
    <3>1. path \in Seq(S) /\ b \in S /\ p = Append(path, b)
      BY <1>2, <2>1, <2>2, <2>3
    <3>2. /\ p \in Seq(S) /\ Len(p) = Len(path) + 1 /\ \A i \in 1..Len(path) : p[i] = path[i]
          /\ p[Len(path) + 1] = b
      BY <3>1, AppendProperties
    <3> QED BY <3>2 DEF L
  <2>5. DOMAIN p = 1..L + 1
    BY <2>4, LenProperties
  <2>6. \A i \in 1..L + 1 : i \in 1..L \/ i = L + 1
    BY <1>7
  <2>7. \A i \in 1..L : p[i] # b
    BY <1>5, <1>6, <2>1, <2>4 DEF L
  <2>8. \A i, j \in DOMAIN p : p[i] = p[j] => i = j
    BY <1>2, <1>5, <2>4, <2>5, <2>6, <2>7 DEF L
  <2>9. ASSUME NEW i \in 1..Len(p) - 1 PROVE p[i + 1] = W[p[i]].base /\ p[i + 1] # none
    <3>1. i \in 1..L
      BY <1>7, <2>4
    <3>2. CASE i = L
      <4>1. p[i] = n
        BY <1>5, <2>4, <3>1, <3>2 DEF L
      <4>2. p[i + 1] = b
        BY <2>4, <3>2
      <4> QED BY <1>1, <1>2, <4>1, <4>2
    <3>3. CASE i \in 1..L - 1 /\ i + 1 \in 1..L
      <4>1. p[i] = path[i] /\ p[i + 1] = path[i + 1]
        BY <2>4, <3>1, <3>3
      <4> QED BY <1>2, <3>3, <4>1 DEF L
    <3> QED BY <1>7, <3>1, <3>2, <3>3
  <2>10. UnderWay'
    BY <1>1, <1>3, <2>2, <2>3, <2>4, <2>8, <2>9 DEF UnderWay
  <2>11. AsAnswered'
    BY <1>9, EarlyAnswer DEF AsAnswered, Chosen
  <2> QED BY <1>3, <1>4, <2>10, <2>11 DEF RuntimeInv
<1> QED
  BY <1>8, <1>9

LEMMA ChooseKeeps ==
  ASSUME RuntimeInv, Choose PROVE RuntimeInv'
<1>1. /\ Underway /\ path = <<>> /\ resolved = DOMAIN agents /\ runner' = Answer(asked, env, agents)
      /\ asked' = asked /\ env' = env /\ agents' = agents /\ resolved' = resolved /\ path' = path
  BY DEF Choose, Underway
<1>2. Written' = Written /\ InOrder'
  BY <1>1, StillUnderWay
<1>3. (AsWritten /\ Memo /\ UnderWay)'
  BY <1>1, <1>2 DEF RuntimeInv, AsWritten, Memo, UnderWay
<1>4. runner' \notin {Failure("circular"), Failure("unknown base")}
  <2>1. PICK s : s = Answer(asked, env, agents)
    OBVIOUS
  <2>2. (\E w \in Refusals : s = Failure(w)) \/ IsRunner(s)
    BY <2>1, CommandAnswered DEF Answered
  <2>3. s \notin {Failure("circular"), Failure("unknown base")}
    BY <2>2, RefusalIs, FailureIs DEF IsRunner
  <2> QED BY <1>1, <2>1, <2>3
<1>5. AsAnswered'
  <2>1. PICK s : s = Answer(asked, env, agents)
    OBVIOUS
  <2>2. runner' = s /\ (Answer(asked, env, agents))' = s
    BY <1>1, <2>1
  <2> QED BY <1>4, <2>1, <2>2 DEF AsAnswered
<1> QED
  BY <1>2, <1>3, <1>5 DEF RuntimeInv

LEMMA StepKeeps ==
  ASSUME RuntimeInv, [RuntimeNext]_runtimeVars PROVE RuntimeInv'
<1>1. CASE UNCHANGED runtimeVars
  <2>1. asked' = asked /\ env' = env /\ agents' = agents /\ resolved' = resolved /\ path' = path /\ runner' = runner
    BY <1>1 DEF runtimeVars
  <2>2. Written' = Written /\ Found' = Found
    BY <2>1 DEF Written, Found
  <2>3. (InOrder /\ AsWritten /\ Memo /\ UnderWay)'
    BY <2>1, <2>2 DEF RuntimeInv, InOrder, AsWritten, Memo, UnderWay
  <2>4. AsAnswered'
    <3>1. (Answer(asked, env, agents))' = Answer(asked, env, agents)
      BY <2>1
    <3> QED BY <2>1, <2>2, <3>1 DEF RuntimeInv, AsAnswered, Chosen
  <2> QED BY <2>3, <2>4 DEF RuntimeInv
<1> QED
  BY <1>1, LocateKeeps, LoadKeeps, VisitKeeps, InheritKeeps, DescendKeeps, ChooseKeeps DEF RuntimeNext

\* What is known of every state of a command: the agents are those of the files, and
\* what each has got of its line is what the nearest of it says.
THEOREM RuntimeInvHolds == RuntimeSpec => []RuntimeInv
<1>1. RuntimeInit => RuntimeInv
  BY InitHolds
<1>2. RuntimeInv /\ [RuntimeNext]_runtimeVars => RuntimeInv'
  BY StepKeeps
<1> QED
  BY <1>1, <1>2, PTL DEF RuntimeSpec

LEMMA LinesAsSaid ==
  ASSUME RuntimeInv PROVE InheritsFromNearest
<1>1. ASSUME Underway, resolved = DOMAIN agents, NEW n \in DOMAIN agents
      PROVE Grounded(Written, n) /\ \A f \in Fields : Said(agents[n], f) = Nearest(Written, n, f)
  <2>1. agents # <<>> /\ n \in resolved
    BY <1>1 DEF Underway
  <2>2. PICK k : Ends(Written, n, k)
    BY <2>1 DEF RuntimeInv, Memo
  <2>3. IsFiniteSet(DOMAIN Written)
    BY WrittenIs DEF RuntimeInv
  <2>4. Grounded(Written, n)
    BY <2>2, <2>3, EndsGrounded
  <2> QED BY <2>1, <2>4 DEF RuntimeInv, Memo
<1> QED
  BY <1>1 DEF InheritsFromNearest, RuntimeInv, AsAnswered

-----------------------------------------------------------------------------
(* What a runner does not depend on. *)

\* The same but for where they were typed, their role and their configuration.
Alike(q, a) ==
  /\ q.files = a.files /\ q.secrets = a.secrets /\ q.dockerfiles = a.dockerfiles
  /\ q.containerName = a.containerName /\ q.stored = a.stored /\ q.exported = a.exported
  /\ q.model = a.model /\ q.cheaper = a.cheaper /\ q.budget = a.budget
  /\ q.action = a.action /\ q.profile = a.profile /\ q.agent = a.agent

\* The configuration is the same, or is not asked.
Silent(q, a, spec) == q.config = a.config \/ spec.profile # ""
NamesProfile(q) == q.profile # "" /\ q.action # "code"
NoRole(q) == q.role = ""
RoleOfReport(q) == q.action = "report" /\ q.role \notin DOMAIN q.config.roles

LEMMA AlikeFiles ==
  ASSUME NEW q, NEW a, Alike(q, a), NEW e
  PROVE  ProfileConfig(q, e) = ProfileConfig(a, e) /\ ContainerConfig(q, e) = ContainerConfig(a, e)
<1>1. Levels(q, e) = Levels(a, e)
  BY DEF Levels, Alike
<1> QED
  BY <1>1 DEF ProfileConfig, ContainerConfig

LEMMA AlikeFlags ==
  ASSUME NEW q, NEW a, Alike(q, a), NEW spec, NEW r
  PROVE  ApplyRunnerOverrides(q, spec, r) = ApplyRunnerOverrides(a, spec, r)
<1>1. \A s : ApplyContainerName(q, s) = ApplyContainerName(a, s)
  BY DEF ApplyContainerName, Alike
<1>2. \A s : ApplyModelOverrides(q, s) = ApplyModelOverrides(a, s)
  BY DEF ApplyModelOverrides, Alike
<1>3. \A s : ApplyMaxBudgetUSD(q, spec, s) = ApplyMaxBudgetUSD(a, spec, s)
  BY DEF ApplyMaxBudgetUSD, Alike
<1> QED
  BY <1>1, <1>2, <1>3 DEF ApplyRunnerOverrides

\* What is asked for by name is no matter of the configuration.
LEMMA AlikeBuilt ==
  ASSUME NEW q, NEW a, Alike(q, a), NEW e, NEW ags, NEW spec, Silent(q, a, spec)
  PROVE  BuildRunner(q, e, ags, spec) = BuildRunner(a, e, ags, spec)
<1>1. ProfileConfig(q, e) = ProfileConfig(a, e) /\ ContainerConfig(q, e) = ContainerConfig(a, e)
  BY AlikeFiles
<1>2. \A cc, role : ContainerOf(q, e, cc, role) = ContainerOf(a, e, cc, role)
  BY DEF ContainerOf, Alike
<1>3. \A name : WholeProfile(q, e, ags, name) <=> WholeProfile(a, e, ags, name)
  BY <1>1 DEF WholeProfile
<1>4. \A name, role : NewRunnerFromProfile(q, e, ags, name, role) = NewRunnerFromProfile(a, e, ags, name, role)
  BY <1>1, <1>2 DEF NewRunnerFromProfile, Alike
<1>5. \A name, role : NewRunner(q, e, ags, name, role) = NewRunner(a, e, ags, name, role)
  BY <1>3, <1>4 DEF NewRunner
<1>6. FirstSet(<<spec.profile, ConfiguredProfile(q.config, spec.action, spec.role)>>)
        = FirstSet(<<spec.profile, ConfiguredProfile(a.config, spec.action, spec.role)>>)
  BY FirstOfTwo DEF Silent
<1>7. ResolveRunner(q, e, ags, spec) = ResolveRunner(a, e, ags, spec)
  BY <1>5, <1>6 DEF ResolveRunner
<1>8. ResolveRunnerMinimal(q, e, ags, spec) = ResolveRunnerMinimal(a, e, ags, spec)
  BY <1>1, <1>3 DEF ResolveRunnerMinimal
<1>9. PICK r : r = IF HasProject(e) THEN ResolveRunner(a, e, ags, spec) ELSE ResolveRunnerMinimal(a, e, ags, spec)
  OBVIOUS
<1>10. BuildRunner(a, e, ags, spec) = ApplyRunnerOverrides(a, spec, r)
  BY <1>9 DEF BuildRunner
<1>11. BuildRunner(q, e, ags, spec) = ApplyRunnerOverrides(q, spec, r)
  BY <1>7, <1>8, <1>9 DEF BuildRunner
<1> QED
  <2>1. Alike(q, a)
    OBVIOUS
  <2>2. \A v : ApplyRunnerOverrides(q, spec, v) = ApplyRunnerOverrides(a, spec, v)
    BY <2>1, AlikeFlags
  <2>3. ApplyRunnerOverrides(q, spec, r) = ApplyRunnerOverrides(a, spec, r)
    BY <2>2
  <2> QED BY <1>10, <1>11, <2>3

\* Nor is a command whose profile is given.
LEMMA ConfigurationIsSilent ==
  ASSUME NEW q, NEW a, Alike(q, a), q.role = a.role, NEW e, NEW ags, NamesProfile(a)
  PROVE  Answer(q, e, ags) = Answer(a, e, ags)
<1>1. PICK spec : spec = Asked(a)
  OBVIOUS
<1>2. Asked(q) = spec
  BY <1>1 DEF Asked, AskFor, Alike, NamesProfile
<1>3. Silent(q, a, spec)
  BY <1>1 DEF Asked, AskFor, NamesProfile, Silent
<1>4. PICK common : common = BuildRunner(a, e, ags, spec)
  OBVIOUS
<1>5. BuildRunner(q, e, ags, spec) = common
  <2>1. BuildRunner(q, e, ags, spec) = BuildRunner(a, e, ags, spec)
    BY <1>3, AlikeBuilt
  <2> QED BY <1>4, <2>1
<1>6. \A own : Dressed(a, common, own) = common /\ Dressed(q, common, own) = common
  <2>1. \A own : RoleRunner(a, common, own) = common /\ RoleRunner(q, common, own) = common
    BY DEF RoleRunner, Alike, NamesProfile
  <2>2. q.action = a.action /\ a.action # "code"
    BY DEF Alike, NamesProfile
  <2> QED BY <2>1, <2>2 DEF Dressed
<1> QED
  BY <1>1, <1>2, <1>4, <1>5, <1>6 DEF Answer

\* A role of a report that the configuration does not name runs as the others do.
LEMMA RoleIsSilent ==
  ASSUME NEW q, NEW a, Alike(q, a), q.config = a.config, NoRole(q), NEW e, NEW ags, RoleOfReport(a)
  PROVE  Answer(q, e, ags) = Answer(a, e, ags)
<1>1. PICK spec : spec = Asked(a)
  OBVIOUS
<1>2. Asked(q) = spec
  BY <1>1 DEF Asked, AskFor, Alike, RoleOfReport
<1>3. PICK common : common = BuildRunner(a, e, ags, spec)
  OBVIOUS
<1>4. BuildRunner(q, e, ags, spec) = common
  <2>1. BuildRunner(q, e, ags, spec) = BuildRunner(a, e, ags, spec)
    <3>1. Silent(q, a, spec)
      BY DEF Silent
    <3> QED BY <3>1, AlikeBuilt
  <2> QED BY <1>3, <2>1
<1>5. OwnProfile(a) = ConfiguredProfile(a.config, "report", "") /\ OwnProfile(q) = ConfiguredProfile(q.config, "report", "")
  BY DEF OwnProfile, ConfiguredProfile, NoRole, RoleOfReport
<1>6. \A own : Dressed(a, common, own) = common /\ Dressed(q, common, own) = common
  <2>1. \A own : RoleRunner(a, common, own) = common /\ RoleRunner(q, common, own) = common
    BY <1>5 DEF RoleRunner
  <2>2. q.action = "report" /\ a.action = "report"
    BY DEF Alike, RoleOfReport
  <2> QED BY <2>1, <2>2 DEF Dressed
<1> QED
  BY <1>1, <1>2, <1>3, <1>4, <1>6 DEF Answer

LEMMA FlagsAsSaid ==
  ASSUME RuntimeInv PROVE FlagsSpeakLast
<1> SUFFICES ASSUME runner # Nil, env.ok, resolved # {}, resolved = DOMAIN agents
             PROVE  /\ asked.profile # "" /\ asked.action # "code" =>
                         \A q \in WithAnyConfiguration : Answer(q, env, agents) = runner
                    /\ asked.action = "report" /\ asked.role \notin DOMAIN asked.config.roles =>
                         Answer([asked EXCEPT !.role = ""], env, agents) = runner
                    /\ runner.kind = "runner" /\ asked.model # "" /\ runner.agent.type # "builtin" =>
                         runner.agent.model = asked.model
  BY DEF FlagsSpeakLast
<1>1. runner = Answer(asked, env, agents) /\ asked \in Commands
  BY DEF RuntimeInv, AsAnswered, Chosen, InOrder
<1>2. asked = [fs |-> asked.fs, cwd |-> asked.cwd, flags |-> asked.flags, files |-> asked.files, config |-> asked.config,
            action |-> asked.action, role |-> asked.role, profile |-> asked.profile, agent |-> asked.agent,
            supervisor |-> asked.supervisor, model |-> asked.model, cheaper |-> asked.cheaper, budget |-> asked.budget,
            containerName |-> asked.containerName, stored |-> asked.stored, exported |-> asked.exported,
            secrets |-> asked.secrets, dockerfiles |-> asked.dockerfiles]
  BY <1>1, CommandsAssumption DEF IsCommand
<1>3. ASSUME NEW f \in {"config", "role"}, NEW v
      PROVE  LET q == [asked EXCEPT ![f] = v]
             IN /\ Alike(q, asked) /\ (f = "config" => q.role = asked.role)
                /\ f = "role" => q.role = v /\ q.config = asked.config
  <2>1. PICK q : q = [asked EXCEPT ![f] = v]
    OBVIOUS
  <2>2. \A x \in DOMAIN asked : x # f => q[x] = asked[x]
    BY <2>1
  <2>3. {"files", "secrets", "dockerfiles", "containerName", "stored", "exported", "model", "cheaper", "budget",
         "action", "profile", "agent", "role", "config"} \subseteq DOMAIN asked
    BY <1>2
  <2>4. Alike(q, asked)
    BY <2>2, <2>3 DEF Alike
  <2>5. (f = "config" => q.role = asked.role) /\ (f = "role" => q.role = v /\ q.config = asked.config)
    BY <2>1, <2>2, <2>3
  <2> QED BY <2>1, <2>4, <2>5
<1>4. ASSUME asked.profile # "", asked.action # "code", NEW q \in WithAnyConfiguration
      PROVE  Answer(q, env, agents) = runner
  <2>1. PICK c : q = [asked EXCEPT !.config = c]
    BY DEF WithAnyConfiguration
  <2>2. Alike(q, asked) /\ q.role = asked.role
    BY <1>3, <2>1
  <2>3. NamesProfile(asked)
    BY <1>4 DEF NamesProfile
  <2>4. Answer(q, env, agents) = Answer(asked, env, agents)
    BY <2>2, <2>3, ConfigurationIsSilent
  <2> QED BY <1>1, <2>4
<1>5. ASSUME asked.action = "report", asked.role \notin DOMAIN asked.config.roles
      PROVE  Answer([asked EXCEPT !.role = ""], env, agents) = runner
  <2>1. PICK blank : blank = ""
    OBVIOUS
  <2>2. PICK q : q = [asked EXCEPT !.role = blank]
    OBVIOUS
  <2>3. Alike(q, asked) /\ q.role = blank /\ q.config = asked.config
    BY <1>3, <2>2
  <2>4. NoRole(q) /\ RoleOfReport(asked)
    BY <1>5, <2>1, <2>3 DEF NoRole, RoleOfReport
  <2>5. Answer(q, env, agents) = Answer(asked, env, agents)
    BY <2>3, <2>4, RoleIsSilent
  <2> QED BY <1>1, <2>1, <2>2, <2>5
<1>6. runner.kind = "runner" /\ asked.model # "" /\ runner.agent.type # "builtin" => runner.agent.model = asked.model
  <2>1. PICK s : s = Answer(asked, env, agents)
    OBVIOUS
  <2>2. Modelled(asked, s)
    BY <2>1, CommandAnswered
  <2> QED BY <1>1, <2>1, <2>2 DEF Modelled
<1> QED
  BY <1>4, <1>5, <1>6

-----------------------------------------------------------------------------
(* Where a run is resumed *)

\* The directory of an agent that is in no template.
DirOf(e, d) == CASE d = "abs" -> <<"abs">> [] d = "rel" -> Below(e, "rel") [] OTHER -> NoPath
Untemplated == {"", "abs", "rel"}

LEMMA RequestIs ==
  ASSUME NEW q, NEW e, NEW r, r.dir \in Untemplated
  PROVE  RequestDir(q, e, r) = DirOf(e, r.dir)
<1>1. CASE r.dir = ""
  BY <1>1 DEF RequestDir, DirOf
<1>2. CASE r.dir = "abs"
  BY <1>2 DEF RequestDir, DirOf
<1>3. CASE r.dir = "rel"
  BY <1>3 DEF RequestDir, DirOf
<1> QED
  BY <1>1, <1>2, <1>3 DEF Untemplated

LEMMA RuntimeDirIs ==
  ASSUME NEW e, NEW ps, NEW ags, NEW row, AgentOf(ps, ags, row) \in DOMAIN ags,
         ags[AgentOf(ps, ags, row)].dir \in Untemplated
  PROVE  ConfigDirFromRuntime(e, ps, ags, row) = DirOf(e, ags[AgentOf(ps, ags, row)].dir)
<1>1. PICK n : n = AgentOf(ps, ags, row)
  OBVIOUS
<1>2. PICK d : d = ags[n].dir
  OBVIOUS
<1>3. ConfigDirFromRuntime(e, ps, ags, row)
        = CASE d = "" -> NoPath [] d = "abs" -> <<"abs">> [] OTHER -> Below(e, IF d = "role" THEN "{{ROLE}}" ELSE d)
  BY <1>1, <1>2 DEF ConfigDirFromRuntime
<1>4. d \in Untemplated
  BY <1>1, <1>2
<1>5. CASE d = ""
  BY <1>1, <1>2, <1>3, <1>5 DEF DirOf
<1>6. CASE d = "abs"
  BY <1>1, <1>2, <1>3, <1>6 DEF DirOf
<1>7. CASE d = "rel"
  BY <1>1, <1>2, <1>3, <1>7 DEF DirOf
<1> QED
  BY <1>4, <1>5, <1>6, <1>7 DEF Untemplated

\* The profile of a row tells whose directory the run had.
LEMMA AgentTold ==
  ASSUME NEW ps, NEW row, NEW dir, Tells(ps, agents, row.profile, dir), row.profile # "",
         ToldApart(ps, agents), \A n \in DOMAIN agents : ReadBack(n)
  PROVE  AgentOf(ps, agents, row) \in DOMAIN agents /\ agents[AgentOf(ps, agents, row)].dir = dir
<1>1. CASE \E n \in DOMAIN agents : row.profile = OfAgent(n) /\ dir = agents[n].dir
  <2>1. PICK n \in DOMAIN agents : row.profile = OfAgent(n) /\ dir = agents[n].dir
    BY <1>1
  <2>2. ByAgent(row.profile) /\ TrimPrefix(row.profile) = n
    BY <2>1 DEF ReadBack
  <2>3. AgentOf(ps, agents, row) = TrimPrefix(row.profile)
    BY <2>2 DEF AgentOf
  <2>4. AgentOf(ps, agents, row) = n
    BY <2>2, <2>3
  <2> QED BY <2>1, <2>4
<1>2. CASE row.profile \in DOMAIN ps /\ ps[row.profile].agent \in DOMAIN agents /\ dir = agents[ps[row.profile].agent].dir
  <2>1. ~ByAgent(row.profile)
    BY <1>2 DEF ToldApart
  <2>2. ps[row.profile].agent # ""
    BY <1>2 DEF ToldApart
  <2>3. AgentOf(ps, agents, row) = ps[row.profile].agent
    BY <1>2, <2>1, <2>2 DEF AgentOf
  <2> QED BY <1>2, <2>3
<1> QED
  BY <1>1, <1>2 DEF Tells

\* A directory that is specified is the one the run had.
LEMMA SpecifiedIs ==
  ASSUME NEW q, NEW e, NEW r, NEW shell
  PROVE  /\ SpecifiedEnv(q, e, r) # NoPath => RanIn(q, e, r, shell) = SpecifiedEnv(q, e, r)
         /\ r.env = Unset => /\ SpecifiedEnv(q, e, r) = RequestDir(q, e, r)
                             /\ RanIn(q, e, r, shell) = IF RequestDir(q, e, r) # NoPath THEN RequestDir(q, e, r) ELSE shell
<1>1. PICK d : d = RequestDir(q, e, r)
  OBVIOUS
<1>2. PICK v : v = r.env
  OBVIOUS
<1>3. SpecifiedEnv(q, e, r) = IF d # NoPath THEN d ELSE IF v = Unset \/ v = "" THEN NoPath ELSE <<v>>
  BY <1>1, <1>2 DEF SpecifiedEnv
<1>4. RanIn(q, e, r, shell) = IF d # NoPath THEN d ELSE IF v = Unset THEN shell ELSE IF v = "" THEN NoPath ELSE <<v>>
  <2>1. CASE d # NoPath
    BY <1>1, <2>1 DEF RanIn
  <2>2. CASE d = NoPath /\ v = Unset
    BY <1>1, <1>2, <2>2 DEF RanIn, Unset
  <2>3. CASE d = NoPath /\ v # Unset /\ v = ""
    BY <1>1, <1>2, <2>3 DEF RanIn
  <2>4. CASE d = NoPath /\ v # Unset /\ v # ""
    BY <1>1, <1>2, <2>4 DEF RanIn
  <2> QED BY <2>1, <2>2, <2>3, <2>4
<1> QED
  BY <1>1, <1>2, <1>3, <1>4

LEMMA ResumedThere ==
  ASSUME RuntimeInv PROVE ResumesWhereItRan
<1> DEFINE row == RowOf(runner)
           ps == ProfileConfig(asked, env)
           cmd == SpecifiedEnv(asked, env, runner)
<1> SUFFICES ASSUME runner.kind = "runner", row.agent = "claude", NEW shell \in Shells
             PROVE  /\ cmd # NoPath =>
                         \A ags \in Edited(agents) :
                           ResumedIn(cmd, env, ps, ags, row, shell) = RanIn(asked, env, runner, shell)
                    /\ Profiled(runner) /\ ToldApart(ps, agents) /\ runner.env = Unset /\ runner.dir # "role" =>
                         \A specified \in {cmd, NoPath} :
                           ResumedIn(specified, env, ps, agents, row, shell) = RanIn(asked, env, runner, shell)
  BY DEF ResumesWhereItRan
<1>1. \A specified, ags : specified # NoPath => ResumedIn(specified, env, ps, ags, row, shell) = specified
  BY DEF ResumedIn, ResolveResumeConfigDir
<1>2. \A ags : LET d == ConfigDirFromRuntime(env, ps, ags, row)
               IN ResumedIn(NoPath, env, ps, ags, row, shell) = IF d # NoPath THEN d ELSE shell
  BY DEF ResumedIn, ResolveResumeConfigDir
<1>3. ASSUME cmd # NoPath, NEW ags \in Edited(agents)
      PROVE  ResumedIn(cmd, env, ps, ags, row, shell) = RanIn(asked, env, runner, shell)
  BY <1>1, <1>3, SpecifiedIs
<1>4. ASSUME Profiled(runner), ToldApart(ps, agents), runner.env = Unset, runner.dir # "role",
             NEW specified \in {cmd, NoPath}
      PROVE  ResumedIn(specified, env, ps, agents, row, shell) = RanIn(asked, env, runner, shell)
  <2>1. Answered(ps, agents, runner)
    BY CommandAnswered DEF RuntimeInv, AsAnswered
  <2>2. IsRunner(runner) /\ Tells(ps, agents, runner.profile, runner.dir)
    BY <2>1, FailureIs DEF Answered
  <2>3. row.profile = runner.profile
    BY DEF RowOf
  <2>4. runner.profile # ""
    BY <1>4 DEF Profiled
  <2>5. agents # <<>>
    <3>1. DOMAIN agents # {}
      BY <2>2, <2>4 DEF Tells
    <3> QED BY <3>1
  <2>6. /\ \A n \in DOMAIN agents : ReadBack(n)
        /\ \A n \in DOMAIN agents : agents[n] \in AgentConfigs
    BY <2>5, WrittenIs DEF RuntimeInv, AsWritten
  <2> HIDE DEF row, ps, cmd
  <2>7. AgentOf(ps, agents, row) \in DOMAIN agents /\ agents[AgentOf(ps, agents, row)].dir = runner.dir
    BY <1>4, <2>2, <2>3, <2>4, <2>6, AgentTold
  <2>8. runner.dir \in Untemplated
    <3>1. agents[AgentOf(ps, agents, row)].dir \in {"", "abs", "rel", "role"}
      BY <2>6, <2>7 DEF AgentConfigs
    <3> QED BY <1>4, <2>7, <3>1 DEF Untemplated
  <2>9. PICK d : d = DirOf(env, runner.dir)
    OBVIOUS
  <2>10. ConfigDirFromRuntime(env, ps, agents, row) = d
    BY <2>7, <2>8, <2>9, RuntimeDirIs
  <2>11. RequestDir(asked, env, runner) = d
    BY <2>8, <2>9, RequestIs
  <2>12. cmd = d /\ RanIn(asked, env, runner, shell) = IF d # NoPath THEN d ELSE shell
    BY <1>4, <2>11, SpecifiedIs DEF cmd
  <2>13. \A s : s # NoPath => ResumedIn(s, env, ps, agents, row, shell) = s
    BY <1>1 DEF row, ps
  <2>14. ResumedIn(NoPath, env, ps, agents, row, shell) = IF d # NoPath THEN d ELSE shell
    BY <1>2, <2>10 DEF row, ps
  <2> QED BY <1>4, <2>12, <2>13, <2>14
<1> QED
  BY <1>3, <1>4

-----------------------------------------------------------------------------
(* Where a command is typed *)

LEMMA PrefixIs ==
  ASSUME NEW C, NEW p \in Seq(C), NEW n \in 0..Len(p)
  PROVE  Prefix(p, n) \in Seq(C) /\ Len(Prefix(p, n)) = n /\ \A i \in 1..n : Prefix(p, n)[i] = p[i]
<1>1. Len(p) \in Nat /\ n \in Nat /\ n <= Len(p) /\ \A i \in 1..n : p[i] \in C
  <2>1. Len(p) \in Nat
    BY LenProperties
  <2>2. n \in Nat /\ n <= Len(p) /\ \A i \in 1..n : i \in 1..Len(p)
    BY <2>1
  <2> QED BY <2>1, <2>2, ElementOfSeq
<1>2. PICK s : s = Prefix(p, n)
  OBVIOUS
<1>3. s \in Seq(C) /\ Len(s) = (IF 1 <= n THEN n - 1 + 1 ELSE 0) /\ \A i \in 1..n - 1 + 1 : s[i] = p[1 + i - 1]
  BY <1>1, <1>2, SubSeqProperties DEF Prefix
<1>4. PICK l : l = Len(s)
  OBVIOUS
<1>5. l = n
  <2>1. l = IF 1 <= n THEN n - 1 + 1 ELSE 0
    BY <1>3, <1>4
  <2> QED BY <1>1, <2>1
<1>6. \A i \in 1..n : i \in 1..n - 1 + 1 /\ 1 + i - 1 = i
  BY <1>1
<1> QED
  BY <1>2, <1>3, <1>4, <1>5, <1>6

\* A name below a directory.
LEMMA BelowIs ==
  ASSUME NEW C, NEW p \in Seq(C), NEW t \in C
  PROVE  /\ p \o <<t>> \in Seq(C) /\ p \o <<t>> # <<>> /\ Last(p \o <<t>>) = t /\ Parent(p \o <<t>>) = p
<1> DEFINE L == Len(p)
<1>1. PICK d : d = p \o <<t>>
  OBVIOUS
<1>2. d \in Seq(C) /\ d # <<>> /\ Len(d) = L + 1 /\ d[L + 1] = t /\ \A i \in 1..L : d[i] = p[i]
  BY <1>1, AppendIsConcat, AppendProperties
<1>3. L \in Nat
  BY LenProperties
<1> HIDE DEF L
<1>4. Last(d) = t
  BY <1>2 DEF Last
<1>5. PICK k : k = Len(d)
  OBVIOUS
<1>6. k - 1 = L /\ L \in 0..k
  BY <1>2, <1>3, <1>5
<1>7. Parent(d) = Prefix(d, L)
  BY <1>5, <1>6 DEF Parent, Front, Prefix
<1>8. Prefix(d, L) \in Seq(C) /\ Len(Prefix(d, L)) = L /\ \A i \in 1..L : Prefix(d, L)[i] = d[i]
  BY <1>2, <1>5, <1>6, PrefixIs
<1>9. Prefix(d, L) = p
  <2>1. PICK e : e = Prefix(d, L)
    OBVIOUS
  <2>2. e \in Seq(C) /\ Len(e) = Len(p) /\ \A i \in 1..Len(e) : e[i] = p[i]
    BY <1>2, <1>8, <2>1 DEF L
  <2>3. e = p
    BY <2>2, SeqEqual
  <2> QED BY <2>1, <2>3
<1> QED
  BY <1>1, <1>2, <1>4, <1>7, <1>9

\* The prefixes of a directory within another, up to that one, are of both.
LEMMA WithinIs ==
  ASSUME NEW C, NEW p \in Seq(C), NEW s \in Seq(C), PathInside(p, s)
  PROVE  /\ Len(s) \in Nat /\ Len(p) \in Nat /\ Len(s) <= Len(p) /\ Prefix(p, Len(s)) = s
         /\ \A i \in 1..Len(s) : p[i] = s[i]
         /\ \A n \in 0..Len(s) : n \in 0..Len(p) /\ Prefix(p, n) = Prefix(s, n)
<1> DEFINE L == Len(s)
           M == Len(p)
<1>1. L \in Nat /\ M \in Nat
  BY LenProperties
<1>2. L <= M /\ Prefix(s, L) = Prefix(p, L)
  BY DEF PathInside, IsPrefix, Prefix
<1> HIDE DEF L, M
<1>3. L \in 0..L /\ L \in 0..M
  BY <1>1, <1>2
<1>4. \A i \in 1..L : p[i] = s[i]
  <2>1. \A i \in 1..L : Prefix(s, L)[i] = s[i]
    BY <1>3, PrefixIs DEF L
  <2>2. \A i \in 1..L : Prefix(p, L)[i] = p[i]
    BY <1>3, PrefixIs DEF M
  <2> QED BY <1>2, <2>1, <2>2
<1>5. ASSUME NEW n \in 0..L PROVE n \in 0..M /\ Prefix(p, n) = Prefix(s, n)
  <2>1. n \in 0..M /\ \A i \in 1..n : i \in 1..L
    BY <1>1, <1>2
  <2>2. PICK x, y : x = Prefix(p, n) /\ y = Prefix(s, n)
    OBVIOUS
  <2>3. x \in Seq(C) /\ Len(x) = n /\ \A i \in 1..n : x[i] = p[i]
    BY <2>1, <2>2, PrefixIs DEF M
  <2>4. y \in Seq(C) /\ Len(y) = n /\ \A i \in 1..n : y[i] = s[i]
    BY <2>2, PrefixIs DEF L
  <2>5. x = y
    BY <1>4, <2>1, <2>3, <2>4, SeqEqual
  <2> QED BY <2>1, <2>2, <2>5
<1>6. Prefix(p, L) = s
  <2>1. PICK x : x = Prefix(s, L)
    OBVIOUS
  <2>2. x \in Seq(C) /\ Len(x) = L /\ \A i \in 1..L : x[i] = s[i]
    BY <1>3, <2>1, PrefixIs DEF L
  <2>3. x = s
    BY <2>2, SeqEqual DEF L
  <2> QED BY <1>2, <2>1, <2>3
<1> QED
  BY <1>1, <1>2, <1>4, <1>5, <1>6 DEF L, M

LEMMA MaxIs ==
  ASSUME NEW n \in Nat, NEW S \in SUBSET (0..n), S # {}
  PROVE  Max(S) \in S /\ \A y \in S : y <= Max(S)
<1> DEFINE T == {k + 1 : k \in S}
<1>1. n + 1 \in Nat /\ T \in SUBSET (1..n + 1) /\ T # {}
  <2>1. \A k \in S : k + 1 \in 1..n + 1
    OBVIOUS
  <2>2. T \in SUBSET (1..n + 1)
    BY <2>1
  <2>3. PICK k : k \in S
    OBVIOUS
  <2>4. T # {}
    BY <2>3
  <2>5. n + 1 \in Nat
    OBVIOUS
  <2> HIDE DEF T
  <2> QED BY <2>2, <2>4, <2>5
<1>2. PICK x \in T : \A y \in T : y <= x
  <2> HIDE DEF T
  <2> QED BY <1>1, GreatestElement
<1>3. PICK k \in S : x = k + 1
  OBVIOUS
<1>4. \A y \in S : k >= y
  <2>1. \A y \in S : y + 1 \in T /\ y \in 0..n /\ k \in 0..n
    OBVIOUS
  <2>2. \A y \in S : y + 1 <= k + 1
    <3> HIDE DEF T
    <3> QED BY <1>2, <1>3, <2>1
  <2> HIDE DEF T
  <2> QED BY <2>1, <2>2
<1>5. Max(S) \in S /\ \A y \in S : Max(S) >= y
  BY <1>4 DEF Max
<1>6. PICK m : m = Max(S)
  OBVIOUS
<1>7. m \in 0..n /\ \A y \in S : y \in 0..n /\ m >= y
  BY <1>5, <1>6
<1>8. \A y \in S : y <= m
  BY <1>7
<1> QED
  BY <1>5, <1>6, <1>8

Ups(fs, p, t) == {n \in 0..Len(p) : Prefix(p, n) \o <<t>> \in fs.dirs}

\* With no directory of that name on the way it is one that is there.
LEMMA UpIs ==
  ASSUME NEW fs, NEW C, NEW p \in Seq(C), NEW t \in C, \A n \in DOMAIN p : p[n] # t
  PROVE  /\ Ups(fs, p, t) = {} => FindDirUp(fs, p, t) = NoDir
         /\ Ups(fs, p, t) # {} => /\ Max(Ups(fs, p, t)) \in Ups(fs, p, t)
                                  /\ \A n \in Ups(fs, p, t) : n <= Max(Ups(fs, p, t))
                                  /\ FindDirUp(fs, p, t) = Prefix(p, Max(Ups(fs, p, t))) \o <<t>>
<1>1. FindInPath(p, t) = NoDir
  BY DEF FindInPath
<1>2. FindDirUp(fs, p, t) = IF Ups(fs, p, t) = {} THEN NoDir ELSE Prefix(p, Max(Ups(fs, p, t))) \o <<t>>
  BY <1>1 DEF FindDirUp, Ups
<1>3. Len(p) \in Nat /\ Ups(fs, p, t) \in SUBSET (0..Len(p))
  BY LenProperties DEF Ups
<1> QED
  BY <1>2, <1>3, MaxIs

LEMMA SamePath ==
  ASSUME NEW C, NEW p \in Seq(C)
  PROVE  PathInside(p, p)
BY LenProperties DEF PathInside, IsPrefix

\* A directory of that name with none of that name above it.
TopMost(d, C, t) == \E s \in Seq(C) : d = s \o <<t>> /\ \A n \in DOMAIN s : s[n] # t

\* What is found is one.
LEMMA FoundIs ==
  ASSUME NEW fs, NEW C, NEW p \in Seq(C), NEW t \in C, FindDirUp(fs, p, t) # NoDir
  PROVE  TopMost(FindDirUp(fs, p, t), C, t)
<1> SUFFICES \E s \in Seq(C) : FindDirUp(fs, p, t) = s \o <<t>> /\ \A n \in DOMAIN s : s[n] # t
  BY DEF TopMost
<1> DEFINE at == {n \in DOMAIN p : p[n] = t}
           L == Len(p)
<1>1. L \in Nat /\ DOMAIN p = 1..L
  BY LenProperties
<1>2. CASE at # {}
  <2>1. at \in SUBSET Nat /\ at \subseteq DOMAIN p
    BY <1>1
  <2>2. PICK k \in at : \A y \in at : k <= y
    <3> HIDE DEF at
    <3> QED BY <1>2, <2>1, LeastElement
  <2>3. Min(at) = k
    <3> HIDE DEF at
    <3> QED BY <2>1, <2>2, MinIs
  <2>4. k \in 1..L /\ p[k] = t
    BY <1>1
  <2> HIDE DEF L
  <2>5. k \in 0..L /\ k - 1 \in 0..L /\ k \in Nat \ {0} /\ k - 1 \in Nat /\ k - 1 + 1 = k
    BY <1>1, <2>4
  <2>6. PICK d : d = Prefix(p, k)
    OBVIOUS
  <2>7. d \in Seq(C) /\ Len(d) = k /\ \A i \in 1..k : d[i] = p[i]
    BY <2>5, <2>6, PrefixIs DEF L
  <2>8. PICK s : s = Prefix(p, k - 1)
    OBVIOUS
  <2>9. s \in Seq(C) /\ Len(s) = k - 1 /\ \A i \in 1..k - 1 : s[i] = p[i]
    BY <2>5, <2>8, PrefixIs DEF L
  <2>10. PICK b : b = s \o <<t>>
    OBVIOUS
  <2>11. b \in Seq(C) /\ Len(b) = k /\ b[k] = t /\ \A i \in 1..k - 1 : b[i] = s[i]
    BY <2>5, <2>9, <2>10, AppendIsConcat, AppendProperties
  <2>12. \A i \in 1..k : i = k \/ i \in 1..k - 1
    BY <2>5
  <2>13. \A i \in 1..k : b[i] = d[i]
    <3>1. k \in 1..k
      BY <2>5
    <3> QED BY <2>4, <2>7, <2>9, <2>11, <2>12, <3>1
  <2>14. d = b
    BY <2>7, <2>11, <2>13, SeqEqual
  <2>15. ASSUME NEW n \in DOMAIN s PROVE s[n] # t
    <3>1. n \in 1..k - 1
      BY <2>9, LenProperties
    <3>2. n \in 1..L /\ ~ (k <= n)
      BY <1>1, <2>4, <2>5, <3>1
    <3>3. n \notin at
      <4> HIDE DEF at
      <4> QED BY <2>2, <3>2
    <3>4. p[n] # t
      BY <1>1, <3>2, <3>3
    <3> QED BY <2>9, <3>1, <3>4
  <2>16. FindDirUp(fs, p, t) = d
    <3>1. FindInPath(p, t) = d
      BY <1>2, <2>3, <2>6 DEF FindInPath
    <3>2. d # NoDir
      BY <2>5, <2>7, EmptySeq DEF NoDir
    <3> QED BY <3>1, <3>2 DEF FindDirUp
  <2> QED BY <2>9, <2>10, <2>14, <2>15, <2>16
<1>3. CASE at = {}
  <2>1. \A n \in DOMAIN p : p[n] # t
    BY <1>3
  <2> HIDE DEF at
  <2>2. PICK m \in 0..L : FindDirUp(fs, p, t) = Prefix(p, m) \o <<t>>
    BY <2>1, UpIs DEF Ups
  <2> HIDE DEF L
  <2>3. PICK s : s = Prefix(p, m)
    OBVIOUS
  <2>4. s \in Seq(C) /\ Len(s) = m /\ \A i \in 1..m : s[i] = p[i]
    BY <2>3, PrefixIs DEF L
  <2>5. DOMAIN s = 1..m
    BY <2>4, LenProperties
  <2>6. \A n \in 1..m : n \in DOMAIN p
    BY <1>1
  <2> QED BY <2>1, <2>2, <2>3, <2>4, <2>5, <2>6
<1> QED
  BY <1>2, <1>3

\* From where a directory was found it is found again.
LEMMA FoundAgain ==
  ASSUME NEW fs, NEW C, NEW s \in Seq(C), NEW t \in C, \A n \in DOMAIN s : s[n] # t, s \o <<t>> \in fs.dirs
  PROVE  FindDirUp(fs, s, t) = s \o <<t>>
<1> DEFINE L == Len(s)
           U == Ups(fs, s, t)
<1>1. L \in Nat /\ Prefix(s, L) = s
  BY SamePath, WithinIs
<1>2. L \in 0..L
  BY <1>1
<1>3. L \in U
  BY <1>1, <1>2 DEF Ups
<1>4. \A n \in U : n \in 0..L
  BY DEF Ups
<1> HIDE DEF L, U
<1>5. Max(U) \in U /\ L <= Max(U) /\ FindDirUp(fs, s, t) = Prefix(s, Max(U)) \o <<t>>
  BY <1>3, UpIs DEF U
<1>6. PICK m : m = Max(U)
  OBVIOUS
<1>7. m = L
  BY <1>1, <1>4, <1>5, <1>6
<1> QED
  BY <1>1, <1>5, <1>6, <1>7

\* The organisation is the same from every directory that has none of its own.
LEMMA SameOrganisation ==
  ASSUME NEW fs, NEW C, NEW p \in Seq(C), NEW s \in Seq(C), Org \in C, PathInside(p, s), NoOrgBelow(fs, s, p)
  PROVE  FindDirUp(fs, p, Org) = FindDirUp(fs, s, Org)
<1> DEFINE L == Len(s)
           M == Len(p)
<1>1. /\ L \in Nat /\ M \in Nat /\ L <= M /\ \A i \in 1..L : p[i] = s[i]
      /\ \A n \in 0..L : n \in 0..M /\ Prefix(p, n) = Prefix(s, n)
  BY WithinIs
<1>2. /\ \A n \in DOMAIN p : p[n] # Org
      /\ \A n \in L + 1..M : Prefix(p, n) \o <<Org>> \notin fs.dirs
  BY DEF NoOrgBelow
<1>3. DOMAIN p = 1..M /\ DOMAIN s = 1..L
  BY LenProperties
<1>4. Ups(fs, p, Org) = {n \in 0..M : Prefix(p, n) \o <<Org>> \in fs.dirs}
      /\ Ups(fs, s, Org) = {n \in 0..L : Prefix(s, n) \o <<Org>> \in fs.dirs}
  BY DEF Ups
<1> HIDE DEF L, M
<1>5. \A n \in DOMAIN s : s[n] # Org
  <2>1. \A n \in 1..L : n \in 1..M
    BY <1>1
  <2> QED BY <1>1, <1>2, <1>3, <2>1
<1>6. Ups(fs, p, Org) = Ups(fs, s, Org)
  <2>1. \A n \in 0..M : n \in 0..L \/ n \in L + 1..M
    BY <1>1
  <2> QED BY <1>1, <1>2, <1>4, <2>1
<1>7. \A n \in Ups(fs, s, Org) : Prefix(p, n) = Prefix(s, n)
  BY <1>1, <1>4
<1> QED
  BY <1>2, <1>5, <1>6, <1>7, UpIs

\* Outside of an organisation's directory no id says which project is meant.
LEMMA NoStateDir ==
  ASSUME NEW fs, NEW C, NEW p \in Seq(C), Org \in C, Projects \in C, \A n \in DOMAIN p : p[n] # Org,
         NEW org, org = FindDirUp(fs, p, Org), org # NoDir
  PROVE  FromStateDir(fs, org, p) = NoDir
<1>1. PICK s \in Seq(C) : org = s \o <<Org>>
  <2>1. TopMost(org, C, Org)
    BY FoundIs
  <2> QED BY <2>1 DEF TopMost
<1>2. org \in Seq(C) /\ Last(org) = Org /\ org # <<>>
  BY <1>1, BelowIs
<1>3. PICK in : in = Append(org, Projects)
  OBVIOUS
<1> DEFINE L == Len(org)
<1>4. in \in Seq(C) /\ Len(in) = L + 1 /\ \A i \in 1..L : in[i] = org[i]
  BY <1>2, <1>3, AppendProperties
<1>5. L \in Nat \ {0} /\ org[L] = Org
  BY <1>2, EmptySeq DEF Last
<1>6. ASSUME PathInside(p, in) PROVE FALSE
  <2>1. /\ Len(p) \in Nat /\ L + 1 <= Len(p) /\ \A i \in 1..L + 1 : p[i] = in[i]
    BY <1>4, <1>6, WithinIs
  <2>2. DOMAIN p = 1..Len(p)
    BY LenProperties
  <2> HIDE DEF L
  <2>3. PICK M : M = Len(p)
    OBVIOUS
  <2>4. L \in 1..L /\ L \in 1..L + 1 /\ L \in 1..M
    BY <1>5, <2>1, <2>3
  <2>5. p[L] = Org
    BY <1>4, <1>5, <2>1, <2>4
  <2> QED BY <2>2, <2>3, <2>4, <2>5
<1> QED
  BY <1>3, <1>6 DEF FromStateDir

-----------------------------------------------------------------------------
(* From every directory of a project *)

Components == Seq(STRING) \cup {Org, Project, Projects}

LEMMA PathsAre ==
  ASSUME NEW p \in Seq(Seq(STRING))
  PROVE  p \in Seq(Components)
<1>1. PICK S : S = Seq(STRING)
  OBVIOUS
<1>2. S \subseteq Components
  BY <1>1 DEF Components
<1>3. p \in Seq(S)
  BY <1>1
<1> QED
  BY <1>2, <1>3

Placed(fs, org, project, p) ==
  [ok |-> TRUE, org |-> org, project |-> project, source |-> Parent(project), work |-> p, repo |-> TopLevel(fs, p)]

LEMMA LoadedIs ==
  ASSUME NEW fs, NEW org, NEW project, NEW p
  PROVE  Loaded(fs, org, project, p) = IF project \notin fs.configs THEN NoEnv ELSE Placed(fs, org, project, p)
<1>1. PICK r, yes : r = TopLevel(fs, p) /\ yes = TRUE
  OBVIOUS
<1>2. Scratch(fs, org, p) = [ok |-> yes, org |-> org, project |-> NoDir, source |-> NoDir, work |-> p, repo |-> r]
  <2>1. PICK e : e = [ok |-> yes, org |-> org, project |-> NoDir, source |-> NoDir, work |-> p, repo |-> NoDir]
    OBVIOUS
  <2>2. PICK s : s = [e EXCEPT !.work = p, !.repo = r]
    OBVIOUS
  <2>3. s = [ok |-> yes, org |-> org, project |-> NoDir, source |-> NoDir, work |-> p, repo |-> r]
    BY <2>1, <2>2
  <2>4. Scratch(fs, org, p) = s
    BY <1>1, <2>1, <2>2 DEF Scratch, WithWorkDir
  <2> QED BY <2>3, <2>4
<1>3. PICK e : e = Scratch(fs, org, p)
  OBVIOUS
<1>4. PICK s : s = Parent(project)
  OBVIOUS
<1>5. PICK l : l = [e EXCEPT !.project = project, !.source = s]
  OBVIOUS
<1>6. l = [ok |-> yes, org |-> org, project |-> project, source |-> s, work |-> p, repo |-> r]
  <2>1. e = [ok |-> yes, org |-> org, project |-> NoDir, source |-> NoDir, work |-> p, repo |-> r]
    BY <1>2, <1>3
  <2> QED BY <1>5, <2>1
<1>7. l = Placed(fs, org, project, p)
  BY <1>1, <1>4, <1>6 DEF Placed
<1>8. Loaded(fs, org, project, p) = IF project \notin fs.configs THEN NoEnv ELSE l
  BY <1>3, <1>4, <1>5 DEF Loaded
<1> QED
  BY <1>7, <1>8

LEMMA ScratchIs ==
  ASSUME NEW fs, NEW org, NEW p
  PROVE  LET e == Scratch(fs, org, p) IN e.ok /\ e.project = NoDir /\ e.source = NoDir /\ e.work = p
<1>1. PICK e : e = [ok |-> TRUE, org |-> org, project |-> NoDir, source |-> NoDir, work |-> p, repo |-> NoDir]
  OBVIOUS
<1>2. PICK r, s : r = TopLevel(fs, p) /\ s = [e EXCEPT !.work = p, !.repo = r]
  OBVIOUS
<1>3. s.ok /\ s.project = NoDir /\ s.source = NoDir /\ s.work = p
  BY <1>1, <1>2
<1>4. Scratch(fs, org, p) = s
  BY <1>1, <1>2 DEF Scratch, WithWorkDir
<1> QED
  BY <1>3, <1>4

LEMMA PlacedIs ==
  ASSUME NEW fs, NEW org, NEW project, NEW p
  PROVE  LET e == Placed(fs, org, project, p)
         IN /\ e.ok /\ e.org = org /\ e.project = project /\ e.source = Parent(project) /\ e.work = p
            /\ WithWorkDir(fs, e, e.source) = Placed(fs, org, project, Parent(project))
<1>1. PICK s, r, v : s = Parent(project) /\ r = TopLevel(fs, p) /\ v = TopLevel(fs, s)
  OBVIOUS
<1>2. PICK e : e = [ok |-> TRUE, org |-> org, project |-> project, source |-> s, work |-> p, repo |-> r]
  OBVIOUS
<1>3. e = Placed(fs, org, project, p)
  BY <1>1, <1>2 DEF Placed
<1>4. e.ok /\ e.org = org /\ e.project = project /\ e.source = s /\ e.work = p
  BY <1>2
<1>5. PICK l : l = [e EXCEPT !.work = s, !.repo = v]
  OBVIOUS
<1>6. WithWorkDir(fs, e, s) = Placed(fs, org, project, s)
  <2>1. PICK yes : yes = TRUE
    OBVIOUS
  <2>2. e = [ok |-> yes, org |-> org, project |-> project, source |-> s, work |-> p, repo |-> r]
    BY <1>2, <2>1
  <2>3. l = [ok |-> yes, org |-> org, project |-> project, source |-> s, work |-> s, repo |-> v]
    BY <1>5, <2>2
  <2>4. l = Placed(fs, org, project, s)
    BY <1>1, <2>1, <2>3 DEF Placed
  <2>5. WithWorkDir(fs, e, s) = l
    BY <1>1, <1>5 DEF WithWorkDir
  <2> QED BY <2>4, <2>5
<1> QED
  BY <1>1, <1>3, <1>4, <1>6

LEMMA ResolveIsLookup ==
  ASSUME NEW fs, NEW p
  PROVE  Resolve(fs, p, NoDir, NoDir) = LookupFrom(fs, p) /\ Lookup(fs, p, NoDir, NoDir) = LookupFrom(fs, p)
<1>1. PICK org : org = FindDirUp(fs, p, Org)
  OBVIOUS
<1>2. PICK project : project = DiscoverProject(fs, org, p)
  OBVIOUS
<1>3. LookupFrom(fs, p) = IF project # NoDir THEN Loaded(fs, org, project, p)
                          ELSE IF org # NoDir THEN Scratch(fs, org, p) ELSE NoEnv
  BY <1>1, <1>2 DEF LookupFrom
<1>4. Resolve(fs, p, NoDir, NoDir) = IF project # NoDir THEN Loaded(fs, org, project, p)
                          ELSE IF org # NoDir THEN Scratch(fs, org, p) ELSE NoEnv
  BY <1>1, <1>2 DEF Resolve
<1> QED
  BY <1>3, <1>4 DEF Lookup

\* What a command in a project has found, before and after the work directory is settled.
LEMMA PlaceOf ==
  ASSUME NEW fs, NEW p, NEW e, e = ApplyWorkDirFlag(fs, LookupFrom(fs, p), NoDir), e.ok, HasProject(e)
  PROVE  LET org == FindDirUp(fs, p, Org)
             project == DiscoverProject(fs, org, p)
         IN /\ project # NoDir /\ project \in fs.configs
            /\ LookupFrom(fs, p) = Placed(fs, org, project, p)
            /\ e.org = org /\ e.project = project /\ e.source = Parent(project)
            /\ e = IF PathInside(p, Parent(project)) THEN Placed(fs, org, project, Parent(project))
                   ELSE Placed(fs, org, project, p)
<1>1. PICK org : org = FindDirUp(fs, p, Org)
  OBVIOUS
<1>2. PICK project : project = DiscoverProject(fs, org, p)
  OBVIOUS
<1>3. PICK f : f = LookupFrom(fs, p)
  OBVIOUS
<1>4. f = IF project # NoDir THEN Loaded(fs, org, project, p)
          ELSE IF org # NoDir THEN Scratch(fs, org, p) ELSE NoEnv
  BY <1>1, <1>2, <1>3 DEF LookupFrom
<1>5. e = IF ~f.ok THEN f ELSE IF HasProject(f) /\ PathInside(f.work, f.source) THEN WithWorkDir(fs, f, f.source) ELSE f
  BY <1>3 DEF ApplyWorkDirFlag
<1>6. f # NoEnv /\ f.ok
  BY <1>5 DEF NoEnv
<1>7. project # NoDir
  <2>1. ASSUME project = NoDir PROVE FALSE
    <3>1. f = Scratch(fs, org, p)
      BY <1>4, <1>6, <2>1
    <3>2. f.ok /\ f.project = NoDir
      BY <3>1, ScratchIs
    <3>3. e = f
      BY <1>5, <3>2 DEF HasProject
    <3> QED BY <3>2, <3>3 DEF HasProject
  <2> QED BY <2>1
<1>8. project \in fs.configs /\ f = Placed(fs, org, project, p)
  BY <1>4, <1>6, <1>7, LoadedIs
<1>9. PICK s : s = Parent(project)
  OBVIOUS
<1>10. /\ f.ok /\ f.org = org /\ f.project = project /\ f.source = s /\ f.work = p
       /\ WithWorkDir(fs, f, s) = Placed(fs, org, project, s)
  BY <1>8, <1>9, PlacedIs
<1>11. e = IF PathInside(p, s) THEN Placed(fs, org, project, s) ELSE f
  BY <1>5, <1>7, <1>10 DEF HasProject
<1>12. e.org = org /\ e.project = project /\ e.source = s
  BY <1>8, <1>9, <1>11, PlacedIs
<1> QED
  BY <1>1, <1>2, <1>3, <1>7, <1>8, <1>9, <1>11, <1>12

\* Without flags the two ways of looking agree on a project.
LEMMA BothFind ==
  ASSUME NEW fs, NEW p, NEW e, e = ApplyWorkDirFlag(fs, LookupFrom(fs, p), NoDir), e.ok, HasProject(e)
  PROVE  LookupEnv(fs, p, NoFlags) = e /\ ResolveEnv(fs, p, NoFlags) = e
<1>1. NoFlags.org = NoDir /\ NoFlags.project = NoDir /\ NoFlags.work = NoDir
  BY DEF NoFlags
<1>2. PICK f : f = LookupFrom(fs, p)
  OBVIOUS
<1>3. PICK org, project : org = FindDirUp(fs, p, Org) /\ project = DiscoverProject(fs, org, p)
  OBVIOUS
<1>4. project # NoDir /\ f = Placed(fs, org, project, p)
  BY <1>2, <1>3, PlaceOf
<1>5. f.ok /\ HasProject(f)
  BY <1>4, PlacedIs DEF HasProject
<1>6. Resolve(fs, p, NoFlags.org, NoFlags.project) = f /\ Lookup(fs, p, NoFlags.org, NoFlags.project) = f
  BY <1>1, <1>2, ResolveIsLookup
<1>7. e = ApplyWorkDirFlag(fs, f, NoFlags.work)
  BY <1>1, <1>2
<1> QED
  BY <1>5, <1>6, <1>7 DEF LookupEnv, ResolveEnv

\* Outside of an organisation's directory the project is the one found on the way up.
LEMMA NearestProject ==
  ASSUME NEW fs, NEW C, NEW p \in Seq(C), NEW s, Org \in C, Projects \in C, NoOrgBelow(fs, s, p)
  PROVE  DiscoverProject(fs, FindDirUp(fs, p, Org), p) = FindDirUp(fs, p, Project)
<1>1. PICK org : org = FindDirUp(fs, p, Org)
  OBVIOUS
<1>2. \A n \in DOMAIN p : p[n] # Org
  BY DEF NoOrgBelow
<1>3. org # NoDir => FromStateDir(fs, org, p) = NoDir
  BY <1>1, <1>2, NoStateDir
<1> QED
  BY <1>1, <1>3 DEF DiscoverProject

\* Every directory within a project resolves to one place.
LEMMA ResolvedWithin ==
  ASSUME NEW fs, NEW C, NEW p \in Seq(C), NEW s \in Seq(C), Org \in C, Projects \in C,
         PathInside(p, s), NoOrgBelow(fs, s, p),
         NEW project, FindDirUp(fs, p, Project) = project, project # NoDir, project \in fs.configs, Parent(project) = s
  PROVE  ResolveEnv(fs, p, NoFlags) = Placed(fs, FindDirUp(fs, s, Org), project, s)
<1>1. PICK org : org = FindDirUp(fs, s, Org)
  OBVIOUS
<1>2. FindDirUp(fs, p, Org) = org
  BY <1>1, SameOrganisation
<1>3. DiscoverProject(fs, org, p) = project
  BY <1>2, NearestProject
<1>4. PICK f : f = LookupFrom(fs, p)
  OBVIOUS
<1>5. f = Placed(fs, org, project, p)
  BY <1>2, <1>3, <1>4, LoadedIs DEF LookupFrom
<1>6. /\ f.ok /\ f.project = project /\ f.source = s /\ f.work = p
      /\ WithWorkDir(fs, f, s) = Placed(fs, org, project, s)
  BY <1>5, PlacedIs
<1>7. HasProject(f)
  BY <1>6 DEF HasProject
<1>8. PICK e : e = ApplyWorkDirFlag(fs, f, NoDir)
  OBVIOUS
<1>9. e = Placed(fs, org, project, s)
  BY <1>6, <1>7, <1>8 DEF ApplyWorkDirFlag
<1>10. e.ok /\ e.project = project
  BY <1>9, PlacedIs
<1>11. HasProject(e)
  BY <1>10 DEF HasProject
<1>12. ResolveEnv(fs, p, NoFlags) = e
  BY <1>4, <1>8, <1>10, <1>11, BothFind
<1> QED
  BY <1>1, <1>9, <1>12

\* --project with the root of a project names that project, from anywhere.
LEMMA NamedBySource ==
  ASSUME NEW fs, NEW C, NEW p, NEW s \in Seq(C), s # NoDir, Project \in C, \A n \in DOMAIN s : s[n] # Project,
         NEW project, project = s \o <<Project>>, project \in fs.dirs, project \in fs.configs
  PROVE  LET there == Resolve(fs, p, NoDir, s)
         IN there.org = FindDirUp(fs, s, Org) /\ there.project = project
<1>1. PICK org : org = FindDirUp(fs, s, Org)
  OBVIOUS
<1>2. PICK t : t = Project
  OBVIOUS
<1>3. FindDirUp(fs, s, t) = project
  BY <1>2, FoundAgain
<1>4. project # NoDir /\ Parent(project) = s
  BY <1>2, BelowIs DEF NoDir
<1>5. Last(s) # t
  <2>1. Len(s) \in DOMAIN s
    <3>1. Len(s) \in Nat /\ DOMAIN s = 1..Len(s) /\ Len(s) # 0
      BY LenProperties, EmptySeq DEF NoDir
    <3>2. PICK L : L = Len(s)
      OBVIOUS
    <3>3. L \in 1..L
      BY <3>1, <3>2
    <3> QED BY <3>1, <3>2, <3>3
  <2> QED BY <1>2, <2>1 DEF Last
<1>6. ResolveSpecialDir(fs, s, t) = project
  BY <1>3, <1>5 DEF ResolveSpecialDir
<1>7. Resolve(fs, p, NoDir, s) = Loaded(fs, org, project, p)
  BY <1>1, <1>2, <1>4, <1>6 DEF Resolve
<1>8. PICK there : there = Resolve(fs, p, NoDir, s)
  OBVIOUS
<1>9. there = Placed(fs, org, project, p)
  BY <1>7, <1>8, LoadedIs
<1>10. there.org = org /\ there.project = project
  <2>1. PICK a, b : a = Parent(project) /\ b = TopLevel(fs, p)
    OBVIOUS
  <2>2. there = [ok |-> TRUE, org |-> org, project |-> project, source |-> a, work |-> p, repo |-> b]
    BY <1>9, <2>1 DEF Placed
  <2> QED BY <2>2
<1> QED
  BY <1>1, <1>8, <1>10

LEMMA ProjectIs ==
  ASSUME NEW fs, NEW C, NEW p \in Seq(C), Project \in C, NEW project, project = FindDirUp(fs, p, Project), project # NoDir
  PROVE  \E s \in Seq(C) : /\ project = s \o <<Project>> /\ \A n \in DOMAIN s : s[n] # Project
                           /\ Parent(project) = s
<1>1. TopMost(project, C, Project)
  BY FoundIs
<1>2. PICK s \in Seq(C) : project = s \o <<Project>> /\ \A n \in DOMAIN s : s[n] # Project
  BY <1>1 DEF TopMost
<1>3. PICK t : t = Project
  OBVIOUS
<1>4. Parent(project) = s
  BY <1>2, <1>3, BelowIs
<1> QED
  BY <1>2, <1>4

\* A command typed in a project has the same from every directory of it.
LEMMA AlikeEverywhere ==
  ASSUME NEW fs, NEW C, NEW p \in Seq(C), Org \in C, Project \in C, Projects \in C,
         fs.dirs \subseteq Seq(C), fs.configs \subseteq fs.dirs, <<Project>> \notin fs.dirs,
         NEW e, e = ApplyWorkDirFlag(fs, LookupFrom(fs, p), NoDir), e.ok, HasProject(e),
         PathInside(p, e.source), NoOrgBelow(fs, e.source, p)
  PROVE  /\ \A d \in fs.dirs : /\ PathInside(d, e.source) /\ NoOrgBelow(fs, e.source, d)
                               /\ FindDirUp(fs, d, Project) = e.project
                               => ResolveEnv(fs, d, NoFlags) = e
         /\ \A d \in fs.dirs : \E there \in {Resolve(fs, d, NoDir, e.source)} :
                                 there.org = e.org /\ there.project = e.project
<1>1. PICK project : project = FindDirUp(fs, p, Project)
  OBVIOUS
<1>2. DiscoverProject(fs, FindDirUp(fs, p, Org), p) = project
  BY <1>1, NearestProject
<1>3. PICK over : over = FindDirUp(fs, p, Org)
  OBVIOUS
<1>4. /\ project # NoDir /\ project \in fs.configs /\ e.org = over /\ e.project = project /\ e.source = Parent(project)
      /\ e = IF PathInside(p, Parent(project)) THEN Placed(fs, over, project, Parent(project))
             ELSE Placed(fs, over, project, p)
  BY <1>2, <1>3, PlaceOf
<1>5. PICK t : t = Project
  OBVIOUS
<1>6. PICK s \in Seq(C) : /\ project = s \o <<Project>> /\ \A n \in DOMAIN s : s[n] # Project
                          /\ Parent(project) = s
  BY <1>1, <1>4, ProjectIs
<1>7. project = s \o <<t>> /\ \A n \in DOMAIN s : s[n] # t
  BY <1>5, <1>6
<1>8. Parent(project) = s
  BY <1>6
<1>9. e.source = s /\ PathInside(p, s) /\ NoOrgBelow(fs, s, p)
  BY <1>4, <1>8
<1>10. FindDirUp(fs, s, Org) = over
  BY <1>3, <1>9, SameOrganisation
<1>11. e = Placed(fs, over, project, s)
  BY <1>4, <1>8, <1>9
<1>12. s # NoDir
  <2>1. ASSUME s = NoDir PROVE FALSE
    <3>1. project = <<Project>>
      BY <1>5, <1>7, <2>1 DEF NoDir
    <3> QED BY <1>4, <3>1
  <2> QED BY <2>1
<1>13. ASSUME NEW d \in fs.dirs, PathInside(d, s), NoOrgBelow(fs, s, d), FindDirUp(fs, d, Project) = project
       PROVE  ResolveEnv(fs, d, NoFlags) = e
  <2>1. d \in Seq(C)
    OBVIOUS
  <2>2. ResolveEnv(fs, d, NoFlags) = Placed(fs, FindDirUp(fs, s, Org), project, s)
    BY <1>4, <1>8, <1>13, <2>1, ResolvedWithin
  <2> QED BY <1>10, <1>11, <2>2
<1>14. ASSUME NEW d \in fs.dirs
       PROVE  \E there \in {Resolve(fs, d, NoDir, s)} : there.org = over /\ there.project = project
  <2>1. PICK there : there = Resolve(fs, d, NoDir, s)
    OBVIOUS
  <2>2. \A n \in DOMAIN s : s[n] # Project
    BY <1>5, <1>7
  <2>3. project = s \o <<Project>> /\ project \in fs.dirs /\ project \in fs.configs
    BY <1>4, <1>5, <1>7
  <2>4. there.org = over /\ there.project = project
    BY <1>10, <1>12, <2>1, <2>2, <2>3, NamedBySource
  <2> QED BY <2>1, <2>4
<1> QED
  BY <1>4, <1>9, <1>13, <1>14

LEMMA LocatedAsSaid == RuntimeInv => SameFromEverywhere
<1> SUFFICES ASSUME RuntimeInv, env # Nil, env.ok, agents = <<>>, asked.flags = NoFlags, HasProject(env)
             PROVE  LET within == PathInside(asked.cwd, env.source) /\ NoOrgBelow(asked.fs, env.source, asked.cwd)
                        alike == {p \in asked.fs.dirs : /\ PathInside(p, env.source)
                                                        /\ NoOrgBelow(asked.fs, env.source, p)
                                                        /\ FindDirUp(asked.fs, p, Project) = env.project}
                    IN /\ LookupEnv(asked.fs, asked.cwd, NoFlags) = env
                       /\ \A p \in {asked.cwd} \cup (IF within THEN alike ELSE {}) : ResolveEnv(asked.fs, p, NoFlags) = env
                       /\ within => \A p \in asked.fs.dirs :
                                      \E there \in {Resolve(asked.fs, p, NoDir, env.source)} :
                                        there.org = env.org /\ there.project = env.project
  BY DEF SameFromEverywhere
<1>1. PICK fs : fs = asked.fs
  OBVIOUS
<1>2. PICK cwd : cwd = asked.cwd
  OBVIOUS
<1>3. PICK C : C = Components
  OBVIOUS
<1>4. IsCommand(asked)
  BY CommandsAssumption DEF RuntimeInv, InOrder
<1>5. /\ cwd \in Seq(Seq(STRING)) /\ fs.dirs \subseteq Seq(Seq(STRING)) /\ fs.configs \subseteq fs.dirs
      /\ <<Project>> \notin fs.dirs
  BY <1>1, <1>2, <1>4 DEF IsCommand
<1>6. Org \in C /\ Project \in C /\ Projects \in C /\ cwd \in Seq(C) /\ fs.dirs \subseteq Seq(C)
  <2>1. Org \in C /\ Project \in C /\ Projects \in C
    BY <1>3 DEF Components
  <2>2. \A p \in Seq(Seq(STRING)) : p \in Seq(C)
    BY <1>3, PathsAre
  <2> QED BY <1>5, <2>1, <2>2
<1>7. NoFlags.org = NoDir /\ NoFlags.project = NoDir /\ NoFlags.work = NoDir
  BY DEF NoFlags
<1>8. env = ResolveEnv(fs, cwd, NoFlags) \/ env = LookupEnv(fs, cwd, NoFlags)
  BY <1>1, <1>2 DEF RuntimeInv, InOrder, Found
<1>9. LookupEnv(fs, cwd, NoFlags) = ApplyWorkDirFlag(fs, LookupFrom(fs, cwd), NoDir)
  BY <1>7, ResolveIsLookup DEF LookupEnv
<1>10. ResolveEnv(fs, cwd, NoFlags) \in {NoEnv, ApplyWorkDirFlag(fs, LookupFrom(fs, cwd), NoDir)}
  BY <1>7, ResolveIsLookup DEF ResolveEnv
<1>11. env # NoEnv
  BY DEF NoEnv
<1>12. env = ApplyWorkDirFlag(fs, LookupFrom(fs, cwd), NoDir)
  BY <1>8, <1>9, <1>10, <1>11
<1>13. LookupEnv(fs, cwd, NoFlags) = env /\ ResolveEnv(fs, cwd, NoFlags) = env
  BY <1>12, BothFind
<1>14. ASSUME PathInside(cwd, env.source), NoOrgBelow(fs, env.source, cwd)
       PROVE  /\ \A d \in fs.dirs : /\ PathInside(d, env.source) /\ NoOrgBelow(fs, env.source, d)
                                    /\ FindDirUp(fs, d, Project) = env.project
                                    => ResolveEnv(fs, d, NoFlags) = env
              /\ \A d \in fs.dirs : \E there \in {Resolve(fs, d, NoDir, env.source)} :
                                      there.org = env.org /\ there.project = env.project
  BY <1>5, <1>6, <1>12, <1>14, AlikeEverywhere
<1> QED
  BY <1>1, <1>2, <1>13, <1>14

-----------------------------------------------------------------------------
(* What the runs check *)

\* Whatever the files say of the agents, and in whatever order the agents are resolved
\* and the command is typed, its runner is what the files, config.toml and the flags say,
\* the nearest first: every field of an agent from the nearest of its line, the same
\* project from all of its directories, and no flag overruled by the configuration
\* (resolveInheritance, root.Resolve, config.ResolveProfile, cmd/table.go).
THEOREM SetUpAsSaidHolds == RuntimeSpec => []SetUpAsSaid
<1>1. RuntimeInv => SetUpAsSaid
  BY LinesAsSaid, LocatedAsSaid, FlagsAsSaid DEF SetUpAsSaid
<1> QED
  BY <1>1, RuntimeInvHolds, PTL

\* A claude session is resumed in the directory it was written to, for every command,
\* agent and profile, as far as ResumesWhereItRan says (resolveResumeConfigDir,
\* configDirFromRuntime, launchResume).
THEOREM ResumesWhereItRanHolds == RuntimeSpec => []ResumesWhereItRan
<1>1. RuntimeInv => ResumesWhereItRan
  BY ResumedThere
<1> QED
  BY <1>1, RuntimeInvHolds, PTL
=============================================================================
