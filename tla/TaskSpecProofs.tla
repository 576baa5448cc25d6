--------------------------- MODULE TaskSpecProofs ---------------------------
(***************************************************************************)
(* The Spec of an admitted pipeline and the objects Setup creates of it:   *)
(* memory adds up, volumes and secrets are those that were asked for, and  *)
(* namespaces are the task's own, whatever the pipeline, the policies and  *)
(* the configuration are.                                                  *)
(***************************************************************************)
EXTENDS ExecutionProofs

-----------------------------------------------------------------------------
(* Loops: induction, for a set instead of a predicate, and what the        *)
(* recursive functions of the model compute.                               *)

LEMMA Induction ==
  ASSUME NEW n \in Nat, NEW S, 0 \in S, \A k \in 1 .. n : k - 1 \in S => k \in S
  PROVE  \A k \in 0 .. n : k \in S
<1> DEFINE T == {k \in 0 .. n : k \notin S}
<1>1. ASSUME NEW k \in T, \A j \in T : ~(j < k) PROVE FALSE
  <2>1. k \in 1 .. n
    BY <1>1
  <2>2. k - 1 \in 0 .. n /\ k - 1 < k
    BY <2>1
  <2> QED BY <1>1, <2>1, <2>2
<1>2. T \subseteq Nat
  OBVIOUS
<1>3. T = {}
  <2> HIDE DEF T
  <2> QED BY <1>1, <1>2, LeastIs
<1> QED BY <1>3

(* f goes through n steps from base. *)
Loop(V, n, base, step, f) ==
  f \in [0 .. n -> V] /\ f[0] = base /\ \A i \in 1 .. n : f[i] = step[<<f[i - 1], i>>]

LEMMA LoopIs ==
  ASSUME NEW V, NEW n \in Nat, NEW base \in V, NEW step \in [V \X (1 .. n) -> V]
  PROVE  \E f : Loop(V, n, base, step, f)
<1> DEFINE S == {k \in 0 .. n :
                   \E f \in [0 .. k -> V] : f[0] = base /\ \A i \in 1 .. k : f[i] = step[<<f[i - 1], i>>]}
<1>1. 0 \in S
  <2> DEFINE f == [i \in 0 .. 0 |-> base]
  <2>1. f \in [0 .. 0 -> V] /\ f[0] = base /\ 1 .. 0 = {} /\ 0 \in 0 .. n
    OBVIOUS
  <2> HIDE DEF f
  <2> QED BY <2>1
<1>2. ASSUME NEW k \in 1 .. n, k - 1 \in S PROVE k \in S
  <2>1. PICK f \in [0 .. k - 1 -> V] : f[0] = base /\ \A i \in 1 .. k - 1 : f[i] = step[<<f[i - 1], i>>]
    BY <1>2
  <2> DEFINE v == step[<<f[k - 1], k>>]
             g == [i \in 0 .. k |-> IF i = k THEN v ELSE f[i]]
  <2>2. v \in V
    BY <2>1
  <2>3. /\ g \in [0 .. k -> V] /\ g[k] = v
        /\ \A i \in 0 .. k - 1 : g[i] = f[i]
    <3> HIDE DEF v
    <3> QED BY <2>1, <2>2
  <2> HIDE DEF g
  <2>4. ASSUME NEW i \in 1 .. k PROVE g[i] = step[<<g[i - 1], i>>]
    <3>1. CASE i = k
      BY <2>3, <3>1
    <3>2. CASE i # k
      <4>1. i \in 1 .. k - 1 /\ i - 1 \in 0 .. k - 1 /\ i \in 0 .. k - 1
        BY <3>2
      <4> QED BY <2>1, <2>3, <4>1
    <3> QED BY <3>1, <3>2
  <2> QED BY <2>1, <2>3, <2>4
<1>3. \A k \in 0 .. n : k \in S
  <2> HIDE DEF S
  <2> QED BY <1>1, <1>2, Induction
<1>4. n \in 0 .. n
  OBVIOUS
<1> QED BY <1>3, <1>4 DEF Loop

-----------------------------------------------------------------------------
(* Sequences, and what is in them *)

LEMMA RangeOfConcat ==
  ASSUME NEW S, NEW T, NEW s \in Seq(S), NEW t \in Seq(T)
  PROVE  s \o t \in Seq(S \cup T) /\ Range(s \o t) = Range(s) \cup Range(t)
<1>1. /\ s \o t \in Seq(S \cup T) /\ Len(s) \in Nat /\ Len(t) \in Nat
      /\ DOMAIN (s \o t) = 1 .. Len(s) + Len(t)
      /\ \A i \in 1 .. Len(s) : (s \o t)[i] = s[i]
      /\ \A i \in 1 .. Len(t) : (s \o t)[i + Len(s)] = t[i]
  BY ConcatIs
<1>2. DOMAIN s = 1 .. Len(s) /\ DOMAIN t = 1 .. Len(t)
  OBVIOUS
<1>3. ASSUME NEW i \in DOMAIN (s \o t) PROVE (s \o t)[i] \in Range(s) \cup Range(t)
  <2>1. CASE i <= Len(s)
    BY <1>1, <1>2, <2>1 DEF Range
  <2>2. CASE ~(i <= Len(s))
    <3>1. i - Len(s) \in 1 .. Len(t) /\ i = (i - Len(s)) + Len(s)
      BY <1>1, <2>2
    <3>2. (s \o t)[i] = t[i - Len(s)]
      BY <1>1, <3>1
    <3> QED BY <1>2, <3>1, <3>2 DEF Range
  <2> QED BY <2>1, <2>2
<1>4. ASSUME NEW i \in DOMAIN s PROVE s[i] \in Range(s \o t)
  <2>1. i \in DOMAIN (s \o t) /\ (s \o t)[i] = s[i]
    BY <1>1, <1>2
  <2> QED BY <2>1, Zenon DEF Range
<1>5. ASSUME NEW i \in DOMAIN t PROVE t[i] \in Range(s \o t)
  <2>1. i + Len(s) \in DOMAIN (s \o t) /\ (s \o t)[i + Len(s)] = t[i]
    BY <1>1, <1>2
  <2> QED BY <2>1, Zenon DEF Range
<1>6. Range(s \o t) \subseteq Range(s) \cup Range(t)
  BY <1>3, Zenon DEF Range
<1>7. Range(s) \subseteq Range(s \o t) /\ Range(t) \subseteq Range(s \o t)
  BY <1>4, <1>5, Zenon DEF Range
<1> QED BY <1>1, <1>6, <1>7

LEMMA RangeOfAppend ==
  ASSUME NEW S, NEW s \in Seq(S), NEW v \in S
  PROVE  /\ Append(s, v) \in Seq(S) /\ Range(Append(s, v)) = Range(s) \cup {v}
         /\ Len(s) \in Nat /\ Len(Append(s, v)) = Len(s) + 1 /\ DOMAIN Append(s, v) = 1 .. Len(s) + 1
         /\ Append(s, v)[Len(s) + 1] = v
         /\ \A i \in 1 .. Len(s) : Append(s, v)[i] = s[i]
<1>1. /\ Append(s, v) \in Seq(S)
      /\ Len(s) \in Nat /\ Len(Append(s, v)) = Len(s) + 1 /\ DOMAIN Append(s, v) = 1 .. Len(s) + 1
      /\ Append(s, v)[Len(s) + 1] = v
      /\ \A i \in 1 .. Len(s) : Append(s, v)[i] = s[i]
      /\ DOMAIN s = 1 .. Len(s)
  OBVIOUS
<1>2. ASSUME NEW i \in DOMAIN Append(s, v) PROVE Append(s, v)[i] \in Range(s) \cup {v}
  BY <1>1 DEF Range
<1>3. ASSUME NEW i \in DOMAIN s PROVE s[i] \in Range(Append(s, v))
  <2>1. i \in DOMAIN Append(s, v) /\ Append(s, v)[i] = s[i]
    BY <1>1
  <2> QED BY <2>1, Zenon DEF Range
<1>4. v \in Range(Append(s, v))
  <2>1. Len(s) + 1 \in DOMAIN Append(s, v)
    BY <1>1
  <2> QED BY <1>1, <2>1, Zenon DEF Range
<1>5. Range(Append(s, v)) \subseteq Range(s) \cup {v} /\ Range(s) \subseteq Range(Append(s, v))
  BY <1>2, <1>3, Zenon DEF Range
<1> QED BY <1>1, <1>4, <1>5

LEMMA RangeOfFew ==
  ASSUME NEW S
  PROVE  /\ <<>> \in Seq(S) /\ Range(<<>>) = {}
         /\ \A v \in S : <<v>> \in Seq(S) /\ Range(<<v>>) = {v}
         /\ \A v, w \in S : <<v, w>> \in Seq(S) /\ Range(<<v, w>>) = {v, w}
BY DEF Range

(* A sequence, whatever it is of. *)
LEMMA SequencesAre ==
  /\ \A S : \A s \in Seq(S) : IsSequence(s)
  /\ \A s : IsSequence(s) => s \in Seq(Range(s)) /\ Len(s) \in Nat /\ DOMAIN s = 1 .. Len(s)
  /\ \A s, t : IsSequence(s) /\ IsSequence(t) => IsSequence(s \o t) /\ Range(s \o t) = Range(s) \cup Range(t)
<1>1. ASSUME NEW S, NEW s \in Seq(S) PROVE IsSequence(s)
  BY DEF IsSequence
<1>2. ASSUME NEW s, IsSequence(s) PROVE s \in Seq(Range(s)) /\ Len(s) \in Nat /\ DOMAIN s = 1 .. Len(s)
  BY <1>2 DEF IsSequence, Range
<1>3. ASSUME NEW s, NEW t, IsSequence(s), IsSequence(t)
      PROVE  IsSequence(s \o t) /\ Range(s \o t) = Range(s) \cup Range(t)
  <2> DEFINE S == Range(s)
             T == Range(t)
  <2>1. s \in Seq(S) /\ t \in Seq(T)
    BY <1>2, <1>3
  <2> HIDE DEF S, T
  <2>2. s \o t \in Seq(S \cup T) /\ Range(s \o t) = Range(s) \cup Range(t)
    BY <2>1, RangeOfConcat
  <2>3. IsSequence(s \o t)
    BY <1>1, <2>2, Zenon
  <2> QED BY <2>2, <2>3
<1> QED BY <1>1, <1>2, <1>3

LEMMA FewAre ==
  /\ IsSequence(<<>>) /\ Range(<<>>) = {} /\ Len(<<>>) = 0
  /\ \A v : IsSequence(<<v>>) /\ Range(<<v>>) = {v}
<1>1. ASSUME NEW v PROVE IsSequence(<<v>>) /\ Range(<<v>>) = {v}
  <2>1. v \in {v}
    OBVIOUS
  <2>2. <<v>> \in Seq({v}) /\ Range(<<v>>) = {v}
    BY <2>1, RangeOfFew
  <2> QED BY <2>2, SequencesAre, Zenon
<1>2. <<>> \in Seq({}) /\ Range(<<>>) = {}
  BY RangeOfFew
<1>3. IsSequence(<<>>)
  BY <1>2, SequencesAre, Zenon
<1> QED BY <1>1, <1>2, <1>3

-----------------------------------------------------------------------------
(* Where the objects are *)

LEMMA PerhapsOne ==
  ASSUME NEW v, NEW q \in BOOLEAN, NEW s, s = IF q THEN <<v>> ELSE <<>>
  PROVE  IsSequence(s) /\ Range(s) = {o \in {v} : q}
<1>1. CASE q
  <2>1. s = <<v>> /\ {o \in {v} : q} = {v}
    BY <1>1
  <2> QED BY <2>1, FewAre, Zenon
<1>2. CASE ~q
  <2>1. s = <<>> /\ {o \in {v} : q} = {}
    BY <1>2
  <2> QED BY <2>1, FewAre, Zenon
<1> QED BY <1>1, <1>2

(* All that Setup creates, if it creates anything. *)
LEMMA ObjectsAre ==
  /\ SetupRefuses(pipeline) => Objects = {}
  /\ ~SetupRefuses(pipeline) =>
       Objects = {o \in {ToNamespace(pipeline)} : SpecNamespaces(pipeline).own # ""}
                   \cup {o \in {ToDockerConfigSecret(pipeline)} : HasPullSecret(pipeline)}
                   \cup {ToSecret(pipeline), ToPod(pipeline)}
<1> DEFINE own == SpecNamespaces(pipeline).own # ""
           pull == HasPullSecret(pipeline)
           A == IF own THEN <<ToNamespace(pipeline)>> ELSE <<>>
           B == IF pull THEN <<ToDockerConfigSecret(pipeline)>> ELSE <<>>
           C == <<ToSecret(pipeline), ToPod(pipeline)>>
           D == A \o B
<1>1. Objects = Range(SetupObjects(pipeline))
  BY DEF Objects, Range
<1>2. CASE SetupRefuses(pipeline)
  <2>1. SetupObjects(pipeline) = <<>>
    BY <1>2 DEF SetupObjects
  <2> QED BY <1>1, <1>2, <2>1, FewAre
<1>3. CASE ~SetupRefuses(pipeline)
  <2>1. SetupObjects(pipeline) = D \o C
    BY <1>3 DEF SetupObjects
  <2>2. own \in BOOLEAN /\ pull \in BOOLEAN
    BY DEF HasPullSecret
  <2>3. C \in Seq({ToSecret(pipeline), ToPod(pipeline)}) /\ Range(C) = {ToSecret(pipeline), ToPod(pipeline)}
    BY RangeOfFew
  <2> HIDE DEF own, pull, C
  <2>4. IsSequence(A) /\ Range(A) = {o \in {ToNamespace(pipeline)} : own}
    BY <2>2, PerhapsOne
  <2>5. IsSequence(B) /\ Range(B) = {o \in {ToDockerConfigSecret(pipeline)} : pull}
    BY <2>2, PerhapsOne
  <2> HIDE DEF A, B
  <2>6. IsSequence(C)
    BY <2>3, SequencesAre, Zenon
  <2>7. IsSequence(D) /\ Range(D) = Range(A) \cup Range(B)
    BY <2>4, <2>5, SequencesAre, Zenon
  <2> HIDE DEF D
  <2>8. Range(D \o C) = Range(D) \cup Range(C)
    BY <2>6, <2>7, SequencesAre, Zenon
  <2>9. Range(D \o C) = {o \in {ToNamespace(pipeline)} : own} \cup {o \in {ToDockerConfigSecret(pipeline)} : pull}
                          \cup {ToSecret(pipeline), ToPod(pipeline)}
    BY <2>3, <2>4, <2>5, <2>7, <2>8, Zenon
  <2> QED BY <1>1, <1>3, <2>1, <2>9 DEF own, pull
<1> QED BY <1>2, <1>3

(* Whatever YAML, policies and configuration say, the namespace that Setup *)
(* creates and cleanup deletes is one drawn for this task, and with        *)
(* recovery no object of a task is in the management namespace (Compile,   *)
(* Apply, Setup).                                                          *)
THEOREM NamespaceIsTheTasks ==
  Spec => []NamespaceIsOwn
<1>1. NamespaceIsOwn
  <2> DEFINE p == pipeline
             ns == SpecNamespaces(pipeline)
  <2>1. ns.own \in {"", "drone-1", "drone-2"}
    BY DEF SpecNamespaces, CompiledNamespaces, ApplyNamespace
  <2>2. ASSUME NEW o \in Objects
        PROVE  /\ ~SetupRefuses(p)
               /\ \/ o = ToNamespace(p) /\ ns.own # ""
                  \/ o = ToDockerConfigSecret(p) \/ o = ToSecret(p) \/ o = ToPod(p)
    <3>1. ~SetupRefuses(p)
      BY ObjectsAre, Zenon
    <3>2. \/ o \in {n \in {ToNamespace(p)} : ns.own # ""} \/ o \in {n \in {ToDockerConfigSecret(p)} : HasPullSecret(p)}
          \/ o \in {ToSecret(p), ToPod(p)}
      BY <3>1, ObjectsAre, Zenon
    <3> QED BY <3>1, <3>2, Zenon
  <2>3. /\ ToNamespace(p).kind = "namespaces" /\ ToNamespace(p).name = ns.own /\ ToNamespace(p).namespace = ""
    BY DEF ToNamespace
  <2>4. ToDockerConfigSecret(p).kind = "secrets" /\ ToDockerConfigSecret(p).namespace = ns.pod
    BY DEF ToDockerConfigSecret
  <2>5. ToSecret(p).kind = "secrets" /\ ToSecret(p).namespace = ns.pod
    BY DEF ToSecret
  <2>6. ToPod(p).kind = "pods" /\ ToPod(p).namespace = ns.pod
    BY DEF ToPod
  <2> HIDE DEF p, ns
  <2>7. ASSUME NEW o \in Objects, p.setting.recovery PROVE o.namespace # "management"
    <3>1. ns.pod # "management"
      BY <2>2, <2>7 DEF SetupRefuses, p, ns
    <3> QED BY <2>2, <2>3, <2>4, <2>5, <2>6, <2>7, <3>1
  <2>8. ASSUME NEW o \in Objects, o.kind = "namespaces" PROVE o.name \in {"drone-1", "drone-2"}
    BY <2>1, <2>2, <2>3, <2>4, <2>5, <2>6, <2>8
  <2> QED BY <2>7, <2>8 DEF NamespaceIsOwn, p
<1> QED BY <1>1, PTL

-----------------------------------------------------------------------------
(* Memory *)

LEMMA TotalIs ==
  ASSUME NEW f \in Seq(Int)
  PROVE  \E g \in [0 .. Len(f) -> Int] :
           g[0] = 0 /\ (\A i \in 1 .. Len(f) : g[i] = g[i - 1] + f[i]) /\ Total(f) = g[Len(f)]
<1> DEFINE step == [x \in Int \X (1 .. Len(f)) |-> x[1] + f[x[2]]]
           next(g) == [k \in 0 .. Len(f) |-> IF k = 0 THEN 0 ELSE g[k - 1] + f[k]]
           h == CHOOSE g : g = next(g)
<1>0. Len(f) \in Nat /\ 0 \in Int /\ step \in [Int \X (1 .. Len(f)) -> Int]
  OBVIOUS
<1>1. \E g : g = next(g)
  <2>1. \E g \in [0 .. Len(f) -> Int] : g[0] = 0 /\ \A i \in 1 .. Len(f) : g[i] = step[<<g[i - 1], i>>]
    <3>1. \E g : Loop(Int, Len(f), 0, step, g)
      <4> HIDE DEF step
      <4> QED BY <1>0, LoopIs
    <3> HIDE DEF step
    <3> QED BY <3>1 DEF Loop
  <2>2. PICK g \in [0 .. Len(f) -> Int] : g[0] = 0 /\ \A i \in 1 .. Len(f) : g[i] = step[<<g[i - 1], i>>]
    BY <2>1, Zenon
  <2>3. ASSUME NEW i \in 1 .. Len(f) PROVE g[i] = g[i - 1] + f[i]
    <3>1. i - 1 \in 0 .. Len(f)
      BY <1>0
    <3>2. g[i - 1] \in Int
      BY <3>1
    <3>3. <<g[i - 1], i>> \in Int \X (1 .. Len(f))
      BY <3>2
    <3> QED BY <2>2, <3>3
  <2>4. g = next(g)
    BY <1>0, <2>2, <2>3
  <2> QED BY <2>4
<1>2. h = next(h)
  <2> HIDE DEF next
  <2> QED BY <1>1
<1>3. Total(f) = h[Len(f)]
  BY DEF Total
<1> HIDE DEF h
<1>4. DOMAIN h = 0 .. Len(f) /\ h[0] = 0 /\ \A i \in 1 .. Len(f) : h[i] = h[i - 1] + f[i]
  <2>1. DOMAIN h = 0 .. Len(f) /\ \A i \in 0 .. Len(f) : h[i] = IF i = 0 THEN 0 ELSE h[i - 1] + f[i]
    <3>1. DOMAIN next(h) = 0 .. Len(f) /\ \A i \in 0 .. Len(f) : next(h)[i] = IF i = 0 THEN 0 ELSE h[i - 1] + f[i]
      OBVIOUS
    <3> HIDE DEF next
    <3> QED BY <1>2, <3>1
  <2> QED BY <1>0, <2>1
<1>5. \A i \in 0 .. Len(f) : h[i] \in Int
  <2> DEFINE S == {j \in 0 .. Len(f) : h[j] \in Int}
  <2>1. ASSUME NEW k \in 1 .. Len(f), k - 1 \in S PROVE k \in S
    <3>1. k \in 0 .. Len(f) /\ f[k] \in Int
      BY <1>0
    <3> QED BY <1>4, <2>1, <3>1
  <2>2. 0 \in S
    BY <1>0, <1>4
  <2>3. \A i \in 0 .. Len(f) : i \in S
    <3> HIDE DEF S
    <3> QED BY <1>0, <2>1, <2>2, Induction
  <2> QED BY <2>3
<1>6. h \in [0 .. Len(f) -> Int]
  <2>1. h = [i \in 0 .. Len(f) |-> h[i]]
    BY <1>2
  <2> QED BY <1>5, <2>1
<1> QED BY <1>3, <1>4, <1>6

LEMMA FirstIs ==
  ASSUME NEW T, T \subseteq Nat, T # {}
  PROVE  \E x \in T : \A y \in T : x <= y
<1>1. PICK x \in T : \A y \in T : ~(y < x)
  BY LeastIs
<1>2. \A y \in T : x <= y
  BY <1>1
<1> QED BY <1>2

LEMMA FirstNonZeroIs ==
  ASSUME NEW values \in Seq(Int)
  PROVE  /\ FirstNonZero(values) \in Nat
         /\ FirstNonZero(values) > 0 <=> \E i \in DOMAIN values : values[i] > 0
<1> DEFINE T == {i \in DOMAIN values : values[i] > 0}
<1>1. CASE T = {}
  BY <1>1 DEF FirstNonZero
<1>2. CASE T # {}
  <2>1. T \subseteq Nat
    OBVIOUS
  <2>2. PICK x \in T : \A y \in T : x <= y
    <3> HIDE DEF T
    <3> QED BY <1>2, <2>1, FirstIs
  <2>3. ASSUME NEW j \in 1 .. x - 1 PROVE values[j] <= 0
    <3>1. j \in DOMAIN values /\ ~(x <= j)
      BY <2>2
    <3> QED BY <2>2, <3>1
  <2>4. \E i \in DOMAIN values : values[i] > 0 /\ \A j \in 1 .. i - 1 : values[j] <= 0
    BY <2>2, <2>3
  <2> DEFINE c == CHOOSE i \in DOMAIN values : values[i] > 0 /\ \A j \in 1 .. i - 1 : values[j] <= 0
  <2>5. c \in DOMAIN values /\ values[c] > 0
    BY <2>4
  <2>6. FirstNonZero(values) = values[c]
    BY <2>4 DEF FirstNonZero
  <2> HIDE DEF c
  <2> QED BY <2>5, <2>6
<1> QED BY <1>1, <1>2

LEMMA AppliedIs ==
  ASSUME NEW p \in Pipelines
  PROVE  Applied(p).request \in Int /\ Applied(p).limit \in Int
<1> DEFINE rules == p.setting.policies
<1>1. rules \in Seq({rules[i] : i \in DOMAIN rules})
  BY PipelinesAssumption DEF IsSequence
<1>2. ASSUME NEW i \in DOMAIN rules PROVE rules[i].request \in Int /\ rules[i].limit \in Int
  BY PipelinesAssumption DEF Range
<1> HIDE DEF rules
<1>3. DOMAIN rules \subseteq Nat
  BY <1>1
<1>4. ASSUME NEW chosen, chosen \subseteq DOMAIN rules, chosen # {}
      PROVE  FirstOf(rules, chosen).request \in Int /\ FirstOf(rules, chosen).limit \in Int
  <2>1. \E i \in chosen : \A j \in chosen : i <= j
    BY <1>3, <1>4, FirstIs
  <2>2. (CHOOSE i \in chosen : \A j \in chosen : i <= j) \in chosen
    BY <2>1
  <2> QED BY <1>2, <1>4, <2>2 DEF FirstOf
<1> DEFINE matching == {i \in DOMAIN rules : rules[i].matches}
           fallback == {i \in DOMAIN rules : rules[i].name = "default"}
<1>5. matching \subseteq DOMAIN rules /\ fallback \subseteq DOMAIN rules
  OBVIOUS
<1>6. Applied(p) = CASE matching # {}                    -> FirstOf(rules, matching)
                     [] matching = {} /\ fallback # {} -> FirstOf(rules, fallback)
                     [] OTHER                            -> NoPolicy
  BY DEF Applied, Match, rules
<1> HIDE DEF matching, fallback
<1>7. CASE matching # {}
  BY <1>4, <1>5, <1>6, <1>7
<1>8. CASE matching = {} /\ fallback # {}
  BY <1>4, <1>5, <1>6, <1>8
<1>9. CASE matching = {} /\ fallback = {}
  <2>1. Applied(p) = NoPolicy
    BY <1>6, <1>9
  <2>2. NoPolicy.request = 0 /\ NoPolicy.limit = 0
    BY DEF NoPolicy
  <2>3. 0 \in Int
    OBVIOUS
  <2> QED BY <2>1, <2>2, <2>3
<1> QED BY <1>7, <1>8, <1>9

LEMMA StageIs ==
  ASSUME NEW p \in Pipelines
  PROVE  /\ StageRequest(p) \in Nat /\ StageLimit(p) \in Nat
         /\ StageLimit(p) > 0 <=> Applied(p).limit > 0 \/ p.setting.limit > 0
<1>1. /\ p.request \in Int /\ p.setting.request \in Int /\ p.setting.limit \in Int
      /\ Applied(p).request \in Int /\ Applied(p).limit \in Int
  BY AppliedIs, PipelinesAssumption
<1> DEFINE requests == <<Applied(p).request, p.request, p.setting.request>>
           limits   == <<Applied(p).limit, p.setting.limit>>
<1>2. requests \in Seq(Int) /\ limits \in Seq(Int)
  BY <1>1
<1>3. (\E i \in DOMAIN limits : limits[i] > 0) <=> Applied(p).limit > 0 \/ p.setting.limit > 0
  <2>1. DOMAIN limits = {1, 2} /\ limits[1] = Applied(p).limit /\ limits[2] = p.setting.limit
    OBVIOUS
  <2> HIDE DEF limits
  <2> QED BY <2>1
<1>4. StageRequest(p) = FirstNonZero(requests) /\ StageLimit(p) = FirstNonZero(limits)
  BY DEF StageRequest, StageLimit
<1> HIDE DEF requests, limits
<1> QED BY <1>2, <1>3, <1>4, FirstNonZeroIs

(* The parts, the amount by which k parts exceed their common value, and   *)
(* the remainder that is spread.                                           *)
Common(amount, count, units) == (amount \div (count * units)) * units
Rest(amount, count, units)   == amount % (count * units)

LEMMA DivisionIs ==
  ASSUME NEW amount \in Nat, NEW count \in Nat \ {0}, NEW units \in Nat \ {0}
  PROVE  /\ Common(amount, count, units) \in Nat
         /\ Rest(amount, count, units) \in Nat /\ Rest(amount, count, units) < count * units
         /\ amount = count * Common(amount, count, units) + Rest(amount, count, units)
         /\ count * units \in Nat
<1> DEFINE whole == count * units
           div == amount \div whole
           rem == amount % whole
<1>1. whole \in Nat /\ whole > 0
  OBVIOUS
<1>2. div \in Int /\ rem \in Int /\ 0 <= rem /\ rem < whole /\ amount = whole * div + rem
  <2> HIDE DEF whole
  <2> QED BY <1>1
<1>3. div \in Nat
  <2>1. ASSUME div < 0 PROVE FALSE
    <3>1. whole * div <= -whole
      <4> HIDE DEF whole, div
      <4> QED BY <1>1, <1>2, <2>1
    <3> HIDE DEF whole, div, rem
    <3> QED BY <1>1, <1>2, <3>1
  <2> HIDE DEF div
  <2> QED BY <1>2, <2>1
<1>4. whole * div = count * (div * units)
  <2> HIDE DEF div
  <2> QED BY <1>3
<1>5. div * units \in Nat
  <2> HIDE DEF div
  <2> QED BY <1>3
<1>6. Common(amount, count, units) = div * units /\ Rest(amount, count, units) = rem
  BY DEF Common, Rest
<1> HIDE DEF div, rem
<1> QED BY <1>1, <1>2, <1>4, <1>5, <1>6

LEMMA PartsAre ==
  ASSUME NEW amount \in Nat, NEW count \in Nat \ {0}, NEW units \in Nat \ {0}, NEW i \in 1 .. count
  PROVE  LET part == DivideIntEqually(amount, count, units)[i]
             common == Common(amount, count, units)
         IN  /\ part \in Nat
             /\ (i - 1) * units < Rest(amount, count, units) => part = common + units
             /\ ~((i - 1) * units < Rest(amount, count, units)) => part = common
<1> DEFINE common == Common(amount, count, units)
           rest == Rest(amount, count, units)
<1>1. DivideIntEqually(amount, count, units)[i] = common + (IF (i - 1) * units < rest THEN units ELSE 0)
  BY DEF DivideIntEqually, Common, Rest
<1>2. common \in Nat
  BY DivisionIs
<1> HIDE DEF common, rest
<1>3. CASE (i - 1) * units < rest
  BY <1>1, <1>2, <1>3 DEF common, rest
<1>4. CASE ~((i - 1) * units < rest)
  BY <1>1, <1>2, <1>4 DEF common, rest
<1> QED BY <1>3, <1>4

(* Shares that are at least the parts add up to the amount, and shares     *)
(* that are not more than them to less than a unit above it.               *)
LEMMA SharesAddUp ==
  ASSUME NEW amount \in Nat, NEW count \in Nat \ {0}, NEW units \in Nat \ {0},
         NEW shares \in Seq(Int), Len(shares) = count
  PROVE  LET parts == DivideIntEqually(amount, count, units)
         IN  /\ (\A i \in 1 .. count : shares[i] >= parts[i]) => Total(shares) >= amount
             /\ (\A i \in 1 .. count : shares[i] <= parts[i]) => Total(shares) < amount + units
<1> DEFINE parts == DivideIntEqually(amount, count, units)
           common == Common(amount, count, units)
           rest == Rest(amount, count, units)
<1>1. /\ common \in Nat /\ rest \in Nat /\ rest < count * units /\ amount = count * common + rest
      /\ count * units \in Nat
  BY DivisionIs
<1>2. PICK g \in [0 .. count -> Int] :
        g[0] = 0 /\ (\A i \in 1 .. count : g[i] = g[i - 1] + shares[i]) /\ Total(shares) = g[count]
  BY TotalIs
<1>3. ASSUME NEW i \in 1 .. count
      PROVE  /\ parts[i] \in Nat
             /\ (i - 1) * units < rest => parts[i] = common + units
             /\ ~((i - 1) * units < rest) => parts[i] = common
  BY PartsAre
<1> HIDE DEF parts, common, rest
<1>4. ASSUME NEW k \in 1 .. count
      PROVE  /\ (k - 1) * common + common = k * common /\ (k - 1) * units + units = k * units
             /\ (k - 1) * common \in Int /\ (k - 1) * units \in Int /\ k * common \in Int /\ k * units \in Int
             /\ k - 1 \in 0 .. count /\ k \in 0 .. count /\ g[k - 1] \in Int /\ g[k] \in Int /\ shares[k] \in Int
  <2>1. k - 1 \in 0 .. count /\ k \in 0 .. count /\ k \in DOMAIN shares
    OBVIOUS
  <2>2. g[k - 1] \in Int /\ g[k] \in Int /\ shares[k] \in Int
    BY <2>1
  <2>3. (k - 1) * common + common = k * common /\ (k - 1) * common \in Int /\ k * common \in Int
    BY <1>1
  <2>4. (k - 1) * units + units = k * units /\ (k - 1) * units \in Int /\ k * units \in Int
    OBVIOUS
  <2> QED BY <2>1, <2>2, <2>3, <2>4
<1>5. 0 * common = 0 /\ 0 * units = 0 /\ 0 \in 0 .. count /\ count \in 0 .. count /\ count \in Nat
  BY <1>1
<1>6. ASSUME \A i \in 1 .. count : shares[i] >= parts[i] PROVE g[count] >= amount
  <2> DEFINE S == {k \in 0 .. count : g[k] - k * common >= k * units \/ g[k] - k * common >= rest}
  <2>1. 0 \in S
    BY <1>2, <1>5
  <2>2. ASSUME NEW k \in 1 .. count, k - 1 \in S PROVE k \in S
    <3>1. \/ g[k - 1] - (k - 1) * common >= (k - 1) * units
          \/ g[k - 1] - (k - 1) * common >= rest
      BY <2>2
    <3> DEFINE a == (k - 1) * common
               b == (k - 1) * units
               c == k * common
               d == k * units
               x == g[k - 1]
               y == g[k]
               share == shares[k]
               part == parts[k]
    <3>2. a + common = c /\ b + units = d /\ a \in Int /\ b \in Int /\ c \in Int /\ d \in Int
      BY <1>4
    <3>3. y = x + share /\ share >= part /\ part \in Nat
          /\ (b < rest => part = common + units) /\ (~(b < rest) => part = common)
      BY <1>2, <1>3, <1>6
    <3>4. x - a >= b \/ x - a >= rest
      BY <3>1
    <3>5. x \in Int /\ y \in Int /\ share \in Int /\ rest \in Nat /\ common \in Nat
      BY <1>1, <1>4
    <3> HIDE DEF a, b, c, d, x, y, share, part
    <3>6. y - c >= d \/ y - c >= rest
      BY <3>2, <3>3, <3>4, <3>5
    <3> QED BY <1>4, <3>6 DEF c, d, y
  <2>3. \A k \in 0 .. count : k \in S
    <3> HIDE DEF S
    <3> QED BY <1>5, <2>1, <2>2, Induction
  <2>4. g[count] - count * common >= count * units \/ g[count] - count * common >= rest
    BY <1>5, <2>3
  <2>5. g[count] \in Int /\ count * common \in Int
    BY <1>1, <1>5
  <2> QED BY <1>1, <2>4, <2>5
<1>7. ASSUME \A i \in 1 .. count : shares[i] <= parts[i] PROVE g[count] < amount + units
  <2> DEFINE S == {k \in 0 .. count : g[k] - k * common <= k * units /\ g[k] - k * common < rest + units}
  <2>1. 0 \in S
    BY <1>1, <1>2, <1>5
  <2>2. ASSUME NEW k \in 1 .. count, k - 1 \in S PROVE k \in S
    <3>1. /\ g[k - 1] - (k - 1) * common <= (k - 1) * units
          /\ g[k - 1] - (k - 1) * common < rest + units
      BY <2>2
    <3> DEFINE a == (k - 1) * common
               b == (k - 1) * units
               c == k * common
               d == k * units
               x == g[k - 1]
               y == g[k]
               share == shares[k]
               part == parts[k]
    <3>2. a + common = c /\ b + units = d /\ a \in Int /\ b \in Int /\ c \in Int /\ d \in Int
      BY <1>4
    <3>3. y = x + share /\ share <= part /\ part \in Nat
          /\ (b < rest => part = common + units) /\ (~(b < rest) => part = common)
      BY <1>2, <1>3, <1>7
    <3>4. x - a <= b /\ x - a < rest + units
      BY <3>1
    <3>5. x \in Int /\ y \in Int /\ share \in Int /\ rest \in Nat /\ common \in Nat
      BY <1>1, <1>4
    <3> HIDE DEF a, b, c, d, x, y, share, part
    <3>6. y - c <= d /\ y - c < rest + units
      BY <3>2, <3>3, <3>4, <3>5
    <3> QED BY <1>4, <3>6 DEF c, d, y
  <2>3. \A k \in 0 .. count : k \in S
    <3> HIDE DEF S
    <3> QED BY <1>5, <2>1, <2>2, Induction
  <2>4. g[count] - count * common < rest + units
    BY <1>5, <2>3
  <2>5. g[count] \in Int /\ count * common \in Int
    BY <1>1, <1>5
  <2> QED BY <1>1, <2>4, <2>5
<1> QED BY <1>2, <1>6, <1>7 DEF parts

LEMMA DistributionIs ==
  ASSUME CompiledStage
  PROVE  LET c == CreateSteps(pipeline)
         IN  /\ Len(c) \in Nat /\ DOMAIN spec = 1 .. Len(c) /\ (spec # <<>> => Len(c) # 0)
             /\ \A i \in DOMAIN spec :
                  /\ c[i].limit \in Int
                  /\ spec[i].limit = StepLimit(c[i].limit, StageLimit(pipeline))
                  /\ spec[i].request =
                       StepRequest(DivideIntEqually(StageRequest(pipeline), Len(c), Chunk)[i],
                                   pipeline.setting.least, spec[i].limit)
<1> DEFINE c == CreateSteps(pipeline)
           d == ConfigureDeps(pipeline, c)
<1>1. /\ pipeline \in Pipelines /\ pipeline.clone \in BOOLEAN /\ spec = Distribute(pipeline, d)
  BY PipelinesAssumption DEF CompiledStage, Compile
<1>2. /\ Len(c) \in Nat /\ DOMAIN c = 1 .. Len(c) /\ \E S : c \in Seq(S)
  BY <1>1, CreatedAre DEF Offset
<1>3. ASSUME NEW i \in DOMAIN c
      PROVE  c[i].limit \in Int /\ {"name", "deps", "limit"} \subseteq DOMAIN c[i]
  <2>1. CASE c[i] = CloneStep
    BY <2>1 DEF CloneStep
  <2>2. ASSUME NEW h \in 1 .. Len(SourceSteps(pipeline)), c[i].limit = SourceSteps(pipeline)[h].limit
        PROVE  c[i].limit \in Int
    <3>1. h \in DOMAIN SourceSteps(pipeline)
      BY <1>1, CreatedAre
    <3> QED BY <1>1, <2>2, <3>1, PipelinesAssumption DEF Range
  <2>3. \/ c[i] = CloneStep
        \/ \E h \in 1 .. Len(SourceSteps(pipeline)) :
             c[i].limit = SourceSteps(pipeline)[h].limit /\ {"name", "deps", "limit"} \subseteq DOMAIN c[i]
    BY <1>1, Shifted
  <2> QED BY <2>1, <2>2, <2>3
<1> HIDE DEF c
<1>4. DOMAIN d = DOMAIN c /\ \A i \in DOMAIN c : d[i].limit = c[i].limit
  BY <1>1, <1>3, ConfiguredAre
<1>5. d = [i \in DOMAIN c |-> d[i]]
  <2>1. c = [i \in DOMAIN c |-> c[i]]
    BY <1>2
  <2>2. CASE ~IsGraph(c)
    <3>1. d = ConfigureSerial(c)
      BY <2>2 DEF ConfigureDeps
    <3> HIDE DEF d
    <3> QED BY <3>1 DEF ConfigureSerial
  <2>3. CASE IsGraph(c) /\ pipeline.clone
    <3>1. d = ConfigureCloneDeps(c)
      BY <2>3 DEF ConfigureDeps
    <3> HIDE DEF d
    <3> QED BY <3>1 DEF ConfigureCloneDeps
  <2>4. CASE IsGraph(c) /\ ~pipeline.clone
    <3>1. d = RemoveCloneDeps(c)
      BY <2>4 DEF ConfigureDeps
    <3> HIDE DEF d
    <3> QED BY <2>1, <3>1 DEF RemoveCloneDeps
  <2> QED BY <2>2, <2>3, <2>4
<1> HIDE DEF d
<1>6. Len(d) = Len(c)
  <2>1. d \in [1 .. Len(c) -> {d[i] : i \in 1 .. Len(c)}]
    BY <1>2, <1>5
  <2> QED BY <1>2, <2>1, FunctionIs
<1>7. spec = [i \in DOMAIN d |->
               [name |-> d[i].name, deps |-> d[i].deps, policy |-> d[i].policy,
                failure |-> d[i].failure, detach |-> d[i].detach,
                limit |-> StepLimit(d[i].limit, StageLimit(pipeline)),
                request |-> StepRequest(DivideIntEqually(StageRequest(pipeline), Len(d), Chunk)[i],
                                        pipeline.setting.least, StepLimit(d[i].limit, StageLimit(pipeline)))]]
  BY <1>1 DEF Distribute
<1>8. DOMAIN spec = 1 .. Len(c)
  BY <1>2, <1>4, <1>7
<1>9. ASSUME NEW i \in DOMAIN spec
      PROVE  /\ c[i].limit \in Int
             /\ spec[i].limit = StepLimit(c[i].limit, StageLimit(pipeline))
             /\ spec[i].request =
                  StepRequest(DivideIntEqually(StageRequest(pipeline), Len(c), Chunk)[i],
                              pipeline.setting.least, spec[i].limit)
  BY <1>2, <1>3, <1>4, <1>6, <1>7, <1>8
<1>10. ASSUME spec # <<>> PROVE Len(c) # 0
  <2>1. ASSUME Len(c) = 0 PROVE FALSE
    <3>1. DOMAIN spec = {}
      BY <1>8, <2>1
    <3> QED BY <1>7, <1>10, <3>1
  <2> QED BY <2>1
<1> QED BY <1>2, <1>8, <1>9, <1>10 DEF c

LEMMA LimitIs ==
  ASSUME NEW own \in Int, NEW stage \in Nat
  PROVE  LET limit == StepLimit(own, stage)
         IN  /\ limit \in Nat
             /\ own > 0 => limit <= own
             /\ stage > 0 => limit <= stage
             /\ limit = 0 <=> ~(own > 0) /\ ~(stage > 0)
BY DEF StepLimit, Lesser, Greater

LEMMA RequestIs ==
  ASSUME NEW part \in Nat, NEW least \in Int, NEW limit \in Nat
  PROVE  LET request == StepRequest(part, least, limit)
         IN  /\ request \in Int
             /\ limit > 0 => request <= limit
             /\ limit = 0 => request = (IF part > least THEN part ELSE least)
BY DEF StepRequest, Lesser, Greater

(* The memory of the steps adds up to what the stage requests, less than a *)
(* chunk more, evenly, and keeps within the limits, for any number of      *)
(* steps and any values of pipeline, policies and environment              *)
(* (divideIntEqually, Compile).                                            *)
THEOREM RequestsAddUpAlways ==
  Spec => []RequestsAddUp
<1>1. ASSUME ExecutionInv PROVE RequestsAddUp
  <2> SUFFICES ASSUME phase = "compiled" PROVE RequestsAddUp
    BY DEF RequestsAddUp
  <2>1. CompiledStage
    BY <1>1 DEF ExecutionInv, AdmissionInv, CompiledStage
  <2> DEFINE p == pipeline
             c == CreateSteps(p)
             n == Len(c)
             stage == StageLimit(p)
             total == StageRequest(p)
             least == p.setting.least
             parts == DivideIntEqually(total, n, Chunk)
             requests == [i \in DOMAIN spec |-> spec[i].request]
             own == [i \in DOMAIN spec |-> c[i].limit]
             limits(i) == {l \in {own[i], Applied(p).limit, p.setting.limit} : l > 0}
  <2>2. p \in Pipelines
    BY <2>1 DEF CompiledStage
  <2>3. /\ total \in Nat /\ stage \in Nat /\ least \in Int
        /\ stage > 0 <=> Applied(p).limit > 0 \/ p.setting.limit > 0
    BY <2>2, StageIs, PipelinesAssumption
  <2>4. /\ n \in Nat /\ DOMAIN spec = 1 .. n /\ (spec # <<>> => n # 0)
        /\ \A i \in DOMAIN spec :
             /\ c[i].limit \in Int /\ spec[i].limit = StepLimit(c[i].limit, stage)
             /\ spec[i].request = StepRequest(parts[i], least, spec[i].limit)
    BY <2>1, DistributionIs
  <2>5. Chunk \in Nat \ {0}
    BY ChunkAssumption
  <2> HIDE DEF p, c, n, stage, total, least, parts
  <2>6. ASSUME NEW i \in DOMAIN spec
        PROVE  parts[i] \in Nat /\ c[i].limit \in Int /\ spec[i].limit \in Nat
    <3>1. n \in Nat \ {0} /\ i \in 1 .. n
      BY <2>4
    <3>2. parts[i] \in Nat
      BY <2>3, <2>5, <3>1, PartsAre DEF parts
    <3> QED BY <2>3, <2>4, <3>2, LimitIs
  <2>7. ASSUME NEW i \in DOMAIN spec
        PROVE  /\ spec[i].limit > 0 => requests[i] <= spec[i].limit
               /\ own[i] > 0 => spec[i].limit <= own[i]
               /\ stage > 0 => spec[i].limit <= stage
               /\ (spec[i].limit = 0) <=> (limits(i) = {})
               /\ spec[i].limit = 0 => requests[i] >= least
    <3>1. requests[i] = spec[i].request /\ own[i] = c[i].limit
      OBVIOUS
    <3>2. /\ spec[i].limit > 0 => spec[i].request <= spec[i].limit
          /\ spec[i].limit = 0 => spec[i].request = (IF parts[i] > least THEN parts[i] ELSE least)
      <4>1. parts[i] \in Nat /\ least \in Int /\ spec[i].limit \in Nat
        BY <2>3, <2>6
      <4> DEFINE request == StepRequest(parts[i], least, spec[i].limit)
      <4>2. /\ spec[i].limit > 0 => request <= spec[i].limit
            /\ spec[i].limit = 0 => request = (IF parts[i] > least THEN parts[i] ELSE least)
        BY <4>1, RequestIs
      <4>3. spec[i].request = request
        BY <2>4
      <4> HIDE DEF request
      <4> QED BY <4>2, <4>3
    <3>3. /\ c[i].limit > 0 => spec[i].limit <= c[i].limit
          /\ stage > 0 => spec[i].limit <= stage
          /\ spec[i].limit = 0 <=> ~(c[i].limit > 0) /\ ~(stage > 0)
      <4>1. c[i].limit \in Int /\ stage \in Nat
        BY <2>3, <2>6
      <4> DEFINE limit == StepLimit(c[i].limit, stage)
      <4>2. /\ c[i].limit > 0 => limit <= c[i].limit
            /\ stage > 0 => limit <= stage
            /\ limit = 0 <=> ~(c[i].limit > 0) /\ ~(stage > 0)
        BY <4>1, LimitIs
      <4>3. spec[i].limit = limit
        BY <2>4
      <4> HIDE DEF limit
      <4> QED BY <4>2, <4>3
    <3>4. limits(i) = {} <=> ~(own[i] > 0) /\ ~(Applied(p).limit > 0) /\ ~(p.setting.limit > 0)
      OBVIOUS
    <3>5. spec[i].limit = 0 => spec[i].request >= least
      BY <2>3, <2>6, <3>2
    <3> HIDE DEF limits, requests, own
    <3> QED BY <2>3, <3>1, <3>2, <3>3, <3>4, <3>5
  <2>8. ASSUME spec # <<>>, \A i \in DOMAIN spec : spec[i].limit = 0
        PROVE  /\ Total(requests) >= total
               /\ least <= 0 => Total(requests) < total + Chunk
               /\ \A i, j \in DOMAIN spec : requests[i] - requests[j] <= Chunk
    <3>1. n \in Nat \ {0}
      BY <2>4, <2>8
    <3>2. ASSUME NEW i \in 1 .. n
          PROVE  /\ requests[i] \in Int /\ requests[i] >= parts[i]
                 /\ least <= 0 => requests[i] <= parts[i]
                 /\ requests[i] = IF parts[i] > least THEN parts[i] ELSE least
      <4>1. requests[i] = spec[i].request /\ i \in DOMAIN spec
        BY <2>4
      <4>2. spec[i].request = IF parts[i] > least THEN parts[i] ELSE least
        <5>1. parts[i] \in Nat /\ least \in Int /\ spec[i].limit \in Nat /\ spec[i].limit = 0
          BY <2>3, <2>6, <2>8, <4>1
        <5>2. StepRequest(parts[i], least, spec[i].limit) = IF parts[i] > least THEN parts[i] ELSE least
          BY <5>1, RequestIs
        <5> QED BY <2>4, <4>1, <5>2
      <4> HIDE DEF requests
      <4> QED BY <2>3, <2>6, <4>1, <4>2
    <3>3. requests \in Seq(Int) /\ Len(requests) = n
      <4>1. requests \in [1 .. n -> Int]
        BY <2>4, <3>2
      <4> HIDE DEF requests
      <4> QED BY <3>1, <4>1, FunctionIs
    <3> HIDE DEF requests
    <3>4. /\ (\A i \in 1 .. n : requests[i] >= parts[i]) => Total(requests) >= total
          /\ (\A i \in 1 .. n : requests[i] <= parts[i]) => Total(requests) < total + Chunk
      BY <2>3, <2>5, <3>1, <3>3, SharesAddUp DEF parts
    <3>5. ASSUME NEW i \in DOMAIN spec, NEW j \in DOMAIN spec PROVE requests[i] - requests[j] <= Chunk
      <4> DEFINE common == Common(total, n, Chunk)
      <4>1. common \in Nat
        BY <2>3, <2>5, <3>1, DivisionIs
      <4>2. i \in 1 .. n /\ j \in 1 .. n
        BY <2>4
      <4>3. parts[i] \in {common, common + Chunk} /\ parts[j] \in {common, common + Chunk}
        BY <2>3, <2>5, <3>1, <4>2, PartsAre DEF parts
      <4>4. requests[i] = (IF parts[i] > least THEN parts[i] ELSE least)
            /\ requests[j] = (IF parts[j] > least THEN parts[j] ELSE least)
        BY <3>2, <4>2
      <4> HIDE DEF common
      <4> QED BY <2>3, <2>5, <4>1, <4>3, <4>4
    <3> QED BY <3>2, <3>4, <3>5
  <2> HIDE DEF requests, own
  <2> QED BY <2>7, <2>8 DEF RequestsAddUp, p, c, stage, total, least, requests, own
<1> QED BY <1>1, ExecutionIsInvariant, PTL

-----------------------------------------------------------------------------
(* Volumes *)

(* The global volumes, in any order. *)
LEMMA GlobalVolumesAre ==
  ASSUME NEW p \in Pipelines
  PROVE  LET volumes == {Volume("host", h) : h \in p.setting.hosts}
         IN  GlobalVolumes(p) \in Seq(volumes) /\ Range(GlobalVolumes(p)) = volumes
<1> DEFINE H == p.setting.hosts
           n == Cardinality(H)
           order == SetToSeq(H)
           volumes == {Volume("host", h) : h \in H}
<1>1. IsFiniteSet(H)
  BY PipelinesAssumption
<1> HIDE DEF H
<1>2. n \in Nat /\ ExistsBijection(1 .. n, H)
  BY <1>1, FS_CardinalityType
<1>3. PICK b \in Bijection(1 .. n, H) : TRUE
  BY <1>2, Zenon DEF ExistsBijection
<1>4. b \in [1 .. n -> H] /\ IsInjective(b)
  BY <1>3 DEF Bijection, Injection, IsInjective
<1>5. order \in [1 .. n -> H] /\ IsInjective(order)
  <2>1. order = CHOOSE f \in [1 .. n -> H] : IsInjective(f)
    BY DEF SetToSeq
  <2> HIDE DEF order, n
  <2> QED BY <1>4, <2>1
<1>6. ASSUME NEW h \in H PROVE \E i \in 1 .. n : order[i] = h
  <2> HIDE DEF order
  <2>1. order \in Injection(1 .. n, H)
    BY <1>5 DEF Injection, IsInjective
  <2>2. IsFiniteSet(1 .. n) /\ Cardinality(1 .. n) = n
    <3> HIDE DEF n
    <3>1. 1 \in Int /\ n \in Int
      BY <1>2
    <3>2. IsFiniteSet(1 .. n) /\ Cardinality(1 .. n) = IF 1 > n THEN 0 ELSE n - 1 + 1
      BY <3>1, FS_Interval
    <3> QED BY <1>2, <3>2
  <2>3. order \in Surjection(1 .. n, H)
    BY <1>1, <2>1, <2>2, FS_Injection
  <2> QED BY <2>3 DEF Surjection
<1>7. GlobalVolumes(p) = [i \in 1 .. n |-> Volume("host", order[i])]
  BY <1>5 DEF GlobalVolumes, H
<1> HIDE DEF order, n
<1>8. GlobalVolumes(p) \in [1 .. n -> volumes]
  BY <1>5, <1>7
<1>9. Range(GlobalVolumes(p)) = volumes
  BY <1>5, <1>6, <1>7 DEF Range
<1>10. GlobalVolumes(p) \in Seq(volumes)
  BY <1>2, <1>8, FunctionIs
<1> QED BY <1>9, <1>10 DEF H

Kept(p) == {j \in DOMAIN p.volumes : p.volumes[j].kinds # {}}

LEMMA DeclaredVolumesAre ==
  ASSUME NEW p \in Pipelines
  PROVE  LET volumes == {Volume("yaml", p.volumes[j].name) : j \in Kept(p)}
         IN  DeclaredVolumes(p) \in Seq(volumes) /\ Range(DeclaredVolumes(p)) = volumes
<1> DEFINE n == Len(p.volumes)
           all == {Volume("yaml", p.volumes[j].name) : j \in DOMAIN p.volumes}
           take(before, k) == IF p.volumes[k].kinds = {} THEN before
                              ELSE Append(before, Volume("yaml", p.volumes[k].name))
           step == [x \in Seq(all) \X (1 .. n) |-> take(x[1], x[2])]
           next(g) == [k \in 0 .. n |-> IF k = 0 THEN <<>> ELSE take(g[k - 1], k)]
           h == CHOOSE g : g = next(g)
           upTo(k) == {j \in Kept(p) : j <= k}
           first(k) == {Volume("yaml", p.volumes[j].name) : j \in upTo(k)}
<1>1. n \in Nat /\ DOMAIN p.volumes = 1 .. n
  BY PipelinesAssumption DEF IsSequence
<1>2. DeclaredVolumes(p) = h[n]
  BY DEF DeclaredVolumes
<1>3. ASSUME NEW before \in Seq(all), NEW k \in 1 .. n PROVE take(before, k) \in Seq(all)
  <2>1. Volume("yaml", p.volumes[k].name) \in all
    BY <1>1
  <2> HIDE DEF all
  <2>2. Append(before, Volume("yaml", p.volumes[k].name)) \in Seq(all)
    BY <2>1, RangeOfAppend
  <2> QED BY <2>2
<1> HIDE DEF all, take
<1>4. /\ <<>> \in Seq(all) /\ Range(<<>>) = {}
      /\ step \in [Seq(all) \X (1 .. n) -> Seq(all)]
  <2>1. ASSUME NEW x \in Seq(all) \X (1 .. n) PROVE take(x[1], x[2]) \in Seq(all)
    BY <1>3
  <2> QED BY <2>1, RangeOfFew
<1>5. ASSUME NEW before \in Seq(all), NEW k \in 1 .. n PROVE step[<<before, k>>] = take(before, k)
  OBVIOUS
<1> HIDE DEF step
<1>6. \E g : g = next(g)
  <2>1. PICK g : Loop(Seq(all), n, <<>>, step, g)
    <3> HIDE DEF n
    <3> QED BY <1>1, <1>4, LoopIs
  <2>2. g \in [0 .. n -> Seq(all)] /\ g[0] = <<>> /\ \A k \in 1 .. n : g[k] = step[<<g[k - 1], k>>]
    BY <2>1 DEF Loop
  <2>3. ASSUME NEW k \in 1 .. n PROVE g[k] = take(g[k - 1], k)
    <3>1. k - 1 \in 0 .. n
      BY <1>1
    <3>2. g[k - 1] \in Seq(all)
      BY <2>2, <3>1
    <3> QED BY <1>5, <2>2, <3>2
  <2>4. g = next(g)
    BY <1>1, <2>2, <2>3
  <2> QED BY <2>4
<1>7. h = next(h)
  <2> HIDE DEF next
  <2> QED BY <1>6
<1> HIDE DEF h
<1>8. h[0] = <<>> /\ \A k \in 1 .. n : h[k] = take(h[k - 1], k)
  <2>1. \A k \in 0 .. n : next(h)[k] = IF k = 0 THEN <<>> ELSE take(h[k - 1], k)
    OBVIOUS
  <2> HIDE DEF next
  <2> QED BY <1>1, <1>7, <2>1
<1> DEFINE S == {k \in 0 .. n : h[k] \in Seq(all) /\ Range(h[k]) = first(k)}
<1>9. \A k \in 0 .. n : k \in S
  <2>1. 0 \in S
    <3>1. first(0) = {}
      BY <1>1 DEF Kept
    <3> HIDE DEF first
    <3>2. 0 \in 0 .. n
      BY <1>1
    <3> QED BY <1>4, <1>8, <3>1, <3>2
  <2>2. ASSUME NEW k \in 1 .. n, k - 1 \in S PROVE k \in S
    <3>1. /\ h[k - 1] \in Seq(all) /\ Range(h[k - 1]) = first(k - 1) /\ h[k] = take(h[k - 1], k)
          /\ k \in 0 .. n
      BY <1>1, <1>8, <2>2
    <3>2. CASE p.volumes[k].kinds = {}
      <4>1. h[k] = h[k - 1]
        BY <3>1, <3>2 DEF take
      <4>2. first(k) = first(k - 1)
        BY <1>1, <3>2 DEF Kept
      <4> HIDE DEF first
      <4> QED BY <3>1, <4>1, <4>2
    <3>3. CASE p.volumes[k].kinds # {}
      <4> DEFINE v == Volume("yaml", p.volumes[k].name)
      <4>1. h[k] = Append(h[k - 1], v)
        BY <3>1, <3>3 DEF take
      <4>2. v \in all
        BY <1>1 DEF all
      <4>3. first(k) = first(k - 1) \cup {v}
        <5>1. k \in Kept(p)
          BY <1>1, <3>3 DEF Kept
        <5>2. upTo(k) = upTo(k - 1) \cup {k}
          BY <1>1, <5>1 DEF Kept
        <5> HIDE DEF upTo
        <5> QED BY <5>2
      <4> HIDE DEF v, first
      <4>4. Append(h[k - 1], v) \in Seq(all) /\ Range(Append(h[k - 1], v)) = Range(h[k - 1]) \cup {v}
        BY <3>1, <4>2, RangeOfAppend
      <4> QED BY <3>1, <4>1, <4>3, <4>4
    <3> QED BY <3>2, <3>3
  <2> HIDE DEF S
  <2> QED BY <1>1, <2>1, <2>2, Induction
<1>10. h[n] \in Seq(all) /\ Range(h[n]) = first(n)
  <2>1. n \in 0 .. n
    BY <1>1
  <2> QED BY <1>9, <2>1
<1>11. first(n) = {Volume("yaml", p.volumes[j].name) : j \in Kept(p)}
  BY <1>1 DEF Kept
<1>12. h[n] \in Seq(Range(h[n]))
  <2>1. \A s \in Seq(all) : s \in Seq(Range(s))
    BY DEF Range
  <2> QED BY <1>10, <2>1
<1> QED BY <1>2, <1>10, <1>11, <1>12

(* All volumes of the Spec. *)
LEMMA SpecVolumesAre ==
  ASSUME NEW p \in Pipelines
  PROVE  /\ IsSequence(SpecVolumes(p))
         /\ Range(SpecVolumes(p)) =
              {Volume("workspace", "_workspace"), Volume("status", "_status")}
                \cup {v \in {Volume("addons", "_addons")} : p.setting.debug}
                \cup {Volume("host", h) : h \in p.setting.hosts}
                \cup {Volume("yaml", p.volumes[j].name) : j \in Kept(p)}
<1> DEFINE work   == {Volume("workspace", "_workspace"), Volume("status", "_status")}
           addons == {v \in {Volume("addons", "_addons")} : p.setting.debug}
           host   == {Volume("host", h) : h \in p.setting.hosts}
           yaml   == {Volume("yaml", p.volumes[j].name) : j \in Kept(p)}
<1>1. WorkVolumes \in Seq(work) /\ Range(WorkVolumes) = work
  <2>1. Volume("workspace", "_workspace") \in work /\ Volume("status", "_status") \in work
    OBVIOUS
  <2> QED BY <2>1, RangeOfFew DEF WorkVolumes
<1>2. AddonsVolumes(p) \in Seq(addons) /\ Range(AddonsVolumes(p)) = addons
  <2>1. CASE p.setting.debug
    <3>1. Volume("addons", "_addons") \in addons /\ addons = {Volume("addons", "_addons")}
      BY <2>1
    <3>2. AddonsVolumes(p) = <<Volume("addons", "_addons")>>
      BY <2>1 DEF AddonsVolumes
    <3> HIDE DEF addons
    <3> QED BY <3>1, <3>2, RangeOfFew
  <2>2. CASE ~p.setting.debug
    <3>1. addons = {} /\ AddonsVolumes(p) = <<>>
      BY <2>2 DEF AddonsVolumes
    <3> HIDE DEF addons
    <3> QED BY <3>1, RangeOfFew
  <2> QED BY <2>1, <2>2
<1>3. GlobalVolumes(p) \in Seq(host) /\ Range(GlobalVolumes(p)) = host
  BY GlobalVolumesAre
<1>4. DeclaredVolumes(p) \in Seq(yaml) /\ Range(DeclaredVolumes(p)) = yaml
  BY DeclaredVolumesAre
<1> DEFINE two   == WorkVolumes \o AddonsVolumes(p)
           three == two \o GlobalVolumes(p)
<1>5. SpecVolumes(p) = three \o DeclaredVolumes(p)
  BY DEF SpecVolumes
<1> HIDE DEF work, addons, host, yaml
<1>6. /\ IsSequence(WorkVolumes) /\ IsSequence(AddonsVolumes(p)) /\ IsSequence(GlobalVolumes(p))
      /\ IsSequence(DeclaredVolumes(p))
  BY <1>1, <1>2, <1>3, <1>4, SequencesAre, Zenon
<1>7. IsSequence(two) /\ Range(two) = Range(WorkVolumes) \cup Range(AddonsVolumes(p))
  BY <1>6, SequencesAre, Zenon
<1> HIDE DEF two
<1>8. IsSequence(three) /\ Range(three) = Range(two) \cup Range(GlobalVolumes(p))
  BY <1>6, <1>7, SequencesAre, Zenon
<1> HIDE DEF three
<1>9. IsSequence(SpecVolumes(p)) /\ Range(SpecVolumes(p)) = Range(three) \cup Range(DeclaredVolumes(p))
  BY <1>5, <1>6, <1>8, SequencesAre, Zenon
<1>10. Range(SpecVolumes(p)) = work \cup addons \cup host \cup yaml
  BY <1>1, <1>2, <1>3, <1>4, <1>7, <1>8, <1>9
<1> QED BY <1>9, <1>10 DEF work, addons, host, yaml

(* What the linter and random() keep apart: a name is that of one kind of  *)
(* volume.                                                                 *)
LEMMA NamesAreApart ==
  ASSUME NEW p \in Pipelines, CheckVolumes(p), NEW v \in Range(SpecVolumes(p))
  PROVE  /\ v.name = "_workspace" => v.of = "workspace"
         /\ v.name = "_status" => v.of = "status"
         /\ v.name = "_addons" => v.of = "addons"
         /\ v.name \in p.setting.hosts => v.of = "host"
         /\ v.name \in {p.volumes[j].name : j \in Kept(p)} => v.of = "yaml"
<1>1. \A h \in p.setting.hosts :
        h \notin {"_workspace", "_status", "_addons"} /\ h \notin {u.name : u \in Range(p.volumes)}
  <2> DEFINE names == {u.name : u \in Range(p.volumes)}
  <2>1. p.setting.hosts \cap ({"_workspace", "_status", "_addons"} \cup names) = {}
    BY PipelinesAssumption, Zenon
  <2> HIDE DEF names
  <2> QED BY <2>1 DEF names
<1>2. ASSUME NEW j \in Kept(p)
      PROVE  /\ p.volumes[j].name \notin {"_workspace", "_status", "_addons"}
             /\ p.volumes[j].name \in {u.name : u \in Range(p.volumes)}
  <2>1. j \in DOMAIN p.volumes
    BY DEF Kept
  <2>2. p.volumes[j].name \notin Reserved \cup {"", "_addons"}
    BY <2>1 DEF CheckVolumes
  <2>3. p.volumes[j] \in Range(p.volumes)
    BY <2>1, Zenon DEF Range
  <2> QED BY <2>2, <2>3 DEF Reserved
<1>3. \/ v \in {Volume("workspace", "_workspace"), Volume("status", "_status"), Volume("addons", "_addons")}
      \/ v \in {Volume("host", h) : h \in p.setting.hosts}
      \/ v \in {Volume("yaml", p.volumes[j].name) : j \in Kept(p)}
  <2> DEFINE addons == {u \in {Volume("addons", "_addons")} : p.setting.debug}
             host   == {Volume("host", h) : h \in p.setting.hosts}
             yaml   == {Volume("yaml", p.volumes[j].name) : j \in Kept(p)}
  <2>1. v \in {Volume("workspace", "_workspace"), Volume("status", "_status")} \cup addons \cup host \cup yaml
    BY SpecVolumesAre, Zenon
  <2>2. addons \subseteq {Volume("addons", "_addons")}
    OBVIOUS
  <2> HIDE DEF addons, host, yaml
  <2> QED BY <2>1, <2>2 DEF host, yaml
<1>4. ASSUME NEW of, NEW name PROVE Volume(of, name).of = of /\ Volume(of, name).name = name
  BY DEF Volume
<1>5. CASE v \in {Volume("workspace", "_workspace"), Volume("status", "_status"), Volume("addons", "_addons")}
  BY <1>1, <1>2, <1>4, <1>5
<1>6. CASE v \in {Volume("host", h) : h \in p.setting.hosts}
  BY <1>1, <1>2, <1>4, <1>6
<1>7. CASE v \in {Volume("yaml", p.volumes[j].name) : j \in Kept(p)}
  BY <1>1, <1>2, <1>4, <1>7
<1> QED BY <1>3, <1>5, <1>6, <1>7

LEMMA LookupIs ==
  ASSUME NEW S, NEW volumes \in Seq(S), NEW name, \E v \in Range(volumes) : v.name = name
  PROVE  LET id == LookupVolumeID(volumes, name)
         IN  /\ id \in DOMAIN volumes /\ volumes[id].name = name
             /\ \A j \in 1 .. id - 1 : volumes[j].name # name
<1> DEFINE T == {i \in DOMAIN volumes : volumes[i].name = name}
<1>1. T # {} /\ T \subseteq Nat
  BY DEF Range
<1>2. PICK i \in T : \A j \in T : i <= j
  <2> HIDE DEF T
  <2> QED BY <1>1, FirstIs
<1>3. ASSUME NEW j \in 1 .. i - 1 PROVE volumes[j].name # name
  <2>1. j \in DOMAIN volumes /\ ~(i <= j)
    BY <1>2
  <2> QED BY <1>2, <2>1
<1>4. i \in DOMAIN volumes /\ volumes[i].name = name
  BY <1>2
<1> QED BY <1>3, <1>4 DEF LookupVolumeID

LEMMA SourcesAre ==
  ASSUME NEW p \in Pipelines
  PROVE  /\ Len(Sources(p)) \in Nat /\ DOMAIN Sources(p) = 1 .. Len(Sources(p))
         /\ Len(AllSources(p)) \in Nat /\ DOMAIN AllSources(p) = 1 .. Len(AllSources(p))
         /\ \A i \in DOMAIN Sources(p) : i \in DOMAIN AllSources(p) /\ AllSources(p)[i] = Sources(p)[i]
         /\ ~p.setting.debug => DOMAIN AllSources(p) = DOMAIN Sources(p)
         /\ \A source \in Range(AllSources(p)) : source = NoSource \/ source \in Range(SourceSteps(p))
<1> DEFINE first == IF p.clone THEN <<NoSource>> ELSE <<>>
           last  == IF p.setting.debug THEN <<NoSource>> ELSE <<>>
           steps == SourceSteps(p)
<1>1. IsSequence(first) /\ Range(first) \subseteq {NoSource}
  <2>1. first \in {<<NoSource>>, <<>>}
    BY Zenon
  <2> QED BY <2>1, FewAre
<1>2. IsSequence(last) /\ Range(last) \subseteq {NoSource} /\ (~p.setting.debug => Len(last) = 0)
  <2>1. last \in {<<NoSource>>, <<>>} /\ (~p.setting.debug => last = <<>>)
    BY PipelinesAssumption
  <2> QED BY <2>1, FewAre
<1>3. IsSequence(steps)
  <2>1. IsSequence(p.services) /\ IsSequence(p.steps)
    BY PipelinesAssumption
  <2> QED BY <2>1, SequencesAre, Zenon DEF SourceSteps
<1>4. Sources(p) = first \o steps /\ AllSources(p) = Sources(p) \o last
  BY DEF Sources, AllSources
<1> HIDE DEF first, last, steps
<1>5. IsSequence(Sources(p)) /\ Range(Sources(p)) = Range(first) \cup Range(steps)
  BY <1>1, <1>3, <1>4, SequencesAre, Zenon
<1>6. IsSequence(AllSources(p)) /\ Range(AllSources(p)) = Range(Sources(p)) \cup Range(last)
  BY <1>2, <1>4, <1>5, SequencesAre, Zenon
<1>7. Sources(p) \in Seq(Range(Sources(p))) /\ last \in Seq(Range(last))
  BY <1>2, <1>5, SequencesAre, Zenon
<1>8. /\ Len(Sources(p)) \in Nat /\ Len(last) \in Nat
      /\ DOMAIN AllSources(p) = 1 .. Len(Sources(p)) + Len(last)
      /\ \A i \in 1 .. Len(Sources(p)) : AllSources(p)[i] = Sources(p)[i]
  <2> DEFINE S == Range(Sources(p))
             T == Range(last)
  <2> HIDE DEF S, T
  <2>1. Sources(p) \in Seq(S) /\ last \in Seq(T)
    BY <1>7 DEF S, T
  <2> QED BY <1>4, <2>1, ConcatIs
<1>9. /\ DOMAIN Sources(p) = 1 .. Len(Sources(p))
      /\ Len(AllSources(p)) \in Nat /\ DOMAIN AllSources(p) = 1 .. Len(AllSources(p))
  BY <1>5, <1>6, SequencesAre, Zenon
<1>10. \A i \in DOMAIN Sources(p) : i \in DOMAIN AllSources(p) /\ AllSources(p)[i] = Sources(p)[i]
  BY <1>8, <1>9
<1>11. ASSUME ~p.setting.debug PROVE DOMAIN AllSources(p) = DOMAIN Sources(p)
  <2>1. Len(last) = 0
    BY <1>2, <1>11
  <2> QED BY <1>8, <1>9, <2>1
<1>12. \A source \in Range(AllSources(p)) : source = NoSource \/ source \in Range(steps)
  BY <1>1, <1>2, <1>5, <1>6
<1>13. \A source \in Range(AllSources(p)) : source = NoSource \/ source \in Range(SourceSteps(p))
  BY <1>12 DEF steps
<1> QED BY <1>8, <1>9, <1>10, <1>11, <1>13, Zenon

LEMMA MountsAre ==
  ASSUME NEW p \in Pipelines, CheckVolumes(p), NEW i, NEW n \in StepMounts(p, i), NEW of,
         Volume(of, n) \in Range(SpecVolumes(p))
  PROVE  LET id == ToVolumeMounts(p, i)[n]
         IN  /\ id \in DOMAIN SpecVolumes(p) /\ SpecVolumes(p)[id].name = n
             /\ SpecVolumes(p)[id] \in Range(SpecVolumes(p))
             /\ \A j \in 1 .. id - 1 : SpecVolumes(p)[j].name # n
<1> DEFINE volumes == SpecVolumes(p)
<1>1. volumes \in Seq(Range(volumes))
  BY SpecVolumesAre, SequencesAre, Zenon
<1>2. \E v \in Range(volumes) : v.name = n
  <2>1. Volume(of, n).name = n
    BY DEF Volume
  <2> QED BY <2>1
<1> HIDE DEF volumes
<1>3. n \in {volumes[j].name : j \in DOMAIN volumes}
  BY <1>2 DEF Range
<1>4. ToVolumeMounts(p, i)[n] = LookupVolumeID(volumes, n)
  BY <1>3 DEF ToVolumeMounts, volumes
<1>5. /\ LookupVolumeID(volumes, n) \in DOMAIN volumes /\ volumes[LookupVolumeID(volumes, n)].name = n
      /\ \A j \in 1 .. LookupVolumeID(volumes, n) - 1 : volumes[j].name # n
  BY <1>1, <1>2, LookupIs
<1> QED BY <1>4, <1>5 DEF volumes, Range

(* In a pipeline that was admitted, each mount of a container is that of   *)
(* the volume meant: the one the YAML declares by this name, or the        *)
(* runner's own, whatever names the YAML uses (checkStep, checkVolumes,    *)
(* Compile, lookupVolumeID).                                               *)
THEOREM VolumesAsDeclaredAlways ==
  Spec => []VolumesAsDeclared
<1>1. ExecutionInv => VolumesAsDeclared
  <2> SUFFICES ASSUME ExecutionInv, Compiled PROVE VolumesAsDeclared
    BY Zenon DEF VolumesAsDeclared
  <2> DEFINE p == pipeline
             volumes == SpecVolumes(p)
             declared == {p.volumes[j].name : j \in Kept(p)}
             id(i, n) == ToVolumeMounts(p, i)[n]
  <2>1. p \in Pipelines /\ CheckVolumes(p)
    BY DEF ExecutionInv, AdmissionInv, Compiled, Admitted, Lint
  <2>2. ASSUME NEW pod \in Pods
        PROVE  /\ pod.containers = ToContainers(p) /\ pod.initContainers = ToInitContainers(p)
    <3>1. pod \in Objects /\ pod.kind = "pods"
      BY DEF Pods
    <3>2. pod \in {ToNamespace(p), ToDockerConfigSecret(p), ToSecret(p), ToPod(p)}
      <4>1. ~SetupRefuses(p)
        BY <3>1, ObjectsAre, Zenon
      <4>2. \/ pod \in {n \in {ToNamespace(p)} : SpecNamespaces(p).own # ""}
            \/ pod \in {n \in {ToDockerConfigSecret(p)} : HasPullSecret(p)} \/ pod \in {ToSecret(p), ToPod(p)}
        BY <3>1, <4>1, ObjectsAre, Zenon
      <4> QED BY <4>2, Zenon
    <3>3. pod = ToPod(p)
      <4>1. ToNamespace(p).kind = "namespaces"
        BY DEF ToNamespace
      <4>2. ToDockerConfigSecret(p).kind = "secrets" /\ ToSecret(p).kind = "secrets"
        BY DEF ToDockerConfigSecret, ToSecret
      <4> QED BY <3>1, <3>2, <4>1, <4>2
    <3> QED BY <3>3 DEF ToPod
  <2> HIDE DEF p
  <2>3. /\ Volume("workspace", "_workspace") \in Range(volumes) /\ Volume("status", "_status") \in Range(volumes)
        /\ p.setting.debug => Volume("addons", "_addons") \in Range(volumes)
        /\ \A h \in p.setting.hosts : Volume("host", h) \in Range(volumes)
        /\ \A n \in declared : Volume("yaml", n) \in Range(volumes)
    BY <2>1, SpecVolumesAre
  <2>4. ASSUME NEW i, NEW n \in StepMounts(p, i), NEW of, Volume(of, n) \in Range(volumes)
        PROVE  /\ volumes[id(i, n)] \in Range(volumes) /\ volumes[id(i, n)].name = n
               /\ \A j \in 1 .. id(i, n) - 1 : volumes[j].name # n
    BY <2>1, <2>4, MountsAre
  <2>5. ASSUME NEW v \in Range(volumes)
        PROVE  /\ v.name = "_workspace" => v.of = "workspace"
               /\ v.name = "_status" => v.of = "status"
               /\ v.name = "_addons" => v.of = "addons"
               /\ v.name \in p.setting.hosts => v.of = "host"
               /\ v.name \in declared => v.of = "yaml"
    BY <2>1, NamesAreApart
  <2>6. ASSUME NEW i \in DOMAIN Sources(p)
        PROVE  /\ Sources(p)[i].mounts \cup {"_workspace", "_status"} \cup p.setting.hosts \subseteq StepMounts(p, i)
               /\ p.setting.debug => "_addons" \in StepMounts(p, i)
    <3>1. i <= Len(Sources(p)) /\ AllSources(p)[i] = Sources(p)[i]
      BY <2>1, SourcesAre
    <3> QED BY <3>1 DEF StepMounts
  <2>7. ASSUME NEW i \in DOMAIN AllSources(p) \ DOMAIN Sources(p)
        PROVE  p.setting.debug /\ "_addons" \in StepMounts(p, i)
    <3>1. p.setting.debug
      BY <2>1, SourcesAre
    <3> QED BY <3>1 DEF StepMounts
  <2> HIDE DEF volumes, id, declared
  <2>8. ASSUME NEW i \in DOMAIN Sources(p)
        PROVE  /\ \A n \in declared \cap Sources(p)[i].mounts :
                    volumes[id(i, n)].of = "yaml" /\ \A j \in 1 .. id(i, n) - 1 : volumes[j].name # n
               /\ volumes[id(i, "_workspace")].of = "workspace" /\ volumes[id(i, "_status")].of = "status"
               /\ \A h \in p.setting.hosts : volumes[id(i, h)].of = "host"
               /\ p.setting.debug => volumes[id(i, "_addons")].of = "addons"
    <3>1. ASSUME NEW n \in declared \cap Sources(p)[i].mounts
          PROVE  volumes[id(i, n)].of = "yaml" /\ \A j \in 1 .. id(i, n) - 1 : volumes[j].name # n
      BY <2>3, <2>4, <2>5, <2>6, <3>1
    <3>2. volumes[id(i, "_workspace")].of = "workspace" /\ volumes[id(i, "_status")].of = "status"
      BY <2>3, <2>4, <2>5, <2>6
    <3>3. ASSUME NEW h \in p.setting.hosts PROVE volumes[id(i, h)].of = "host"
      BY <2>3, <2>4, <2>5, <2>6, <3>3
    <3>4. p.setting.debug => volumes[id(i, "_addons")].of = "addons"
      BY <2>3, <2>4, <2>5, <2>6
    <3> QED BY <3>1, <3>2, <3>3, <3>4
  <2>9. ASSUME NEW i \in DOMAIN AllSources(p) \ DOMAIN Sources(p)
        PROVE  volumes[id(i, "_addons")].of = "addons"
    BY <2>3, <2>4, <2>5, <2>7
  <2>10. ASSUME NEW pod \in Pods
         PROVE  /\ DOMAIN pod.containers = DOMAIN Sources(p)
                /\ \A i \in DOMAIN Sources(p) : \A n : pod.containers[i].mounts[n] = id(i, n)
                /\ DOMAIN pod.initContainers = DOMAIN AllSources(p) \ DOMAIN Sources(p)
                /\ \A i \in DOMAIN AllSources(p) \ DOMAIN Sources(p) : \A n : pod.initContainers[i].mounts[n] = id(i, n)
    <3>1. /\ DOMAIN ToContainers(p) = DOMAIN Sources(p)
          /\ \A i \in DOMAIN Sources(p) : ToContainers(p)[i] = ToContainer(p, i)
      BY DEF ToContainers
    <3>2. /\ DOMAIN ToInitContainers(p) = DOMAIN AllSources(p) \ DOMAIN Sources(p)
          /\ \A i \in DOMAIN AllSources(p) \ DOMAIN Sources(p) : ToInitContainers(p)[i] = ToContainer(p, i)
      BY DEF ToInitContainers
    <3>3. \A i : ToContainer(p, i).mounts = ToVolumeMounts(p, i)
      BY DEF ToContainer
    <3> QED BY <2>2, <3>1, <3>2, <3>3 DEF id
  <2>11. ASSUME NEW pod \in Pods, NEW i \in DOMAIN pod.containers
         PROVE  LET c == pod.containers[i]
                IN  /\ \A n \in declared \cap Sources(p)[i].mounts :
                         volumes[c.mounts[n]].of = "yaml" /\ \A j \in 1 .. c.mounts[n] - 1 : volumes[j].name # n
                    /\ volumes[c.mounts["_workspace"]].of = "workspace" /\ volumes[c.mounts["_status"]].of = "status"
                    /\ \A h \in p.setting.hosts : volumes[c.mounts[h]].of = "host"
                    /\ p.setting.debug => volumes[c.mounts["_addons"]].of = "addons"
    <3>1. i \in DOMAIN Sources(p) /\ \A n : pod.containers[i].mounts[n] = id(i, n)
      BY <2>10, <2>11
    <3> QED BY <2>8, <3>1
  <2>12. ASSUME NEW pod \in Pods, NEW i \in DOMAIN pod.initContainers
         PROVE  volumes[pod.initContainers[i].mounts["_addons"]].of = "addons"
    BY <2>9, <2>10, <2>12
  <2> QED BY <2>11, <2>12, Zenon DEF VolumesAsDeclared, p, volumes, declared, Kept
<1> QED BY <1>1, ExecutionIsInvariant, PTL

-----------------------------------------------------------------------------
(* Secrets *)

Distinct(s) == \A j, k \in DOMAIN s : s[j] = s[k] => j = k

(* A step's secrets while they are taken: each once, and all of them are   *)
(* in the Spec.                                                            *)
TakenFrom(V) ==
  {taken \in [all : SUBSET V, step : Seq(V)] : Range(taken.step) \subseteq taken.all /\ Distinct(taken.step)}

LEMMA TakeSecretIs ==
  ASSUME NEW V, NEW taken \in TakenFrom(V), NEW s \in V
  PROVE  /\ TakeSecret(taken, s) \in TakenFrom(V)
         /\ TakeSecret(taken, s).all = taken.all \cup {s}
         /\ Range(TakeSecret(taken, s).step) = Range(taken.step) \cup {s}
<1> DEFINE step == taken.step
           all  == taken.all
           next == TakeSecret(taken, s)
<1>1. all \in SUBSET V /\ step \in Seq(V) /\ Range(step) \subseteq all /\ Distinct(step)
  BY DEF TakenFrom
<1>2. ASSUME NEW q \in Seq(V), next = [all |-> all \cup {s}, step |-> q],
             Range(q) = Range(step) \cup {s}, Distinct(q)
      PROVE  /\ next \in TakenFrom(V) /\ next.all = all \cup {s} /\ Range(next.step) = Range(step) \cup {s}
  <2> HIDE DEF next, step, all
  <2>1. next.all = all \cup {s} /\ next.step = q
    BY <1>2
  <2>2. next \in [all : SUBSET V, step : Seq(V)]
    BY <1>1, <1>2
  <2>3. Range(q) \subseteq all \cup {s}
    BY <1>1, <1>2
  <2> QED BY <1>2, <2>1, <2>2, <2>3 DEF TakenFrom
<1> DEFINE goal == next \in TakenFrom(V) /\ next.all = all \cup {s} /\ Range(next.step) = Range(step) \cup {s}
<1>3. ASSUME s \in all /\ s \in Range(step) PROVE goal
  <2>1. next = [all |-> all \cup {s}, step |-> step]
    BY <1>3 DEF TakeSecret
  <2> HIDE DEF next, step, all
  <2>2. Range(step) = Range(step) \cup {s}
    BY <1>3
  <2> QED BY <1>1, <1>2, <2>1, <2>2, Zenon
<1>4. ASSUME ~(s \in all /\ s \in Range(step)) PROVE goal
  <2>1. next = [all |-> all \cup {s}, step |-> Append(step, s)]
    BY <1>4 DEF TakeSecret
  <2>2. s \notin Range(step)
    BY <1>1, <1>4
  <2> HIDE DEF next, step, all
  <2>3. /\ Append(step, s) \in Seq(V) /\ Range(Append(step, s)) = Range(step) \cup {s}
        /\ Len(step) \in Nat /\ DOMAIN Append(step, s) = 1 .. Len(step) + 1
        /\ Append(step, s)[Len(step) + 1] = s
        /\ \A i \in 1 .. Len(step) : Append(step, s)[i] = step[i]
    BY <1>1, RangeOfAppend
  <2>4. DOMAIN step = 1 .. Len(step) /\ \A i \in 1 .. Len(step) : step[i] # s
    BY <1>1, <2>2 DEF Range
  <2>5. Distinct(Append(step, s))
    BY <1>1, <2>3, <2>4 DEF Distinct
  <2> QED BY <1>2, <2>1, <2>3, <2>5, Zenon
<1> QED BY <1>3, <1>4

LEMMA TakeSecretsIs ==
  ASSUME NEW V, NEW first \in TakenFrom(V), NEW secrets \in Seq(V)
  PROVE  LET taken == TakeSecrets(first, secrets)
         IN  /\ taken \in TakenFrom(V)
             /\ first.all \subseteq taken.all
             /\ Range(secrets) \subseteq Range(taken.step)
<1> DEFINE n == Len(secrets)
           T == TakenFrom(V)
           step == [x \in T \X (1 .. n) |-> TakeSecret(x[1], secrets[x[2]])]
           next(g) == [k \in 0 .. n |-> IF k = 0 THEN first ELSE TakeSecret(g[k - 1], secrets[k])]
           h == CHOOSE g : g = next(g)
<1>1. n \in Nat /\ DOMAIN secrets = 1 .. n /\ \A k \in 1 .. n : secrets[k] \in V
  OBVIOUS
<1>2. TakeSecrets(first, secrets) = h[n]
  BY DEF TakeSecrets
<1>3. ASSUME NEW taken \in T, NEW k \in 1 .. n
      PROVE  /\ TakeSecret(taken, secrets[k]) \in T
             /\ TakeSecret(taken, secrets[k]).all = taken.all \cup {secrets[k]}
             /\ Range(TakeSecret(taken, secrets[k]).step) = Range(taken.step) \cup {secrets[k]}
  BY <1>1, TakeSecretIs
<1> HIDE DEF T
<1>4. step \in [T \X (1 .. n) -> T] /\ \A taken \in T, k \in 1 .. n : step[<<taken, k>>] = TakeSecret(taken, secrets[k])
  BY <1>3
<1> HIDE DEF step
<1>5. \E g : g = next(g)
  <2>1. PICK g : Loop(T, n, first, step, g)
    <3>1. first \in T
      BY DEF T
    <3> HIDE DEF n
    <3> QED BY <1>1, <1>4, <3>1, LoopIs
  <2>2. g \in [0 .. n -> T] /\ g[0] = first /\ \A k \in 1 .. n : g[k] = step[<<g[k - 1], k>>]
    BY <2>1 DEF Loop
  <2>3. ASSUME NEW k \in 1 .. n PROVE g[k] = TakeSecret(g[k - 1], secrets[k])
    <3>1. k - 1 \in 0 .. n
      BY <1>1
    <3>2. g[k - 1] \in T
      BY <2>2, <3>1
    <3> QED BY <1>4, <2>2, <3>2
  <2>4. g = next(g)
    BY <1>1, <2>2, <2>3
  <2> QED BY <2>4
<1>6. h = next(h)
  <2> HIDE DEF next
  <2> QED BY <1>5
<1> HIDE DEF h
<1>7. h[0] = first /\ \A k \in 1 .. n : h[k] = TakeSecret(h[k - 1], secrets[k])
  <2>1. \A k \in 0 .. n : next(h)[k] = IF k = 0 THEN first ELSE TakeSecret(h[k - 1], secrets[k])
    OBVIOUS
  <2> HIDE DEF next
  <2> QED BY <1>1, <1>6, <2>1
<1> DEFINE S == {k \in 0 .. n : /\ h[k] \in T /\ first.all \subseteq h[k].all
                                 /\ \A j \in 1 .. k : secrets[j] \in Range(h[k].step)}
<1>8. \A k \in 0 .. n : k \in S
  <2>1. 0 \in S
    <3>1. first \in T
      BY DEF T
    <3> QED BY <1>1, <1>7, <3>1
  <2>2. ASSUME NEW k \in 1 .. n, k - 1 \in S PROVE k \in S
    <3>1. /\ h[k - 1] \in T /\ first.all \subseteq h[k - 1].all
          /\ \A j \in 1 .. k - 1 : secrets[j] \in Range(h[k - 1].step)
      BY <2>2
    <3>2. /\ h[k] \in T /\ h[k].all = h[k - 1].all \cup {secrets[k]}
          /\ Range(h[k].step) = Range(h[k - 1].step) \cup {secrets[k]}
      BY <1>3, <1>7, <3>1
    <3>3. \A j \in 1 .. k : secrets[j] \in Range(h[k].step)
      <4>1. \A j \in 1 .. k : j \in 1 .. k - 1 \/ j = k
        BY <1>1
      <4> QED BY <3>1, <3>2, <4>1
    <3> QED BY <1>1, <3>1, <3>2, <3>3
  <2> HIDE DEF S
  <2> QED BY <1>1, <2>1, <2>2, Induction
<1>9. h[n] \in T /\ first.all \subseteq h[n].all /\ \A j \in 1 .. n : secrets[j] \in Range(h[n].step)
  <2>1. n \in S
    BY <1>1, <1>8
  <2> QED BY <2>1
<1>10. Range(secrets) \subseteq Range(h[n].step)
  BY <1>1, <1>9 DEF Range
<1> QED BY <1>2, <1>9, <1>10 DEF T

LEMMA NetrcIs ==
  ASSUME NEW p \in Pipelines, NEW i
  PROVE  /\ IsSequence(NetrcOf(p, i)) /\ Distinct(NetrcOf(p, i))
         /\ Range(NetrcOf(p, i)) \subseteq {s \in Range(NetrcSecrets) : p.setting.netrc}
<1>1. Distinct(NetrcSecrets)
  <2>1. DOMAIN NetrcSecrets = 1 .. 4
    BY DEF NetrcSecrets
  <2>2. /\ NetrcSecrets[1] = "machine" /\ NetrcSecrets[2] = "username"
        /\ NetrcSecrets[3] = "password" /\ NetrcSecrets[4] = "file"
    BY DEF NetrcSecrets
  <2>3. \A j \in 1 .. 4 : j = 1 \/ j = 2 \/ j = 3 \/ j = 4
    OBVIOUS
  <2> QED BY <2>1, <2>2, <2>3 DEF Distinct
<1>2. IsSequence(NetrcSecrets)
  <2>1. NetrcSecrets \in Seq({"machine", "username", "password", "file"})
    BY DEF NetrcSecrets
  <2> QED BY <2>1, SequencesAre, Zenon
<1>3. CASE GetsNetrc(p, i)
  <2>1. NetrcOf(p, i) = NetrcSecrets /\ p.setting.netrc
    BY <1>3 DEF NetrcOf, GetsNetrc
  <2> QED BY <1>1, <1>2, <2>1
<1>4. CASE ~GetsNetrc(p, i)
  <2>1. NetrcOf(p, i) = <<>>
    BY <1>4 DEF NetrcOf
  <2>2. Distinct(<<>>)
    BY DEF Distinct
  <2> QED BY <2>1, <2>2, FewAre
<1> QED BY <1>3, <1>4

LEMMA StepSecretsAre ==
  ASSUME NEW p \in Pipelines, NEW i \in DOMAIN AllSources(p)
  PROVE  /\ IsSequence(StepSecrets(p, i))
         /\ Range(StepSecrets(p, i)) = Range(AllSources(p)[i].secrets) \cup Range(NetrcOf(p, i))
<1> DEFINE source == AllSources(p)[i]
<1>1. source \in Range(AllSources(p))
  BY Zenon DEF Range
<1>2. source = NoSource \/ source \in Range(SourceSteps(p))
  BY <1>1, SourcesAre, Zenon
<1>3. NoSource.secrets = <<>>
  BY DEF NoSource
<1>4. \A step \in Range(SourceSteps(p)) : IsSequence(step.secrets)
  BY PipelinesAssumption, Zenon
<1>5. IsSequence(source.secrets)
  BY <1>2, <1>3, <1>4, FewAre
<1>6. IsSequence(NetrcOf(p, i))
  BY NetrcIs, Zenon
<1> QED BY <1>5, <1>6, SequencesAre, Zenon DEF StepSecrets

(* From before to after the i-th step's secrets, masked, were fetched. *)
Fetched(p, i, V, before, after, masked) ==
  /\ after = [all |-> after.all, steps |-> Append(before.steps, masked)]
  /\ before.all \subseteq after.all /\ after.all \subseteq V
  /\ Distinct(masked) /\ Range(StepSecrets(p, i)) \subseteq Range(masked) /\ Range(masked) \subseteq after.all

LEMMA FetchIs ==
  ASSUME NEW p \in Pipelines, NEW i \in DOMAIN AllSources(p), NEW V, NEW fetched,
         fetched.all \subseteq V, Range(NetrcOf(p, i)) \subseteq fetched.all,
         StepSecrets(p, i) \in Seq(V)
  PROVE  \E masked \in Seq(V) : Fetched(p, i, V, fetched, FetchSecrets(p, fetched, i), masked)
<1> DEFINE first == [all |-> fetched.all, step |-> NetrcOf(p, i)]
           taken == TakeSecrets(first, StepSecrets(p, i))
           next  == FetchSecrets(p, fetched, i)
<1>1. first \in TakenFrom(V)
  <2>1. NetrcOf(p, i) \in Seq(V)
    <3>1. NetrcOf(p, i) \in Seq(Range(NetrcOf(p, i)))
      BY NetrcIs, SequencesAre, Zenon
    <3>2. Range(NetrcOf(p, i)) \subseteq V
      OBVIOUS
    <3>3. \A q, S, T : q \in Seq(S) /\ S \subseteq T => q \in Seq(T)
      OBVIOUS
    <3> QED BY <3>1, <3>2, <3>3, Zenon
  <2>2. Distinct(NetrcOf(p, i))
    BY NetrcIs
  <2>3. first \in [all : SUBSET V, step : Seq(V)] /\ first.all = fetched.all /\ first.step = NetrcOf(p, i)
    BY <2>1
  <2> HIDE DEF first
  <2> QED BY <2>2, <2>3 DEF TakenFrom
<1>2. first.all = fetched.all
  OBVIOUS
<1> HIDE DEF first
<1>3. taken \in TakenFrom(V) /\ first.all \subseteq taken.all /\ Range(StepSecrets(p, i)) \subseteq Range(taken.step)
  BY <1>1, TakeSecretsIs
<1>4. next = [all |-> taken.all, steps |-> Append(fetched.steps, taken.step)]
  BY DEF FetchSecrets, first
<1> HIDE DEF taken
<1>5. next.all = taken.all
  BY <1>4
<1>6. taken.step \in Seq(V) /\ taken.all \subseteq V /\ Range(taken.step) \subseteq taken.all /\ Distinct(taken.step)
  BY <1>3 DEF TakenFrom
<1> HIDE DEF next
<1>7. Fetched(p, i, V, fetched, next, taken.step)
  BY <1>2, <1>3, <1>4, <1>5, <1>6 DEF Fetched
<1> QED BY <1>6, <1>7 DEF next

(* The j-th step's secrets are in the Spec, and its list has each of them  *)
(* once.                                                                   *)
Masks(p, fetched, j) ==
  /\ Distinct(fetched.steps[j])
  /\ Range(StepSecrets(p, j)) \subseteq Range(fetched.steps[j])
  /\ Range(StepSecrets(p, j)) \subseteq fetched.all

LEMMA SpecSecretsAre ==
  ASSUME NEW p \in Pipelines, NEW i \in DOMAIN AllSources(p)
  PROVE  Masks(p, SpecSecrets(p), i)
<1> DEFINE n == Len(AllSources(p))
           V == (UNION {Range(StepSecrets(p, j)) : j \in 1 .. n}) \cup Range(NetrcSecrets)
           U == {f \in [all : SUBSET V, steps : Seq(Seq(V))] : p.setting.netrc => Range(NetrcSecrets) \subseteq f.all}
           base == PackedSecrets(p)
           step == [x \in U \X (1 .. n) |-> FetchSecrets(p, x[1], x[2])]
           next(g) == [k \in 0 .. n |-> IF k = 0 THEN base ELSE FetchSecrets(p, g[k - 1], k)]
           h == CHOOSE g : g = next(g)
<1>1. n \in Nat /\ DOMAIN AllSources(p) = 1 .. n
  BY SourcesAre
<1>2. SpecSecrets(p) = h[n]
  BY DEF SpecSecrets
<1>3. ASSUME NEW k \in 1 .. n
      PROVE  /\ StepSecrets(p, k) \in Seq(V)
             /\ Range(NetrcOf(p, k)) \subseteq {s \in Range(NetrcSecrets) : p.setting.netrc}
  <2>1. StepSecrets(p, k) \in Seq(Range(StepSecrets(p, k)))
    <3>1. IsSequence(StepSecrets(p, k))
      BY <1>1, StepSecretsAre
    <3> QED BY <3>1, SequencesAre, Zenon
  <2>2. Range(StepSecrets(p, k)) \subseteq V
    OBVIOUS
  <2>3. \A q, S, T : q \in Seq(S) /\ S \subseteq T => q \in Seq(T)
    OBVIOUS
  <2>4. StepSecrets(p, k) \in Seq(V)
    <3> HIDE DEF V
    <3> QED BY <2>1, <2>2, <2>3, Zenon
  <2> QED BY <2>4, NetrcIs, Zenon
<1>4. base \in U /\ base.steps = <<>>
  <2>1. Range(NetrcSecrets) \subseteq V
    BY Zenon
  <2> HIDE DEF V
  <2>2. <<>> \in Seq(Seq(V))
    OBVIOUS
  <2>3. base.all = (IF p.setting.netrc THEN Range(NetrcSecrets) ELSE {}) /\ base.steps = <<>>
    BY DEF PackedSecrets
  <2>4. base = [all |-> base.all, steps |-> base.steps]
    BY DEF PackedSecrets
  <2> HIDE DEF base
  <2>5. base.all \in SUBSET V /\ (p.setting.netrc => Range(NetrcSecrets) \subseteq base.all)
    BY <2>1, <2>3
  <2>6. base \in [all : SUBSET V, steps : Seq(Seq(V))]
    BY <2>2, <2>3, <2>4, <2>5
  <2> QED BY <2>3, <2>5, <2>6
<1> HIDE DEF V, base
(* One step of the loop. *)
<1>5. ASSUME NEW fetched \in U, NEW k \in 1 .. n
      PROVE  \E q \in Seq(V) :
               LET f == FetchSecrets(p, fetched, k)
               IN  /\ f \in U /\ f.steps = Append(fetched.steps, q) /\ fetched.all \subseteq f.all
                   /\ Distinct(q) /\ Range(StepSecrets(p, k)) \subseteq Range(q)
                   /\ Range(StepSecrets(p, k)) \subseteq f.all
  <2> DEFINE f == FetchSecrets(p, fetched, k)
  <2>1. /\ fetched.all \subseteq V /\ fetched.steps \in Seq(Seq(V))
        /\ p.setting.netrc => Range(NetrcSecrets) \subseteq fetched.all
    OBVIOUS
  <2>2. Range(NetrcOf(p, k)) \subseteq fetched.all
    BY <1>3, <2>1
  <2> HIDE DEF U
  <2>3. PICK q \in Seq(V) :
          /\ f = [all |-> f.all, steps |-> Append(fetched.steps, q)]
          /\ fetched.all \subseteq f.all /\ f.all \subseteq V
          /\ Distinct(q) /\ Range(StepSecrets(p, k)) \subseteq Range(q) /\ Range(q) \subseteq f.all
    <3>1. k \in DOMAIN AllSources(p) /\ StepSecrets(p, k) \in Seq(V)
      BY <1>1, <1>3
    <3>2. PICK q \in Seq(V) : Fetched(p, k, V, fetched, f, q)
      BY <2>1, <2>2, <3>1, FetchIs, Zenon
    <3> HIDE DEF f
    <3> QED BY <3>2, Zenon DEF Fetched
  <2> HIDE DEF f
  <2>4. f.steps = Append(fetched.steps, q)
    BY <2>3
  <2>5. f \in [all : SUBSET V, steps : Seq(Seq(V))]
    <3> DEFINE W == Seq(V)
               r == fetched.steps
    <3>1. r \in Seq(W) /\ q \in W
      BY <2>1
    <3> HIDE DEF W, r
    <3>2. Append(r, q) \in Seq(W)
      BY <3>1, RangeOfAppend
    <3>3. PICK all \in SUBSET V : f = [all |-> all, steps |-> Append(r, q)]
      BY <2>3 DEF r
    <3>4. f \in [all : SUBSET V, steps : Seq(W)]
      BY <3>2, <3>3
    <3> QED BY <3>4 DEF W
  <2>6. p.setting.netrc => Range(NetrcSecrets) \subseteq f.all
    BY <2>1, <2>3
  <2>7. Range(StepSecrets(p, k)) \subseteq f.all
    BY <2>3
  <2>8. f \in U
    BY <2>5, <2>6 DEF U
  <2> QED BY <2>3, <2>4, <2>7, <2>8 DEF f
<1> HIDE DEF U
<1>6. /\ step \in [U \X (1 .. n) -> U]
      /\ \A fetched \in U, k \in 1 .. n : step[<<fetched, k>>] = FetchSecrets(p, fetched, k)
  <2>1. ASSUME NEW fetched \in U, NEW k \in 1 .. n PROVE FetchSecrets(p, fetched, k) \in U
    BY <1>5
  <2> QED BY <2>1
<1> HIDE DEF step
<1>7. \E g : g = next(g)
  <2>1. PICK g : Loop(U, n, base, step, g)
    <3> HIDE DEF n
    <3> QED BY <1>1, <1>4, <1>6, LoopIs
  <2>2. g \in [0 .. n -> U] /\ g[0] = base /\ \A k \in 1 .. n : g[k] = step[<<g[k - 1], k>>]
    BY <2>1 DEF Loop
  <2>3. ASSUME NEW k \in 1 .. n PROVE g[k] = FetchSecrets(p, g[k - 1], k)
    <3>1. k - 1 \in 0 .. n
      BY <1>1
    <3>2. g[k - 1] \in U
      BY <2>2, <3>1
    <3> QED BY <1>6, <2>2, <3>2
  <2>4. g = next(g)
    BY <1>1, <2>2, <2>3
  <2> QED BY <2>4
<1>8. h = next(h)
  <2> HIDE DEF next
  <2> QED BY <1>7
<1> HIDE DEF h
<1>9. h[0] = base /\ \A k \in 1 .. n : h[k] = FetchSecrets(p, h[k - 1], k)
  <2>1. \A k \in 0 .. n : next(h)[k] = IF k = 0 THEN base ELSE FetchSecrets(p, h[k - 1], k)
    OBVIOUS
  <2> HIDE DEF next
  <2> QED BY <1>1, <1>8, <2>1
<1> HIDE DEF next
<1> DEFINE S == {k \in 0 .. n : h[k] \in U /\ Len(h[k].steps) = k /\ \A j \in 1 .. k : Masks(p, h[k], j)}
<1>10. \A k \in 0 .. n : k \in S
  <2>1. 0 \in S
    BY <1>1, <1>4, <1>9
  <2>2. ASSUME NEW k \in 1 .. n, k - 1 \in S PROVE k \in S
    <3> DEFINE f == h[k - 1]
               e == h[k]
    <3>1. f \in U /\ Len(f.steps) = k - 1 /\ \A j \in 1 .. k - 1 : Masks(p, f, j)
      BY <2>2
    <3>2. e = FetchSecrets(p, f, k)
      BY <1>9
    <3> HIDE DEF f, e
    <3>3. PICK q \in Seq(V) :
            /\ e \in U /\ e.steps = Append(f.steps, q) /\ f.all \subseteq e.all
            /\ Distinct(q) /\ Range(StepSecrets(p, k)) \subseteq Range(q)
            /\ Range(StepSecrets(p, k)) \subseteq e.all
      BY <1>5, <3>1, <3>2
    <3>4. f.steps \in Seq(Seq(V))
      BY <3>1 DEF U
    <3>5. /\ Len(e.steps) = k /\ e.steps[k] = q
          /\ \A j \in 1 .. k - 1 : e.steps[j] = f.steps[j]
      <4> DEFINE W == Seq(V)
                 r == f.steps
      <4>1. r \in Seq(W) /\ q \in W /\ Len(r) = k - 1 /\ e.steps = Append(r, q)
        BY <3>1, <3>3, <3>4
      <4> HIDE DEF W, r
      <4>2. /\ Len(r) \in Nat /\ Len(Append(r, q)) = Len(r) + 1 /\ Append(r, q)[Len(r) + 1] = q
            /\ \A j \in 1 .. Len(r) : Append(r, q)[j] = r[j]
        BY <4>1, RangeOfAppend
      <4>3. k - 1 + 1 = k
        BY <1>1
      <4> QED BY <4>1, <4>2, <4>3 DEF r
    <3>6. ASSUME NEW j \in 1 .. k PROVE Masks(p, e, j)
      <4>1. CASE j = k
        BY <3>3, <3>5, <4>1 DEF Masks
      <4>2. CASE j # k
        <5>1. j \in 1 .. k - 1
          BY <1>1, <4>2
        <5>2. Masks(p, f, j) /\ e.steps[j] = f.steps[j]
          BY <3>1, <3>5, <5>1
        <5> QED BY <3>3, <5>2 DEF Masks
      <4> QED BY <4>1, <4>2
    <3>7. h[k] \in U /\ Len(h[k].steps) = k /\ \A j \in 1 .. k : Masks(p, h[k], j)
      BY <3>3, <3>5, <3>6, Zenon DEF e
    <3> QED BY <1>1, <3>7
  <2> HIDE DEF S
  <2> QED BY <1>1, <2>1, <2>2, Induction
<1> QED
  <2>1. n \in S /\ i \in 1 .. n
    BY <1>1, <1>10
  <2> QED BY <1>2, <2>1

(* Every secret that a container's variables refer to is in the Secret     *)
(* that Setup creates with the Pod, and in its step's list of secrets,     *)
(* there once, whatever steps share it and whatever they fetched before    *)
(* (Compile, packNetrcSecrets, setNetrcSecretsToStep, toEnv, toSecret).    *)
THEOREM SecretsArriveAlways ==
  Spec => []SecretsArrive
<1>1. ExecutionInv => SecretsArrive
  <2> SUFFICES ASSUME ExecutionInv, Compiled PROVE SecretsArrive
    BY Zenon DEF SecretsArrive
  <2> DEFINE p == pipeline
             secret == ToSecret(p)
  <2>1. p \in Pipelines
    BY DEF ExecutionInv, AdmissionInv
  <2>2. ASSUME NEW pod \in Pods PROVE pod = ToPod(p) /\ secret \in Objects
    <3>1. pod \in Objects /\ pod.kind = "pods"
      BY DEF Pods
    <3>2. ~SetupRefuses(p)
      BY <3>1, ObjectsAre, Zenon
    <3>3. \/ pod \in {n \in {ToNamespace(p)} : SpecNamespaces(p).own # ""}
          \/ pod \in {n \in {ToDockerConfigSecret(p)} : HasPullSecret(p)} \/ pod \in {ToSecret(p), ToPod(p)}
      BY <3>1, <3>2, ObjectsAre, Zenon
    <3>4. ToNamespace(p).kind = "namespaces"
      BY DEF ToNamespace
    <3>5. ToDockerConfigSecret(p).kind = "secrets" /\ ToSecret(p).kind = "secrets"
      BY DEF ToDockerConfigSecret, ToSecret
    <3>6. secret \in Objects
      BY <3>2, ObjectsAre, Zenon
    <3> HIDE DEF p, secret
    <3> QED BY <3>1, <3>3, <3>4, <3>5, <3>6
  <2>3. /\ secret.kind = "secrets" /\ secret.name = ToPod(p).name /\ secret.namespace = ToPod(p).namespace
        /\ secret.keys = SpecSecrets(p).all
    BY DEF ToSecret, ToPod
  <2> HIDE DEF secret
  <2>4. ASSUME NEW pod \in Pods, NEW part \in {pod.containers, pod.initContainers}, NEW i \in DOMAIN part
        PROVE  i \in DOMAIN AllSources(p) /\ part[i].keys = Range(StepSecrets(p, i))
    <3>1. part = ToContainers(p) \/ part = ToInitContainers(p)
      BY <2>2 DEF ToPod
    <3>2. DOMAIN Sources(p) \subseteq DOMAIN AllSources(p)
      BY <2>1, SourcesAre
    <3> HIDE DEF p
    <3>3. i \in DOMAIN AllSources(p) /\ part[i] = ToContainer(p, i)
      BY <3>1, <3>2 DEF ToContainers, ToInitContainers
    <3> QED BY <3>3 DEF ToContainer, ToEnv
  <2>5. ASSUME NEW pod \in Pods, NEW part \in {pod.containers, pod.initContainers}, NEW i \in DOMAIN part
        PROVE  LET masked == SpecSecrets(p).steps[i]
               IN  /\ \E o \in Objects : o.kind = "secrets" /\ o.name = pod.name /\ o.namespace = pod.namespace
                                           /\ part[i].keys \subseteq o.keys
                   /\ \A s \in part[i].keys : \E j \in DOMAIN masked : masked[j] = s
                   /\ \A j, k \in DOMAIN masked : masked[j] = masked[k] => j = k
    <3> DEFINE fetched == SpecSecrets(p)
    <3>1. i \in DOMAIN AllSources(p) /\ part[i].keys = Range(StepSecrets(p, i))
      BY <2>4, <2>5
    <3>2. Masks(p, fetched, i)
      BY <2>1, <3>1, SpecSecretsAre
    <3>3. secret \in Objects /\ secret.name = pod.name /\ secret.namespace = pod.namespace
      BY <2>2, <2>3
    <3> HIDE DEF fetched
    <3>4. /\ part[i].keys \subseteq fetched.all /\ Distinct(fetched.steps[i])
          /\ part[i].keys \subseteq Range(fetched.steps[i])
      BY <3>1, <3>2 DEF Masks
    <3>5. \A s \in part[i].keys : \E j \in DOMAIN fetched.steps[i] : fetched.steps[i][j] = s
      BY <3>4 DEF Range
    <3>6. secret.kind = "secrets" /\ part[i].keys \subseteq secret.keys
      BY <2>3, <3>4 DEF fetched
    <3> QED BY <3>3, <3>4, <3>5, <3>6, Zenon DEF fetched, Distinct
  <2> QED BY <2>5, Zenon DEF SecretsArrive
<1> QED BY <1>1, ExecutionIsInvariant, PTL
=============================================================================
