--------------------------- MODULE ExecutionProofs ---------------------------
(***************************************************************************)
(* Steps run in the order of their pipeline, none is left behind, and      *)
(* cleanup does not come to a step that is to run, whatever the pipelines  *)
(* are.                                                                    *)
(***************************************************************************)
EXTENDS ExecutionInvariant, SequenceTheorems, FiniteSetTheorems, WellFoundedInduction, TLAPS

-----------------------------------------------------------------------------
(* The steps of the Spec in terms of those of the pipeline. *)

LEMMA ConcatIs ==
  ASSUME NEW S, NEW T, NEW s \in Seq(S), NEW t \in Seq(T)
  PROVE  /\ s \o t \in Seq(S \cup T)
         /\ Len(s) \in Nat /\ Len(t) \in Nat /\ Len(s \o t) = Len(s) + Len(t)
         /\ DOMAIN (s \o t) = 1 .. Len(s) + Len(t)
         /\ \A i \in 1 .. Len(s) : (s \o t)[i] = s[i]
         /\ \A i \in 1 .. Len(t) : (s \o t)[i + Len(s)] = t[i]
<1>1. s \in Seq(S \cup T) /\ t \in Seq(S \cup T)
  OBVIOUS
<1>2. s \o t \in Seq(S \cup T) /\ Len(s \o t) = Len(s) + Len(t)
  BY <1>1, ConcatProperties
<1>3. DOMAIN (s \o t) = 1 .. Len(s \o t) /\ Len(s) \in Nat /\ Len(t) \in Nat
  BY <1>2
<1>4. \A i \in 1 .. Len(s) + Len(t) : (s \o t)[i] = IF i <= Len(s) THEN s[i] ELSE t[i - Len(s)]
  BY <1>1, ConcatProperties
<1>5. ASSUME NEW i \in 1 .. Len(s) PROVE (s \o t)[i] = s[i]
  BY <1>3, <1>4
<1>6. ASSUME NEW i \in 1 .. Len(t) PROVE (s \o t)[i + Len(s)] = t[i]
  <2>1. i + Len(s) \in 1 .. Len(s) + Len(t) /\ ~(i + Len(s) <= Len(s)) /\ i + Len(s) - Len(s) = i
    BY <1>3
  <2> QED BY <1>4, <2>1
<1> QED BY <1>2, <1>3, <1>5, <1>6

LEMMA FunctionIs ==
  ASSUME NEW n \in Nat, NEW S, NEW s \in [1 .. n -> S]
  PROVE  s \in Seq(S) /\ Len(s) = n
OBVIOUS

(* The position after which the steps of the source follow. *)
Offset(p) == IF p.clone THEN 1 ELSE 0

LEMMA CreatedAre ==
  ASSUME NEW p \in Pipelines
  PROVE  /\ Len(SourceSteps(p)) \in Nat /\ DOMAIN SourceSteps(p) = 1 .. Len(SourceSteps(p))
         /\ DOMAIN CreateSteps(p) = 1 .. Offset(p) + Len(SourceSteps(p))
         /\ Len(CreateSteps(p)) = Offset(p) + Len(SourceSteps(p))
         /\ \E S : CreateSteps(p) \in Seq(S)
         /\ p.clone => CreateSteps(p)[1] = CloneStep
         /\ \A i \in 1 .. Len(SourceSteps(p)) :
              /\ CreateSteps(p)[i + Offset(p)].name = SourceSteps(p)[i].name
              /\ CreateSteps(p)[i + Offset(p)].deps = SourceSteps(p)[i].deps
              /\ CreateSteps(p)[i + Offset(p)].limit = SourceSteps(p)[i].limit
              /\ {"name", "deps", "limit"} \subseteq DOMAIN CreateSteps(p)[i + Offset(p)]
<1> DEFINE first  == IF p.clone THEN <<CloneStep>> ELSE <<>>
           second == [i \in DOMAIN p.services |-> CreateStep(p.services[i], TRUE)]
           third  == [i \in DOMAIN p.steps |-> CreateStep(p.steps[i], p.steps[i].detach)]
           fore   == first \o second
           k == Len(first)
           m == Len(second)
           n == Len(third)
<1>1. PICK S, T : p.services \in Seq(S) /\ p.steps \in Seq(T)
  BY PipelinesAssumption DEF IsSequence
<1>2. /\ Len(p.services) \in Nat /\ DOMAIN p.services = 1 .. Len(p.services)
      /\ Len(p.steps) \in Nat /\ DOMAIN p.steps = 1 .. Len(p.steps)
  BY <1>1
<1>3. \E A : first \in Seq(A) /\ k = Offset(p) /\ (p.clone => first[1] = CloneStep)
  <2>1. CASE p.clone
    <3>1. first = <<CloneStep>>
      BY <2>1
    <3>2. first \in Seq({CloneStep}) /\ Len(first) = 1 /\ first[1] = CloneStep
      BY <3>1
    <3> QED BY <2>1, <3>2 DEF Offset
  <2>2. CASE ~p.clone
    <3>1. first = <<>>
      BY <2>2
    <3>2. first \in Seq({}) /\ Len(first) = 0
      BY <3>1
    <3> QED BY <2>2, <3>2 DEF Offset
  <2> QED BY <2>1, <2>2, PipelinesAssumption
<1>4. \E B : second \in Seq(B) /\ m = Len(p.services)
  <2>1. second \in [1 .. Len(p.services) -> {second[i] : i \in 1 .. Len(p.services)}]
    BY <1>2
  <2> HIDE DEF second
  <2> QED BY <1>2, <2>1, FunctionIs
<1>5. \E C : third \in Seq(C) /\ n = Len(p.steps)
  <2>1. third \in [1 .. Len(p.steps) -> {third[i] : i \in 1 .. Len(p.steps)}]
    BY <1>2
  <2> HIDE DEF third
  <2> QED BY <1>2, <2>1, FunctionIs
<1>6. /\ \A i \in 1 .. m : second[i] = CreateStep(p.services[i], TRUE)
      /\ \A i \in 1 .. n : third[i] = CreateStep(p.steps[i], p.steps[i].detach)
  BY <1>2, <1>4, <1>5
<1>7. CreateSteps(p) = fore \o third
  BY DEF CreateSteps
<1> HIDE DEF first, second, third
<1>8. /\ k \in Nat /\ m \in Nat /\ Len(fore) = k + m
      /\ \E U : fore \in Seq(U)
      /\ \A i \in 1 .. k : fore[i] = first[i]
      /\ \A i \in 1 .. m : fore[i + k] = second[i]
  <2>1. PICK A, B : first \in Seq(A) /\ second \in Seq(B)
    BY <1>3, <1>4
  <2>2. fore \in Seq(A \cup B)
    BY <2>1, ConcatIs
  <2> QED BY <2>1, <2>2, ConcatIs
<1> HIDE DEF fore, k, m, n
<1>9. /\ n \in Nat /\ Len(CreateSteps(p)) = (k + m) + n /\ DOMAIN CreateSteps(p) = 1 .. (k + m) + n
      /\ \E V : CreateSteps(p) \in Seq(V)
      /\ \A i \in 1 .. k + m : CreateSteps(p)[i] = fore[i]
      /\ \A i \in 1 .. n : CreateSteps(p)[i + (k + m)] = third[i]
  <2>1. PICK U, C : fore \in Seq(U) /\ third \in Seq(C)
    BY <1>5, <1>8
  <2>2. /\ Len(third) \in Nat /\ Len(fore \o third) = Len(fore) + Len(third)
        /\ DOMAIN (fore \o third) = 1 .. Len(fore) + Len(third)
        /\ \A i \in 1 .. Len(fore) : (fore \o third)[i] = fore[i]
        /\ \A i \in 1 .. Len(third) : (fore \o third)[i + Len(fore)] = third[i]
        /\ fore \o third \in Seq(U \cup C)
    BY <2>1, ConcatIs
  <2> QED BY <1>7, <1>8, <2>2 DEF n
<1>10. /\ Len(SourceSteps(p)) = m + n /\ DOMAIN SourceSteps(p) = 1 .. m + n
       /\ \A i \in 1 .. m : SourceSteps(p)[i] = p.services[i]
       /\ \A i \in 1 .. n : SourceSteps(p)[i + m] = p.steps[i]
  <2>1. /\ Len(SourceSteps(p)) = Len(p.services) + Len(p.steps)
        /\ DOMAIN SourceSteps(p) = 1 .. Len(p.services) + Len(p.steps)
        /\ \A i \in 1 .. Len(p.services) : SourceSteps(p)[i] = p.services[i]
        /\ \A i \in 1 .. Len(p.steps) : SourceSteps(p)[i + Len(p.services)] = p.steps[i]
    <3> DEFINE a == p.services
               b == p.steps
    <3>1. a \in Seq(S) /\ b \in Seq(T) /\ SourceSteps(p) = a \o b
      BY <1>1 DEF SourceSteps
    <3> HIDE DEF a, b
    <3>2. /\ Len(a \o b) = Len(a) + Len(b) /\ DOMAIN (a \o b) = 1 .. Len(a) + Len(b)
          /\ \A i \in 1 .. Len(a) : (a \o b)[i] = a[i]
          /\ \A i \in 1 .. Len(b) : (a \o b)[i + Len(a)] = b[i]
      BY <3>1, ConcatIs
    <3> QED BY <3>1, <3>2 DEF a, b
  <2> QED BY <1>4, <1>5, <2>1
<1>11. k + (m + n) = (k + m) + n /\ m + n \in Nat
  BY <1>8, <1>9
<1>12. ASSUME p.clone PROVE CreateSteps(p)[1] = CloneStep
  <2>1. k = 1
    BY <1>3, <1>12 DEF Offset
  <2>2. 1 \in 1 .. k /\ 1 \in 1 .. k + m
    BY <1>8, <2>1
  <2> QED BY <1>3, <1>8, <1>9, <1>12, <2>2
<1>13. ASSUME NEW i \in 1 .. m + n
       PROVE  /\ CreateSteps(p)[i + k].name = SourceSteps(p)[i].name
              /\ CreateSteps(p)[i + k].deps = SourceSteps(p)[i].deps
              /\ CreateSteps(p)[i + k].limit = SourceSteps(p)[i].limit
              /\ {"name", "deps", "limit"} \subseteq DOMAIN CreateSteps(p)[i + k]
  <2>1. CASE i \in 1 .. m
    <3>1. i + k \in 1 .. k + m
      BY <1>8, <2>1
    <3>2. CreateSteps(p)[i + k] = CreateStep(p.services[i], TRUE)
      BY <1>6, <1>8, <1>9, <2>1, <3>1
    <3> QED BY <1>10, <2>1, <3>2 DEF CreateStep
  <2>2. CASE i \notin 1 .. m
    <3>1. PICK j \in 1 .. n : i = j + m
      <4>1. i - m \in 1 .. n /\ i = (i - m) + m
        BY <1>8, <1>9, <2>2
      <4> QED BY <4>1
    <3>2. i + k = j + (k + m)
      BY <1>8, <1>9, <3>1
    <3>3. CreateSteps(p)[i + k] = CreateStep(p.steps[j], p.steps[j].detach)
      BY <1>6, <1>9, <3>2
    <3> QED BY <1>10, <3>1, <3>3 DEF CreateStep
  <2> QED BY <2>1, <2>2
<1> QED BY <1>3, <1>9, <1>10, <1>11, <1>12, <1>13

LEMMA Shifted ==
  ASSUME NEW p \in Pipelines, NEW i \in DOMAIN CreateSteps(p)
  PROVE  \/ p.clone /\ i = 1 /\ CreateSteps(p)[i] = CloneStep
         \/ \E h \in 1 .. Len(SourceSteps(p)) :
              /\ i = h + Offset(p)
              /\ CreateSteps(p)[i].name = SourceSteps(p)[h].name
              /\ CreateSteps(p)[i].deps = SourceSteps(p)[h].deps
              /\ CreateSteps(p)[i].limit = SourceSteps(p)[h].limit
              /\ {"name", "deps", "limit"} \subseteq DOMAIN CreateSteps(p)[i]
<1>1. Offset(p) \in {0, 1} /\ (Offset(p) = 1 => p.clone)
  BY PipelinesAssumption DEF Offset
<1>2. /\ i \in 1 .. Offset(p) + Len(SourceSteps(p)) /\ Len(SourceSteps(p)) \in Nat
      /\ p.clone => CreateSteps(p)[1] = CloneStep
  BY CreatedAre
<1>3. CASE i <= Offset(p)
  BY <1>1, <1>2, <1>3
<1>4. CASE ~(i <= Offset(p))
  <2>1. PICK h \in 1 .. Len(SourceSteps(p)) : i = h + Offset(p)
    <3>1. i - Offset(p) \in 1 .. Len(SourceSteps(p)) /\ i = (i - Offset(p)) + Offset(p)
      BY <1>1, <1>2, <1>4
    <3> QED BY <3>1
  <2> QED BY <2>1, CreatedAre
<1> QED BY <1>3, <1>4

LEMMA NamesBeforeAre ==
  ASSUME NEW p \in Pipelines, NEW h \in 1 .. Len(SourceSteps(p))
  PROVE  \A n : n \in NamesBefore(p, h)
                 <=> \E j \in 1 .. h + Offset(p) - 1 : n = CreateSteps(p)[j].name
<1>1. Offset(p) \in {0, 1} /\ (Offset(p) = 1 <=> p.clone) /\ Len(SourceSteps(p)) \in Nat
  BY PipelinesAssumption, CreatedAre DEF Offset
<1>2. ASSUME NEW j \in 1 .. h - 1
      PROVE  /\ j + Offset(p) \in 1 .. h + Offset(p) - 1
             /\ CreateSteps(p)[j + Offset(p)].name = SourceSteps(p)[j].name
  <2>1. j \in 1 .. Len(SourceSteps(p))
    BY <1>1
  <2> QED BY <1>1, <2>1, CreatedAre
<1>3. ASSUME p.clone PROVE 1 \in 1 .. h + Offset(p) - 1 /\ CreateSteps(p)[1].name = "clone"
  <2>1. Offset(p) = 1 /\ h \in Int /\ h >= 1
    BY <1>1, <1>3
  <2>2. 1 \in 1 .. h + Offset(p) - 1
    BY <2>1
  <2>3. CreateSteps(p)[1] = CloneStep
    BY <1>3, CreatedAre
  <2> QED BY <2>2, <2>3 DEF CloneStep
<1>4. ASSUME NEW j \in 1 .. h + Offset(p) - 1 PROVE CreateSteps(p)[j].name \in NamesBefore(p, h)
  <2>1. j \in DOMAIN CreateSteps(p)
    <3>1. j \in 1 .. Offset(p) + Len(SourceSteps(p))
      BY <1>1
    <3> QED BY <3>1, CreatedAre
  <2>2. CASE p.clone /\ CreateSteps(p)[j] = CloneStep
    BY <2>2 DEF NamesBefore, CloneStep
  <2>3. CASE \E g \in 1 .. Len(SourceSteps(p)) :
               j = g + Offset(p) /\ CreateSteps(p)[j].name = SourceSteps(p)[g].name
    <3>1. PICK g \in 1 .. Len(SourceSteps(p)) :
            j = g + Offset(p) /\ CreateSteps(p)[j].name = SourceSteps(p)[g].name
      BY <2>3
    <3>2. g \in 1 .. h - 1
      BY <1>1, <3>1
    <3> QED BY <3>1, <3>2 DEF NamesBefore
  <2> QED BY <2>1, <2>2, <2>3, Shifted
<1>5. ASSUME NEW n \in NamesBefore(p, h)
      PROVE  \E j \in 1 .. h + Offset(p) - 1 : n = CreateSteps(p)[j].name
  <2>1. CASE n = "clone" /\ p.clone
    BY <1>3, <2>1
  <2>2. CASE \E j \in 1 .. h - 1 : n = SourceSteps(p)[j].name
    BY <1>2, <2>2
  <2> QED BY <2>1, <2>2 DEF NamesBefore
<1> QED BY <1>4, <1>5

(* What the linter admits: names of its own for each step, that refer to   *)
(* steps above only.                                                       *)
LEMMA LintedAre ==
  ASSUME NEW p \in Pipelines, Lint(p), NEW i \in DOMAIN CreateSteps(p)
  PROVE  /\ \A n \in CreateSteps(p)[i].deps : \E j \in 1 .. i - 1 : n = CreateSteps(p)[j].name
         /\ \A j \in 1 .. i - 1 : CreateSteps(p)[j].name # CreateSteps(p)[i].name
<1>1. CASE i = 1 /\ CreateSteps(p)[i] = CloneStep
  BY <1>1 DEF CloneStep
<1>2. ASSUME NEW h \in 1 .. Len(SourceSteps(p)),
             i = h + Offset(p), CreateSteps(p)[i].name = SourceSteps(p)[h].name,
             CreateSteps(p)[i].deps = SourceSteps(p)[h].deps
      PROVE  /\ \A n \in CreateSteps(p)[i].deps : \E j \in 1 .. i - 1 : n = CreateSteps(p)[j].name
             /\ \A j \in 1 .. i - 1 : CreateSteps(p)[j].name # CreateSteps(p)[i].name
  <2>1. SourceSteps(p)[h].name \notin NamesBefore(p, h) /\ SourceSteps(p)[h].deps \subseteq NamesBefore(p, h)
    BY DEF Lint, CheckSteps, CheckDeps
  <2>2. \A n : n \in NamesBefore(p, h) <=> \E j \in 1 .. i - 1 : n = CreateSteps(p)[j].name
    <3>1. h + Offset(p) - 1 = i - 1
      <4>1. Offset(p) \in Int /\ h \in Int
        BY PipelinesAssumption DEF Offset
      <4> QED BY <1>2, <4>1
    <3>2. \A n : n \in NamesBefore(p, h) <=> \E j \in 1 .. h + Offset(p) - 1 : n = CreateSteps(p)[j].name
      BY NamesBeforeAre
    <3> QED BY <3>1, <3>2
  <2>3. \A j \in 1 .. i - 1 : CreateSteps(p)[j].name # CreateSteps(p)[i].name
    BY <1>2, <2>1, <2>2
  <2> QED BY <1>2, <2>1, <2>2, <2>3
<1> QED BY <1>1, <1>2, Shifted

-----------------------------------------------------------------------------
(* The dependencies the compiler completes. *)

HasClone(steps) == \E j \in DOMAIN steps : steps[j].name = "clone"

LEMMA ConfiguredAre ==
  ASSUME NEW p, p.clone \in BOOLEAN,
         NEW c, \A i \in DOMAIN c : {"name", "deps", "limit"} \subseteq DOMAIN c[i]
  PROVE  /\ DOMAIN ConfigureDeps(p, c) = DOMAIN c
         /\ \A i \in DOMAIN c : ConfigureDeps(p, c)[i].name = c[i].name /\ ConfigureDeps(p, c)[i].limit = c[i].limit
         /\ ~IsGraph(c) =>
              \A i \in DOMAIN c :
                /\ i = 1 => ConfigureDeps(p, c)[i].deps = c[i].deps
                /\ i # 1 => ConfigureDeps(p, c)[i].deps = {c[i - 1].name}
         /\ IsGraph(c) /\ p.clone =>
              \A i \in DOMAIN c :
                /\ c[i].name # "clone" /\ c[i].deps = {} => ConfigureDeps(p, c)[i].deps = {"clone"}
                /\ c[i].name = "clone" \/ c[i].deps # {} => ConfigureDeps(p, c)[i].deps = c[i].deps
         /\ IsGraph(c) /\ ~p.clone =>
              \A i \in DOMAIN c :
                /\ ~HasClone(c) /\ c[i].deps = {"clone"} => ConfigureDeps(p, c)[i].deps = {}
                /\ HasClone(c) \/ c[i].deps # {"clone"} => ConfigureDeps(p, c)[i].deps = c[i].deps
<1>1. ASSUME NEW i \in DOMAIN c, NEW D
      PROVE  /\ [c[i] EXCEPT !.deps = D].name = c[i].name /\ [c[i] EXCEPT !.deps = D].deps = D
             /\ [c[i] EXCEPT !.deps = D].limit = c[i].limit
  OBVIOUS
<1>2. CASE ~IsGraph(c)
  <2>1. ConfigureDeps(p, c) =
          [j \in DOMAIN c |-> IF j = 1 THEN c[j] ELSE [c[j] EXCEPT !.deps = {c[j - 1].name}]]
    BY <1>2 DEF ConfigureDeps, ConfigureSerial
  <2> QED BY <1>1, <1>2, <2>1
<1>3. CASE IsGraph(c) /\ p.clone
  <2>1. ConfigureDeps(p, c) =
          [j \in DOMAIN c |-> IF c[j].name # "clone" /\ c[j].deps = {}
                               THEN [c[j] EXCEPT !.deps = {"clone"}] ELSE c[j]]
    BY <1>3 DEF ConfigureDeps, ConfigureCloneDeps
  <2> QED BY <1>1, <1>3, <2>1
<1>4. CASE IsGraph(c) /\ ~p.clone /\ HasClone(c)
  <2>1. ConfigureDeps(p, c) = c
    BY <1>4 DEF ConfigureDeps, RemoveCloneDeps, HasClone
  <2> QED BY <1>4, <2>1
<1>5. CASE IsGraph(c) /\ ~p.clone /\ ~HasClone(c)
  <2>1. ConfigureDeps(p, c) =
          [j \in DOMAIN c |-> IF c[j].deps = {"clone"} THEN [c[j] EXCEPT !.deps = {}] ELSE c[j]]
    BY <1>5 DEF ConfigureDeps, RemoveCloneDeps, HasClone
  <2> QED BY <1>1, <1>5, <2>1
<1> QED BY <1>2, <1>3, <1>4, <1>5

LEMMA DistributedAre ==
  ASSUME NEW p, NEW d
  PROVE  /\ DOMAIN Distribute(p, d) = DOMAIN d
         /\ \A i \in DOMAIN d : Distribute(p, d)[i].name = d[i].name /\ Distribute(p, d)[i].deps = d[i].deps
BY DEF Distribute

LEMMA CompiledAre ==
  ASSUME NEW p \in Pipelines
  PROVE  /\ DOMAIN Compile(p) = DOMAIN CreateSteps(p)
         /\ \A i \in DOMAIN CreateSteps(p) :
              /\ Compile(p)[i].name = CreateSteps(p)[i].name
              /\ Compile(p)[i].deps = ConfigureDeps(p, CreateSteps(p))[i].deps
<1> DEFINE c == CreateSteps(p)
           d == ConfigureDeps(p, c)
<1>1. ASSUME NEW i \in DOMAIN c PROVE {"name", "deps", "limit"} \subseteq DOMAIN c[i]
  BY Shifted DEF CloneStep
<1>2. p.clone \in BOOLEAN /\ Compile(p) = Distribute(p, d)
  BY PipelinesAssumption DEF Compile
<1> HIDE DEF c
<1>3. DOMAIN d = DOMAIN c /\ \A i \in DOMAIN c : d[i].name = c[i].name
  BY <1>1, <1>2, ConfiguredAre
<1>4. \A i \in DOMAIN d : Compile(p)[i].name = d[i].name /\ Compile(p)[i].deps = d[i].deps
  BY <1>2, DistributedAre
<1>5. DOMAIN Compile(p) = DOMAIN d
  BY <1>2, DistributedAre
<1> QED BY <1>3, <1>4, <1>5 DEF c

-----------------------------------------------------------------------------
(* The steps of the stage, and what they wait for. *)

CompiledStage == pipeline \in Pipelines /\ Admitted /\ spec = Compile(pipeline)

LEMMA PositionsAre ==
  ASSUME CompiledStage
  PROVE  /\ DOMAIN spec = DOMAIN CreateSteps(pipeline) /\ DOMAIN spec \subseteq Nat \ {0}
         /\ \A i \in DOMAIN spec : spec[i].name = CreateSteps(pipeline)[i].name
         /\ \A i \in DOMAIN spec : \A j \in Nat \ {0} : j <= i => j \in DOMAIN spec
<1>1. DOMAIN spec = DOMAIN CreateSteps(pipeline)
      /\ \A i \in DOMAIN spec : spec[i].name = CreateSteps(pipeline)[i].name
  BY CompiledAre DEF CompiledStage
<1>2. PICK N \in Nat : DOMAIN spec = 1 .. N
  <2>1. Offset(pipeline) + Len(SourceSteps(pipeline)) \in Nat
    BY CreatedAre DEF CompiledStage, Offset
  <2> QED BY <1>1, <2>1, CreatedAre DEF CompiledStage
<1> QED BY <1>1, <1>2

LEMMA UniquePositions ==
  ASSUME CompiledStage, NEW i \in DOMAIN spec, NEW j \in DOMAIN spec, spec[j].name = spec[i].name
  PROVE  j = i
<1>1. ASSUME NEW l \in DOMAIN spec, NEW k \in DOMAIN spec, spec[l].name = spec[k].name, l < k PROVE FALSE
  <2>1. l \in 1 .. k - 1 /\ k \in DOMAIN CreateSteps(pipeline)
    BY <1>1, PositionsAre
  <2>2. CreateSteps(pipeline)[l].name # CreateSteps(pipeline)[k].name
    BY <2>1, LintedAre DEF CompiledStage, Admitted
  <2> QED BY <1>1, <2>2, PositionsAre
<1>2. i \in Int /\ j \in Int
  BY PositionsAre
<1> QED BY <1>1, <1>2

LEMMA StepAtIs ==
  ASSUME CompiledStage, NEW i \in DOMAIN spec
  PROVE  spec[i].name \in StepNames /\ StepAt(spec[i].name) = spec[i]
<1>1. (CHOOSE j \in DOMAIN spec : spec[j].name = spec[i].name) = i
  BY UniquePositions
<1> QED BY <1>1 DEF StepNames, StepAt

(* The compiler adds no dependency but on a step above. *)
LEMMA DependenciesAbove ==
  ASSUME CompiledStage, NEW i \in DOMAIN spec, NEW m \in spec[i].deps
  PROVE  \E j \in DOMAIN spec : j < i /\ m = spec[j].name
<1> DEFINE c == CreateSteps(pipeline)
<1>0. pipeline.clone \in BOOLEAN
  BY PipelinesAssumption DEF CompiledStage
<1>1. ASSUME NEW x \in DOMAIN c PROVE {"name", "deps", "limit"} \subseteq DOMAIN c[x]
  BY Shifted DEF CloneStep, CompiledStage
<1>2. spec[i].deps = ConfigureDeps(pipeline, c)[i].deps /\ i \in DOMAIN c /\ i \in Nat \ {0}
  BY CompiledAre, PositionsAre DEF CompiledStage
<1>3. CASE m \in c[i].deps
  <2>1. PICK j \in 1 .. i - 1 : m = c[j].name
    BY <1>2, <1>3, LintedAre DEF CompiledStage, Admitted
  <2>2. j \in DOMAIN spec /\ j < i
    BY <1>2, <2>1, PositionsAre
  <2> QED BY <2>1, <2>2, PositionsAre
<1>4. CASE i # 1 /\ m = c[i - 1].name
  <2>1. i - 1 \in DOMAIN spec /\ i - 1 < i
    BY <1>2, <1>4, PositionsAre
  <2> QED BY <1>4, <2>1, PositionsAre
<1>5. CASE pipeline.clone /\ m = "clone" /\ c[i].name # "clone"
  <2>1. c[1].name = "clone"
    BY <1>5, CreatedAre DEF CloneStep, CompiledStage
  <2>2. 1 \in DOMAIN spec /\ 1 < i
    BY <1>2, <1>5, <2>1, PositionsAre
  <2> QED BY <1>5, <2>1, <2>2, PositionsAre
<1>6. \/ m \in c[i].deps \/ (i # 1 /\ m = c[i - 1].name)
      \/ pipeline.clone /\ m = "clone" /\ c[i].name # "clone"
  <2> HIDE DEF c
  <2>1. CASE ~IsGraph(c)
    <3>1. /\ i = 1 => ConfigureDeps(pipeline, c)[i].deps = c[i].deps
          /\ i # 1 => ConfigureDeps(pipeline, c)[i].deps = {c[i - 1].name}
      BY <1>0, <1>1, <1>2, <2>1, ConfiguredAre
    <3> QED BY <1>2, <3>1
  <2>2. CASE IsGraph(c)
    BY <1>0, <1>1, <1>2, <2>2, ConfiguredAre
  <2> QED BY <2>1, <2>2
<1> QED BY <1>3, <1>4, <1>5, <1>6

LEMMA AboveAre ==
  ASSUME CompiledStage, NEW i \in DOMAIN spec, NEW m
  PROVE  m \in Above(spec[i].name)
           <=> /\ m \in StepNames
               /\ \E h \in 1 .. Len(SourceSteps(pipeline)) :
                    /\ i = h + Offset(pipeline)
                    /\ \/ m \in CreateSteps(pipeline)[i].deps
                       \/ m = "clone" /\ pipeline.clone
                       \/ /\ ~IsGraph(CreateSteps(pipeline))
                          /\ \E j \in DOMAIN spec : Offset(pipeline) < j /\ j < i /\ m = spec[j].name
<1> DEFINE all == SourceSteps(pipeline)
           c   == CreateSteps(pipeline)
           k   == Offset(pipeline)
<1>1. /\ Len(all) \in Nat /\ DOMAIN all = 1 .. Len(all) /\ DOMAIN c = 1 .. k + Len(all)
      /\ \A h \in 1 .. Len(all) : c[h + k].name = all[h].name /\ c[h + k].deps = all[h].deps
      /\ pipeline.clone => c[1] = CloneStep
  BY CreatedAre DEF CompiledStage
<1>2. k \in {0, 1} /\ (k = 1 <=> pipeline.clone)
  BY PipelinesAssumption DEF CompiledStage, Offset
<1>3. IsGraph(c) <=> \E h \in DOMAIN all : all[h].deps # {}
  <2>1. ASSUME NEW x \in DOMAIN c, c[x].deps # {} PROVE \E h \in DOMAIN all : all[h].deps # {}
    <3>1. CASE c[x] = CloneStep
      BY <2>1, <3>1 DEF CloneStep
    <3>2. ASSUME NEW h \in 1 .. Len(all), c[x].deps = all[h].deps PROVE \E g \in DOMAIN all : all[g].deps # {}
      BY <1>1, <2>1, <3>2
    <3> QED BY <3>1, <3>2, Shifted DEF CompiledStage
  <2>2. ASSUME NEW h \in DOMAIN all, all[h].deps # {} PROVE \E x \in DOMAIN c : c[x].deps # {}
    <3>1. h + k \in DOMAIN c
      BY <1>1, <1>2
    <3> QED BY <1>1, <2>2, <3>1
  <2> QED BY <2>1, <2>2 DEF IsGraph
<1>4. ASSUME NEW h \in DOMAIN all
      PROVE  all[h].name = spec[i].name <=> i = h + k
  <2>1. h + k \in DOMAIN spec
    BY <1>1, <1>2, PositionsAre
  <2>2. spec[h + k].name = all[h].name
    BY <1>1, <2>1, PositionsAre
  <2>3. spec[h + k].name = spec[i].name => h + k = i
    BY <2>1, UniquePositions
  <2> QED BY <2>2, <2>3
<1>5. ASSUME NEW h \in DOMAIN all, i = h + k
      PROVE  (\E j \in 1 .. h - 1 : all[j].name = m)
               <=> \E j \in DOMAIN spec : k < j /\ j < i /\ m = spec[j].name
  <2>1. ASSUME NEW j \in 1 .. h - 1, all[j].name = m
        PROVE  \E x \in DOMAIN spec : k < x /\ x < i /\ m = spec[x].name
    <3>1. j \in 1 .. Len(all) /\ j + k \in DOMAIN c /\ k < j + k /\ j + k < i
      BY <1>1, <1>2, <1>5
    <3> QED BY <1>1, <2>1, <3>1, PositionsAre
  <2>2. ASSUME NEW j \in DOMAIN spec, k < j, j < i, m = spec[j].name
        PROVE  \E x \in 1 .. h - 1 : all[x].name = m
    <3>1. j \in Nat \ {0}
      BY PositionsAre
    <3>2. j - k \in 1 .. h - 1 /\ j - k \in 1 .. Len(all) /\ (j - k) + k = j
      BY <1>1, <1>2, <1>5, <2>2, <3>1
    <3>3. all[j - k].name = c[(j - k) + k].name
      BY <1>1, <3>2
    <3> QED BY <2>2, <3>2, <3>3, PositionsAre
  <2> QED BY <2>1, <2>2
<1> HIDE DEF k, all, c
<1>6. m \in Above(spec[i].name)
        <=> /\ m \in StepNames
            /\ \E h \in DOMAIN all :
                 /\ all[h].name = spec[i].name
                 /\ \/ m \in all[h].deps \/ (m = "clone" /\ pipeline.clone)
                    \/ /\ ~\E x \in DOMAIN all : all[x].deps # {}
                       /\ \E j \in 1 .. h - 1 : all[j].name = m
  BY DEF Above, all
<1>7. ASSUME NEW h \in DOMAIN all, i = h + k PROVE all[h].deps = c[i].deps
  BY <1>1, <1>7
<1> QED BY <1>1, <1>3, <1>4, <1>5, <1>6, <1>7 DEF all, c, k

LEMMA DependenciesAre ==
  ASSUME CompiledStage, NEW i \in DOMAIN spec
  PROVE  LET c == CreateSteps(pipeline)
         IN  /\ ~IsGraph(c) =>
                  (i = 1 => spec[i].deps = c[i].deps) /\ (i # 1 => spec[i].deps = {spec[i - 1].name})
             /\ IsGraph(c) /\ pipeline.clone =>
                  /\ c[i].name # "clone" /\ c[i].deps = {} => spec[i].deps = {"clone"}
                  /\ c[i].name = "clone" \/ c[i].deps # {} => spec[i].deps = c[i].deps
             /\ IsGraph(c) /\ ~pipeline.clone =>
                  /\ ~HasClone(c) /\ c[i].deps = {"clone"} => spec[i].deps = {}
                  /\ HasClone(c) \/ c[i].deps # {"clone"} => spec[i].deps = c[i].deps
<1> DEFINE c == CreateSteps(pipeline)
<1>1. pipeline.clone \in BOOLEAN
  BY PipelinesAssumption DEF CompiledStage
<1>2. ASSUME NEW x \in DOMAIN c PROVE {"name", "deps", "limit"} \subseteq DOMAIN c[x]
  BY Shifted DEF CloneStep, CompiledStage
<1>3. spec[i].deps = ConfigureDeps(pipeline, c)[i].deps /\ i \in DOMAIN c /\ i \in Nat \ {0}
  BY CompiledAre, PositionsAre DEF CompiledStage
<1>4. i # 1 => c[i - 1].name = spec[i - 1].name
  BY PositionsAre
<1> HIDE DEF c
<1>5. ASSUME ~IsGraph(c)
      PROVE  (i = 1 => spec[i].deps = c[i].deps) /\ (i # 1 => spec[i].deps = {c[i - 1].name})
  <2>1. /\ i = 1 => ConfigureDeps(pipeline, c)[i].deps = c[i].deps
        /\ i # 1 => ConfigureDeps(pipeline, c)[i].deps = {c[i - 1].name}
    BY <1>1, <1>2, <1>3, <1>5, ConfiguredAre
  <2> QED BY <1>3, <2>1
<1>6. ASSUME IsGraph(c), pipeline.clone
      PROVE  /\ c[i].name # "clone" /\ c[i].deps = {} => spec[i].deps = {"clone"}
             /\ c[i].name = "clone" \/ c[i].deps # {} => spec[i].deps = c[i].deps
  <2>1. /\ c[i].name # "clone" /\ c[i].deps = {} => ConfigureDeps(pipeline, c)[i].deps = {"clone"}
        /\ c[i].name = "clone" \/ c[i].deps # {} => ConfigureDeps(pipeline, c)[i].deps = c[i].deps
    <3>1. ConfigureDeps(pipeline, c) = ConfigureCloneDeps(c)
      BY <1>6 DEF ConfigureDeps
    <3>2. ConfigureCloneDeps(c)[i] =
            IF c[i].name # "clone" /\ c[i].deps = {} THEN [c[i] EXCEPT !.deps = {"clone"}] ELSE c[i]
      BY <1>3 DEF ConfigureCloneDeps
    <3>3. [c[i] EXCEPT !.deps = {"clone"}].deps = {"clone"}
      BY <1>2, <1>3
    <3> QED BY <3>1, <3>2, <3>3
  <2> QED BY <1>3, <2>1
<1>7. ASSUME IsGraph(c), ~pipeline.clone
      PROVE  /\ ~HasClone(c) /\ c[i].deps = {"clone"} => spec[i].deps = {}
             /\ HasClone(c) \/ c[i].deps # {"clone"} => spec[i].deps = c[i].deps
  <2>1. /\ ~HasClone(c) /\ c[i].deps = {"clone"} => ConfigureDeps(pipeline, c)[i].deps = {}
        /\ HasClone(c) \/ c[i].deps # {"clone"} => ConfigureDeps(pipeline, c)[i].deps = c[i].deps
    BY <1>1, <1>2, <1>3, <1>7, ConfiguredAre
  <2> QED BY <1>3, <2>1
<1> QED BY <1>4, <1>5, <1>6, <1>7 DEF c

(* Waiting for its dependencies a step waits for all that the pipeline     *)
(* puts before it.                                                         *)
LEMMA AboveIsReached ==
  ASSUME CompiledStage, NEW i \in DOMAIN spec, NEW m \in Above(spec[i].name)
  PROVE  \E j \in DOMAIN spec :
           /\ spec[j].name \in spec[i].deps
           /\ m = spec[j].name \/ m \in Above(spec[j].name)
<1> DEFINE c == CreateSteps(pipeline)
           k == Offset(pipeline)
           L == Len(SourceSteps(pipeline))
<1>1. /\ L \in Nat /\ DOMAIN spec = DOMAIN c /\ DOMAIN c = 1 .. k + L
      /\ \A x \in DOMAIN spec : spec[x].name = c[x].name
      /\ pipeline.clone => c[1] = CloneStep
  BY CreatedAre, PositionsAre DEF CompiledStage
<1>2. k \in {0, 1} /\ (k = 1 <=> pipeline.clone)
  BY PipelinesAssumption DEF CompiledStage, Offset
<1>3. PICK h \in 1 .. L :
        /\ m \in StepNames /\ i = h + k
        /\ \/ m \in c[i].deps
           \/ m = "clone" /\ pipeline.clone
           \/ ~IsGraph(c) /\ \E j \in DOMAIN spec : k < j /\ j < i /\ m = spec[j].name
  BY AboveAre
<1>4. CASE m \in c[i].deps
  <2>1. IsGraph(c)
    BY <1>1, <1>4 DEF IsGraph
  <2>2. m = "clone" => HasClone(c)
    BY <1>1, <1>3 DEF StepNames, HasClone
  <2>3. m \in spec[i].deps
    <3>1. CASE pipeline.clone
      BY <1>4, <2>1, <3>1, DependenciesAre
    <3>2. CASE ~pipeline.clone
      BY <1>4, <2>1, <2>2, <3>2, DependenciesAre
    <3> QED BY <3>1, <3>2
  <2> QED BY <2>3, DependenciesAbove
<1>5. CASE m = "clone" /\ pipeline.clone
  <2>1. c[1].name = "clone" /\ k = 1 /\ i # 1 /\ 1 \in DOMAIN spec /\ spec[1].name = "clone"
    BY <1>1, <1>2, <1>3, <1>5 DEF CloneStep
  <2>2. c[i].name # "clone"
    BY <1>1, <2>1, UniquePositions
  <2>3. spec[i].deps # {}
    BY <1>5, <2>1, <2>2, DependenciesAre
  <2>4. PICK j \in DOMAIN spec : spec[j].name \in spec[i].deps
    BY <2>3, DependenciesAbove
  <2>5. CASE j = 1
    BY <1>5, <2>1, <2>4, <2>5
  <2>6. CASE j # 1
    <3>1. j - 1 \in 1 .. L /\ j = (j - 1) + k
      BY <1>1, <2>1, <2>6
    <3>2. m \in Above(spec[j].name)
      BY <1>3, <1>5, <3>1, AboveAre
    <3> QED BY <2>4, <3>2
  <2> QED BY <2>5, <2>6
<1>6. CASE ~IsGraph(c) /\ \E j \in DOMAIN spec : k < j /\ j < i /\ m = spec[j].name
  <2>1. PICK j \in DOMAIN spec : k < j /\ j < i /\ m = spec[j].name
    BY <1>6
  <2>2. /\ i # 1 /\ i - 1 \in DOMAIN spec /\ j <= i - 1
        /\ (i - 1) - k \in 1 .. L /\ i - 1 = ((i - 1) - k) + k
    BY <1>1, <1>2, <2>1
  <2>3. spec[i].deps = {spec[i - 1].name}
    BY <1>6, <2>2, DependenciesAre
  <2>4. CASE j = i - 1
    BY <2>1, <2>2, <2>3, <2>4
  <2>5. CASE j < i - 1
    <3>1. m \in Above(spec[i - 1].name)
      <4>1. i - 1 \in DOMAIN spec /\ ~IsGraph(c) /\ \E x \in DOMAIN spec : k < x /\ x < i - 1 /\ m = spec[x].name
        BY <1>6, <2>1, <2>2, <2>5
      <4>2. \E x \in 1 .. L : i - 1 = x + k
        BY <2>2
      <4> QED BY <1>3, <4>1, <4>2, AboveAre
    <3> QED BY <2>2, <2>3, <3>1
  <2> QED BY <1>1, <2>2, <2>4, <2>5
<1> QED BY <1>3, <1>4, <1>5, <1>6

-----------------------------------------------------------------------------
(* What the actions do. *)

LEMMA SameSpec ==
  ASSUME spec' = spec, pipeline' = pipeline
  PROVE  /\ StepNames' = StepNames
         /\ \A n : StepAt(n)' = StepAt(n)
         /\ \A n : Tracked(n)' <=> Tracked(n)
         /\ \A n : Above(n)' = Above(n)
<1>1. StepNames' = StepNames
  BY DEF StepNames
<1>2. \A n : StepAt(n)' = StepAt(n)
  BY DEF StepAt
<1>3. \A n : Tracked(n)' <=> Tracked(n)
  BY <1>1, <1>2 DEF Tracked
<1>4. \A n : Above(n)' = Above(n)
  BY <1>1 DEF Above
<1> QED BY <1>1, <1>2, <1>3, <1>4

StageSteps ==
  \/ LintStage \/ CompileStage \/ ExecBegins \/ SetupOk \/ SetupCanceled \/ SetupFails \/ Cancel
  \/ \E w \in {"task", "steps"} : WatchEnds(w)
  \/ CleanupEnds \/ StepsEnd \/ StageReported \/ DestroyReturns

StepSteps(n) ==
  Enqueue(n) \/ Begins(n) \/ ReportBegins(n) \/ RunBegins(n) \/ RunEnds(n) \/ Reported(n)

(* Where a step of the executor leads. *)
Leads(from, to) ==
  \/ from = "queued" /\ to \in {"done", "skip", "start"}
  \/ from = "skip" /\ to = "skipReport"
  \/ from = "start" /\ to = "startReport"
  \/ from = "skipReport" /\ to = "done"
  \/ from = "startReport" /\ to \in {"daemon", "ready", "done"}
  \/ from = "ready" /\ to = "running"
  \/ from = "daemon" /\ to = "daemonRuns"
  \/ from = "running" /\ to = "upload"
  \/ from = "daemonRuns" /\ to = "daemonEnded"
  \/ from = "upload" /\ to \in {"done", "finishReport", "earlyReport"}
  \/ from \in {"finishReport", "earlyReport"} /\ to = "done"

LEMMA StepMoves ==
  ASSUME NEW n \in Names, StepSteps(n)
  PROVE  /\ n \in StepNames /\ UNCHANGED <<pipeline, spec, phase, cancelled>>
         /\ \E v : /\ vertex' = [vertex EXCEPT ![n] = v]
                  /\ \/ vertex[n] = "waiting" /\ v = "queued" /\ phase = "steps" /\ Ready(n)
                     \/ Leads(vertex[n], v)
<1>1. CASE Enqueue(n)
  BY <1>1 DEF Enqueue, Ready, At, Goes, Stays
<1>2. CASE Begins(n)
  BY <1>2 DEF Begins, BeginCanceled, BeginDropped, BeginSkipped, BeginStarted, At, Goes, Stays, Leads
<1>3. CASE ReportBegins(n)
  BY <1>3 DEF ReportBegins, At, Goes, Stays, Leads
<1>4. CASE RunBegins(n)
  BY <1>4 DEF RunBegins, At, Goes, Leads
<1>5. CASE RunEnds(n)
  BY <1>5 DEF RunEnds, At, Goes, Stays, Leads
<1>6. CASE Reported(n)
  BY <1>6 DEF Reported, ReportOk, ReportFails, UploadEnds, FinishReported, EarlyReported, At, Goes, Stays, Leads
<1> QED BY <1>1, <1>2, <1>3, <1>4, <1>5, <1>6 DEF StepSteps

LEMMA OneMoves ==
  ASSUME TypeOK, NEW n \in Names, StepSteps(n)
  PROVE  /\ \A m : m # n => vertex'[m] = vertex[m]
         /\ \/ vertex[n] = "waiting" /\ vertex'[n] = "queued" /\ phase = "steps" /\ Ready(n)
            \/ Leads(vertex[n], vertex'[n])
<1>1. PICK v : /\ vertex' = [vertex EXCEPT ![n] = v]
               /\ \/ vertex[n] = "waiting" /\ v = "queued" /\ phase = "steps" /\ Ready(n)
                  \/ Leads(vertex[n], v)
  BY StepMoves
<1>2. vertex'[n] = v /\ \A m : m # n => vertex'[m] = vertex[m]
  BY <1>1 DEF TypeOK
<1> QED BY <1>1, <1>2

LEMMA NextSplit ==
  Next <=> StageSteps \/ \E n \in Names : StepSteps(n)
BY DEF Next, StageSteps, StepSteps

LEMMA StageMoves ==
  ASSUME StageSteps
  PROVE  /\ UNCHANGED <<pipeline, status, vertex, failFast>>
         /\ spec' # spec => CompileStage
         /\ phase = "steps" /\ phase' # "steps" => StepsEnd
         /\ cancelled => cancelled'
<1> USE DEF executorVars, execerVars
<1>1. CASE CompileStage
  BY <1>1 DEF CompileStage
<1>2. CASE StepsEnd
  <2>1. UNCHANGED <<pipeline, spec, cancelled, executorVars>>
    BY <1>2 DEF StepsEnd
  <2> QED BY <1>2, <2>1
<1>3. ASSUME NEW w \in {"task", "steps"}, WatchEnds(w)
      PROVE  UNCHANGED <<pipeline, spec, phase, cancelled, executorVars>>
  BY <1>3 DEF WatchEnds
<1>4. CASE SetupOk
  BY <1>4 DEF SetupOk
<1>5. CASE SetupCanceled
  BY <1>5 DEF SetupCanceled
<1>6. CASE SetupFails
  BY <1>6 DEF SetupFails
<1>7. CASE Cancel
  BY <1>7 DEF Cancel
<1>8. CASE CleanupEnds
  BY <1>8 DEF CleanupEnds
<1>9. CASE StageReported
  BY <1>9 DEF StageReported
<1>10. CASE DestroyReturns
  BY <1>10 DEF DestroyReturns
<1>11. CASE LintStage
  BY <1>11 DEF LintStage
<1>12. CASE ExecBegins
  BY <1>12 DEF ExecBegins
<1> QED BY <1>1, <1>2, <1>3, <1>4, <1>5, <1>6, <1>7, <1>8, <1>9, <1>10, <1>11, <1>12 DEF StageSteps

-----------------------------------------------------------------------------
LEMMA OrderKept ==
  ASSUME TypeOK, AdmissionInv, OrderInv, [Next]_vars, TypeOK', AdmissionInv'
  PROVE  OrderInv'
<1>1. CASE UNCHANGED vars
  BY <1>1, SameSpec DEF vars, executorVars, execerVars, OrderInv
<1>2. CASE StageSteps
  <2>1. CASE spec' = spec
    <3>1. UNCHANGED <<pipeline, vertex>>
      BY <1>2, StageMoves
    <3>2. phase = "steps" /\ phase' # "steps" => \A n \in StepNames : vertex[n] \in Done \cup {"waiting"}
      BY <1>2, StageMoves DEF StepsEnd
    <3> QED BY <2>1, <3>1, <3>2, SameSpec DEF OrderInv
  <2>2. CASE spec' # spec
    <3>1. CompileStage
      BY <1>2, <2>2, StageMoves
    <3>2. \A n \in StepNames' : vertex'[n] = "waiting"
      BY <3>1 DEF CompileStage, executorVars, AdmissionInv, TypeOK
    <3> QED BY <3>2 DEF OrderInv
  <2> QED BY <2>1, <2>2
<1>3. ASSUME NEW n \in Names, StepSteps(n) PROVE OrderInv'
  <2>1. n \in StepNames /\ UNCHANGED <<pipeline, spec, phase>>
    BY <1>3, StepMoves
  <2>2. /\ \A m : m # n => vertex'[m] = vertex[m]
        /\ \/ vertex[n] = "waiting" /\ vertex'[n] = "queued" /\ phase = "steps" /\ Ready(n)
           \/ Leads(vertex[n], vertex'[n])
    BY <1>3, OneMoves
  <2>3. \A m : vertex[m] \in Done => vertex'[m] \in Done
    BY <2>2 DEF Leads, Done, Detached
  <2>4. StepNames' = StepNames /\ \A m : Above(m)' = Above(m)
    BY <2>1, SameSpec
  <2>5. ASSUME NEW m \in StepNames, vertex'[m] # "waiting", NEW l \in Above(m) PROVE vertex[l] \in Done
    <3>1. CASE vertex[m] # "waiting"
      BY <2>5, <3>1 DEF OrderInv
    <3>2. CASE vertex[m] = "waiting"
      <4>1. m = n /\ Ready(n) /\ phase = "steps"
        BY <2>2, <2>5, <3>2 DEF Leads
      <4>2. CompiledStage
        BY <4>1 DEF AdmissionInv, CompiledStage
      <4>3. PICK i \in DOMAIN spec : spec[i].name = n
        BY <2>1 DEF StepNames
      <4>4. StepAt(n) = spec[i]
        BY <4>2, <4>3, StepAtIs
      <4>5. PICK j \in DOMAIN spec :
              /\ spec[j].name \in spec[i].deps
              /\ l = spec[j].name \/ l \in Above(spec[j].name)
        BY <2>5, <4>1, <4>2, <4>3, AboveIsReached
      <4>6. vertex[spec[j].name] \in Done /\ spec[j].name \in StepNames
        BY <4>1, <4>4, <4>5 DEF Ready
      <4> QED BY <4>5, <4>6 DEF OrderInv, Done, Detached
    <3> QED BY <3>1, <3>2
  <2>6. ASSUME phase # "steps", NEW m \in StepNames PROVE vertex'[m] \in Done \cup {"waiting"}
    <3>1. vertex[m] \in Done \cup {"waiting"}
      BY <2>6 DEF OrderInv
    <3>2. vertex[m] = "waiting" => vertex'[m] = "waiting"
      BY <2>2, <2>6 DEF Leads
    <3> QED BY <2>3, <3>1, <3>2
  <2> QED BY <2>1, <2>3, <2>4, <2>5, <2>6 DEF OrderInv
<1> QED BY <1>1, <1>2, <1>3, NextSplit

LEMMA AdmissionKept ==
  ASSUME TypeOK, AdmissionInv, OrderInv, [Next]_vars
  PROVE  AdmissionInv'
<1> USE DEF executorVars, execerVars, Admitted
<1>1. CASE UNCHANGED vars
  BY <1>1 DEF AdmissionInv, vars
<1>2. CASE LintStage
  BY <1>2 DEF AdmissionInv, LintStage
<1>3. CASE CompileStage
  BY <1>3 DEF AdmissionInv, CompileStage
<1>4. CASE ExecBegins
  BY <1>4 DEF AdmissionInv, ExecBegins
<1>5. CASE SetupOk \/ SetupCanceled \/ SetupFails
  BY <1>5 DEF AdmissionInv, SetupOk, SetupCanceled, SetupFails
<1>6. CASE Cancel
  BY <1>6 DEF AdmissionInv, Cancel
<1>7. ASSUME NEW w \in {"task", "steps"}, WatchEnds(w) PROVE AdmissionInv'
  <2>1. phase \notin {"read", "linted", "rejected", "compiled"}
    BY <1>7 DEF WatchEnds, AdmissionInv
  <2>2. UNCHANGED <<pipeline, phase, spec>>
    BY <1>7 DEF WatchEnds
  <2> QED BY <2>1, <2>2 DEF AdmissionInv
<1>8. CASE CleanupEnds \/ StageReported \/ DestroyReturns
  <2>1. phase \notin {"read", "linted", "rejected", "compiled"} /\ UNCHANGED <<pipeline, spec>>
    BY <1>8 DEF AdmissionInv, CleanupEnds, StageReported, DestroyReturns
  <2>2. phase' \notin {"read", "linted", "rejected", "compiled"}
    BY <1>8, <2>1 DEF CleanupEnds, StageReported, DestroyReturns
  <2> QED BY <2>1, <2>2 DEF AdmissionInv
<1>9. CASE StepsEnd
  <2>1. phase = "steps" /\ phase' = "report" /\ UNCHANGED <<pipeline, spec>>
    BY <1>9 DEF StepsEnd
  <2> QED BY <2>1 DEF AdmissionInv
<1>10. ASSUME NEW n \in Names, StepSteps(n) PROVE AdmissionInv'
  <2>1. UNCHANGED <<pipeline, spec, phase>> /\ n \in StepNames /\ (vertex[n] # "waiting" \/ phase = "steps")
    BY <1>10, StepMoves DEF Leads
  <2>2. phase \notin {"read", "linted", "rejected", "compiled"}
    BY <2>1 DEF AdmissionInv, TypeOK
  <2> QED BY <2>1, <2>2 DEF AdmissionInv
<1> QED BY <1>1, <1>2, <1>3, <1>4, <1>5, <1>6, <1>7, <1>8, <1>9, <1>10, NextSplit DEF StageSteps

LEMMA TypeKept ==
  ASSUME TypeOK, AdmissionInv, [Next]_vars
  PROVE  TypeOK'
<1> USE DEF executorVars, execerVars
<1>1. ASSUME UNCHANGED <<pipeline, spec>>, pending' \subseteq pending
      PROVE  StepNames' \subseteq Names /\ pending' \subseteq {n \in Names : Tracked(n)'}
  BY <1>1, SameSpec DEF TypeOK
<1>2. CASE UNCHANGED vars
  BY <1>1, <1>2 DEF TypeOK, vars
<1>3. CASE CompileStage
  <2>1. pipeline \in Pipelines /\ Admitted
    BY <1>3 DEF CompileStage, AdmissionInv
  <2>2. ASSUME NEW i \in DOMAIN spec' PROVE spec'[i].name \in Names
    <3>1. i \in DOMAIN CreateSteps(pipeline) /\ spec'[i].name = CreateSteps(pipeline)[i].name
      BY <1>3, <2>1, CompiledAre DEF CompileStage
    <3> QED BY <2>1, <3>1, PipelinesAssumption DEF Admitted
  <2>3. StepNames' \subseteq Names
    BY <2>2 DEF StepNames
  <2>4. pending' = {}
    BY <1>3 DEF CompileStage, AdmissionInv
  <2> QED BY <1>3, <2>3, <2>4 DEF CompileStage, TypeOK
<1>4. CASE ExecBegins
  <2>1. UNCHANGED <<pipeline, spec>>
    BY <1>4 DEF ExecBegins
  <2>2. StepNames' \subseteq Names /\ pending' \subseteq {n \in Names : Tracked(n)'}
    BY <1>4, <2>1, SameSpec DEF ExecBegins, TypeOK
  <2> QED BY <1>4, <2>2 DEF ExecBegins, TypeOK
<1>5. CASE LintStage \/ SetupOk \/ StageReported \/ DestroyReturns \/ Cancel
  BY <1>1, <1>5 DEF LintStage, SetupOk, StageReported, DestroyReturns, Cancel, TypeOK
<1>6. CASE SetupCanceled \/ SetupFails \/ CleanupEnds
  BY <1>1, <1>6 DEF SetupCanceled, SetupFails, CleanupEnds, Stop, TypeOK
<1>7. CASE StepsEnd
  <2>1. phase' = "report" /\ cleanup' \in {"running", cleanup}
        /\ UNCHANGED <<pipeline, spec, cancelled, executorVars, pending, watches>>
    BY <1>7 DEF StepsEnd, Stop
  <2> QED BY <1>1, <2>1 DEF TypeOK
<1>8. ASSUME NEW w \in {"task", "steps"}, WatchEnds(w) PROVE TypeOK'
  BY <1>1, <1>8 DEF WatchEnds, Stop, TypeOK
<1>9. ASSUME NEW n \in Names, StepSteps(n) PROVE TypeOK'
  <2>1. /\ UNCHANGED <<pipeline, spec, phase, cancelled>>
        /\ vertex' \in [Names -> Vertices]
    <3>1. PICK v : /\ vertex' = [vertex EXCEPT ![n] = v]
                   /\ v = "queued" \/ Leads(vertex[n], v)
      BY <1>9, StepMoves
    <3>2. v \in Vertices
      BY <3>1 DEF Leads, Vertices, Done, Detached
    <3>3. UNCHANGED <<pipeline, spec, phase, cancelled>>
      BY <1>9, StepMoves
    <3> QED BY <3>1, <3>2, <3>3 DEF TypeOK
  <2>2. CASE Enqueue(n) \/ RunBegins(n)
    BY <1>1, <2>1, <2>2 DEF Enqueue, RunBegins, Stays, Unsettled, TypeOK
  <2>3. CASE Begins(n)
    <3>1. UNCHANGED <<early, dagErr, failFast, pending, cleanup, watches>>
      BY <2>3 DEF Begins, BeginCanceled, BeginDropped, BeginSkipped, BeginStarted, Stays, Unsettled
    <3>2. status' \in [Names -> {"pending", "running", "passed", "failed", "skipped", "killed"}]
      <4>1. CASE BeginCanceled(n)
        BY <4>1 DEF BeginCanceled, Killed, TypeOK
      <4>2. CASE BeginDropped(n) \/ BeginSkipped(n) \/ BeginStarted(n)
        BY <4>2 DEF BeginDropped, BeginSkipped, BeginStarted, TypeOK
      <4> QED BY <2>3, <4>1, <4>2 DEF Begins
    <3> QED BY <1>1, <2>1, <3>1, <3>2 DEF TypeOK
  <2>4. CASE ReportBegins(n) \/ RunEnds(n)
    BY <1>1, <2>1, <2>4 DEF ReportBegins, RunEnds, FinishStep, Stop, Stays, Unsettled, TypeOK
  <2>5. CASE Reported(n)
    <3>1. /\ status' \in [Names -> {"pending", "running", "passed", "failed", "skipped", "killed"}]
          /\ early' \in BOOLEAN /\ dagErr' \in BOOLEAN /\ failFast' \in BOOLEAN
      <4>1. CASE ReportOk(n) \/ ReportFails(n)
        BY <4>1 DEF ReportOk, ReportFails, TypeOK
      <4>2. CASE UploadEnds(n)
        BY <4>2 DEF UploadEnds, Killed, TypeOK
      <4>3. CASE FinishReported(n) \/ EarlyReported(n)
        BY <4>3 DEF FinishReported, EarlyReported, TypeOK
      <4> QED BY <2>5, <4>1, <4>2, <4>3 DEF Reported
    <3>2. pending' \subseteq pending /\ cleanup' \in {"none", "running", "done"} /\ watches' = watches
      BY <2>5 DEF Reported, ReportOk, ReportFails, UploadEnds, FinishReported, EarlyReported, FinishStep,
         Stop, Stays, Unsettled, TypeOK
    <3> QED BY <1>1, <2>1, <3>1, <3>2 DEF TypeOK
  <2> QED BY <1>9, <2>2, <2>3, <2>4, <2>5 DEF StepSteps
<1> QED BY <1>2, <1>3, <1>4, <1>5, <1>6, <1>7, <1>8, <1>9, NextSplit DEF StageSteps

LEMMA CanceledForGood ==
  ASSUME TypeOK, [Next]_vars, StepsCanceled
  PROVE  StepsCanceled'
<1>1. CASE UNCHANGED vars
  BY <1>1 DEF vars, executorVars, StepsCanceled
<1>2. CASE StageSteps
  BY <1>2, StageMoves DEF StepsCanceled
<1>3. ASSUME NEW n \in Names, StepSteps(n) PROVE StepsCanceled'
  <2>1. cancelled' = cancelled
    BY <1>3, StepMoves
  <2>2. failFast => failFast'
    BY <1>3 DEF StepSteps, Enqueue, Begins, BeginCanceled, BeginDropped, BeginSkipped, BeginStarted,
       ReportBegins, RunBegins, RunEnds, Reported, ReportOk, ReportFails, UploadEnds, FinishReported,
       EarlyReported
  <2> QED BY <2>1, <2>2 DEF StepsCanceled
<1> QED BY <1>1, <1>2, <1>3, NextSplit

LEMMA StartKept ==
  ASSUME TypeOK, AdmissionInv, StartInv, [Next]_vars, TypeOK'
  PROVE  StartInv'
<1>1. CASE UNCHANGED vars
  BY <1>1, SameSpec, CanceledForGood DEF vars, executorVars, StartInv
<1>2. CASE StageSteps
  <2>1. CASE spec' = spec
    <3>1. UNCHANGED <<pipeline, status, vertex>>
      BY <1>2, StageMoves
    <3> QED BY <2>1, <3>1, SameSpec, CanceledForGood DEF StartInv
  <2>2. CASE spec' # spec
    <3>1. CompileStage
      BY <1>2, <2>2, StageMoves
    <3>2. \A n \in StepNames' : vertex'[n] = "waiting"
      BY <3>1 DEF CompileStage, executorVars, AdmissionInv, TypeOK
    <3> QED BY <3>2 DEF StartInv
  <2> QED BY <2>1, <2>2
<1>3. ASSUME NEW n \in Names, StepSteps(n) PROVE StartInv'
  <2>1. /\ n \in StepNames /\ UNCHANGED <<pipeline, spec>>
        /\ \A m : m # n => vertex'[m] = vertex[m]
        /\ (vertex[n] = "waiting" /\ vertex'[n] = "queued") \/ Leads(vertex[n], vertex'[n])
    BY <1>3, StepMoves, OneMoves
  <2>2. /\ StepNames' = StepNames /\ \A m : StepAt(m)' = StepAt(m)
        /\ StepsCanceled => StepsCanceled'
    BY <2>1, SameSpec, CanceledForGood
  <2>3. vertex'[n] = "start" => BeginStarted(n)
    <3>1. ASSUME vertex'[n] = "start" PROVE Begins(n)
      <4>1. vertex[n] = "queued"
        BY <2>1, <3>1 DEF Leads
      <4> QED BY <1>3, <4>1 DEF StepSteps, Enqueue, Ready, ReportBegins, RunBegins, RunEnds, Reported, ReportOk,
              ReportFails, UploadEnds, FinishReported, EarlyReported, At
    <3>2. ASSUME BeginCanceled(n) \/ BeginDropped(n) \/ BeginSkipped(n) PROVE vertex'[n] # "start"
      BY <3>2 DEF BeginCanceled, BeginDropped, BeginSkipped, Goes, TypeOK
    <3> QED BY <3>1, <3>2 DEF Begins
  <2>4. vertex'[n] \in {"ready", "running"} => ~StepAt(n).detach
    <3>1. ASSUME vertex'[n] = "ready" PROVE ReportOk(n)
      <4>1. vertex[n] = "startReport"
        BY <2>1, <3>1 DEF Leads
      <4>2. ~ReportFails(n)
        BY <3>1 DEF ReportFails, Goes, TypeOK
      <4> QED BY <1>3, <4>1, <4>2 DEF StepSteps, Enqueue, Ready, Begins, BeginCanceled, BeginDropped, BeginSkipped,
              BeginStarted, ReportBegins, RunBegins, RunEnds, Reported, UploadEnds, FinishReported,
              EarlyReported, At
    <3>2. vertex'[n] = "ready" => ~StepAt(n).detach
      BY <3>1 DEF ReportOk, At, Goes, TypeOK
    <3>3. vertex'[n] = "running" => vertex[n] = "ready"
      BY <2>1 DEF Leads
    <3> QED BY <2>1, <3>2, <3>3 DEF StartInv
  <2>5. ASSUME NEW m \in StepNames, m # n, status[m] = "running"
        PROVE  status'[m] = "running" \/ StepsCanceled
    <3>1. m \in Names
      BY DEF TypeOK
    <3>2. CASE Enqueue(n) \/ ReportBegins(n) \/ RunBegins(n) \/ RunEnds(n)
      BY <2>5, <3>2 DEF Enqueue, ReportBegins, RunBegins, RunEnds
    <3>3. CASE Begins(n)
      BY <2>5, <3>1, <3>3 DEF Begins, BeginCanceled, BeginDropped, BeginSkipped, BeginStarted, TypeOK
    <3>4. CASE Reported(n)
      BY <2>5, <3>1, <3>4 DEF Reported, ReportOk, ReportFails, UploadEnds, FinishReported, EarlyReported, TypeOK
    <3> QED BY <1>3, <3>2, <3>3, <3>4 DEF StepSteps
  <2>6. ASSUME NEW m \in StepNames, m # n
        PROVE  /\ vertex'[m] \in {"start", "startReport", "ready", "running"} => StepAt(m).policy # "never"
               /\ vertex'[m] = "start" => status'[m] = "running" \/ StepAt(m).policy = "always" \/ StepsCanceled
               /\ vertex'[m] \in {"ready", "running"} => ~StepAt(m).detach
    BY <2>1, <2>5, <2>6 DEF StartInv
  <2>7. /\ vertex'[n] \in {"start", "startReport", "ready", "running"} => StepAt(n).policy # "never"
        /\ vertex'[n] = "start" => status'[n] = "running" \/ StepAt(n).policy = "always"
    <3>1. CASE vertex'[n] = "start"
      BY <2>3, <3>1 DEF BeginStarted, Finished, TypeOK
    <3>2. CASE vertex'[n] \in {"startReport", "ready", "running"}
      BY <2>1, <3>2 DEF Leads, StartInv
    <3> QED BY <3>1, <3>2
  <2> QED BY <2>1, <2>2, <2>4, <2>6, <2>7 DEF StartInv
<1> QED BY <1>1, <1>2, <1>3, NextSplit

LEMMA CleanupKept ==
  ASSUME TypeOK, AdmissionInv, OrderInv, StartInv, CleanupInv, [Next]_vars
  PROVE  CleanupInv'
<1> USE DEF executorVars, execerVars
<1> SUFFICES ASSUME phase' \in {"setup", "steps"}, ~StepsCanceled'
             PROVE  /\ cleanup' # "none" => pending' = {}
                    /\ \A n \in StepNames' :
                         /\ Tracked(n)'
                         /\ vertex'[n] \in {"waiting", "queued", "start", "startReport", "ready", "running"}
                         => n \in pending'
  BY DEF CleanupInv
<1>0. ~StepsCanceled
  BY CanceledForGood
<1>1. ASSUME UNCHANGED <<pipeline, spec, vertex, pending>>, phase \in {"setup", "steps"},
             cleanup' # "none" => cleanup # "none"
      PROVE  CleanupInv'
  BY <1>0, <1>1, SameSpec DEF CleanupInv
<1>2. CASE UNCHANGED vars
  BY <1>1, <1>2 DEF vars, CleanupInv
<1>3. CASE ExecBegins
  <2>1. UNCHANGED <<pipeline, spec, vertex, cleanup>> /\ phase = "compiled"
    BY <1>3 DEF ExecBegins
  <2>2. cleanup' = "none" /\ \A n \in StepNames : ~Finished(n)
    BY <2>1 DEF AdmissionInv, TypeOK, Finished
  <2>3. pending' = {n \in StepNames : Tracked(n) /\ (StepAt(n).policy = "always" \/ ~Finished(n))}
    BY <1>3 DEF ExecBegins
  <2> QED BY <2>1, <2>2, <2>3, SameSpec
<1>4. CASE SetupOk
  BY <1>1, <1>4 DEF SetupOk, CleanupInv
<1>5. CASE Cancel
  BY <1>5 DEF Cancel, StepsCanceled
<1>6. ASSUME NEW w \in {"task", "steps"}, WatchEnds(w) PROVE CleanupInv'
  <2>1. UNCHANGED <<pipeline, spec, vertex, pending, phase>> /\ (cleanup' # "none" => cleanup # "none")
    BY <1>0, <1>6 DEF WatchEnds, Stop, ContextDone, StepsCanceled
  <2> QED BY <1>1, <2>1
<1>7. CASE CleanupEnds
  BY <1>1, <1>7 DEF CleanupEnds, CleanupInv
<1>8. CASE LintStage \/ CompileStage \/ SetupCanceled \/ SetupFails \/ StageReported \/ DestroyReturns
  BY <1>8 DEF LintStage, CompileStage, SetupCanceled, SetupFails, StageReported, DestroyReturns
<1>9. CASE StepsEnd
  BY <1>9 DEF StepsEnd
<1>10. ASSUME NEW n \in Names, StepSteps(n) PROVE CleanupInv'
  <2>1. /\ n \in StepNames /\ UNCHANGED <<pipeline, spec, phase>>
        /\ \A m : m # n => vertex'[m] = vertex[m]
        /\ (vertex[n] = "waiting" /\ vertex'[n] = "queued") \/ Leads(vertex[n], vertex'[n])
    BY <1>10, StepMoves, OneMoves
  <2>2. StepNames' = StepNames /\ \A m : Tracked(m)' <=> Tracked(m)
    BY <2>1, SameSpec
  <2>3. UNCHANGED <<pending, cleanup>> \/ FinishStep(n)
    BY <1>10 DEF StepSteps, Enqueue, Begins, BeginCanceled, BeginDropped, BeginSkipped, BeginStarted,
       ReportBegins, RunBegins, RunEnds, Reported, ReportOk, ReportFails, UploadEnds, FinishReported,
       EarlyReported, Unsettled, Stays
  <2>4. /\ cleanup' # "none" => pending' = {}
        /\ pending \ {n} \subseteq pending'
    BY <1>0, <2>1, <2>3 DEF FinishStep, Stop, CleanupInv
  <2>5. ASSUME Tracked(n), vertex'[n] \in {"waiting", "queued", "start", "startReport", "ready", "running"}
        PROVE  n \in pending'
    <3>1. vertex[n] \in {"waiting", "queued", "start", "startReport", "ready"}
      BY <2>1, <2>5 DEF Leads
    <3>2. n \in pending
      BY <1>0, <2>1, <2>5, <3>1 DEF CleanupInv
    <3>3. pending' = pending
      <4>1. CASE ReportBegins(n)
        <5>1. vertex[n] = "start"
          BY <3>1, <4>1 DEF ReportBegins, At
        <5>2. ~(StepAt(n).policy # "always" /\ Finished(n))
          BY <1>0, <2>1, <5>1 DEF StartInv, Finished
        <5> QED BY <4>1, <5>2 DEF ReportBegins, Unsettled
      <4>2. CASE Enqueue(n) \/ Begins(n) \/ RunBegins(n)
        BY <4>2 DEF Enqueue, Begins, BeginCanceled, BeginDropped, BeginSkipped, BeginStarted, RunBegins, Unsettled
      <4>3. CASE RunEnds(n)
        BY <2>5, <3>1, <4>3 DEF RunEnds, At
      <4>4. CASE ReportFails(n)
        BY <2>5, <4>4 DEF ReportFails, Goes, TypeOK
      <4>5. CASE ReportOk(n) \/ UploadEnds(n) \/ FinishReported(n) \/ EarlyReported(n)
        BY <4>5 DEF ReportOk, UploadEnds, FinishReported, EarlyReported, Unsettled
      <4> QED BY <1>10, <4>1, <4>2, <4>3, <4>4, <4>5 DEF StepSteps, Reported
    <3> QED BY <3>2, <3>3
  <2>6. ASSUME NEW m \in StepNames, m # n, Tracked(m),
               vertex'[m] \in {"waiting", "queued", "start", "startReport", "ready", "running"}
        PROVE  m \in pending'
    <3>1. m \in pending
      BY <1>0, <2>1, <2>6 DEF CleanupInv
    <3> QED BY <2>4, <2>6, <3>1
  <2> QED BY <2>2, <2>4, <2>5, <2>6 DEF CleanupInv
<1> QED BY <1>2, <1>3, <1>4, <1>5, <1>6, <1>7, <1>8, <1>9, <1>10, NextSplit DEF StageSteps, CleanupInv

LEMMA IdleKept ==
  ASSUME TypeOK, AdmissionInv, IdleInv, [Next]_vars, TypeOK'
  PROVE  IdleInv'
<1>1. CASE UNCHANGED vars
  BY <1>1, SameSpec DEF vars, executorVars, IdleInv
<1>2. CASE StageSteps
  <2>1. CASE spec' = spec
    BY <1>2, <2>1, StageMoves, SameSpec DEF IdleInv
  <2>2. CASE spec' # spec
    <3>1. CompileStage
      BY <1>2, <2>2, StageMoves
    <3>2. \A n \in Names : vertex'[n] = "waiting"
      BY <3>1 DEF CompileStage, executorVars, AdmissionInv
    <3> QED BY <3>2 DEF IdleInv
  <2> QED BY <2>1, <2>2
<1>3. ASSUME NEW n \in Names, StepSteps(n) PROVE IdleInv'
  <2>1. n \in StepNames /\ UNCHANGED <<pipeline, spec>> /\ \A m : m # n => vertex'[m] = vertex[m]
    BY <1>3, StepMoves, OneMoves
  <2> QED BY <2>1, SameSpec DEF IdleInv
<1> QED BY <1>1, <1>2, <1>3, NextSplit

-----------------------------------------------------------------------------
LEMMA InitInv ==
  Init => ExecutionInv
<1> SUFFICES ASSUME Init PROVE ExecutionInv
  OBVIOUS
<1>1. /\ pipeline \in Pipelines /\ phase = "read" /\ spec = <<>>
      /\ status = [n \in Names |-> "pending"] /\ vertex = [n \in Names |-> "waiting"]
      /\ early = FALSE /\ dagErr = FALSE /\ cancelled = FALSE /\ failFast = FALSE
      /\ pending = {} /\ cleanup = "none"
      /\ watches = [w \in {"task", "steps"} |-> "none"]
  BY DEF Init
<1>2. StepNames = {}
  BY <1>1 DEF StepNames
<1>3. TypeOK
  BY <1>1, <1>2 DEF TypeOK, Vertices, Done, Detached
<1>4. AdmissionInv
  BY <1>1 DEF AdmissionInv
<1>5. IdleInv
  BY <1>1 DEF IdleInv
<1> QED BY <1>1, <1>2, <1>3, <1>4, <1>5 DEF ExecutionInv, OrderInv, StartInv, CleanupInv

LEMMA StepInv ==
  ExecutionInv /\ [Next]_vars => ExecutionInv'
<1> SUFFICES ASSUME ExecutionInv, [Next]_vars PROVE ExecutionInv'
  OBVIOUS
<1>1. TypeOK /\ AdmissionInv /\ OrderInv /\ StartInv /\ CleanupInv /\ IdleInv
  BY DEF ExecutionInv
<1>2. TypeOK'
  BY <1>1, TypeKept
<1>3. AdmissionInv'
  BY <1>1, AdmissionKept
<1>4. OrderInv'
  BY <1>1, <1>2, <1>3, OrderKept
<1>5. StartInv'
  BY <1>1, <1>2, StartKept
<1>6. CleanupInv'
  BY <1>1, CleanupKept
<1>7. IdleInv'
  BY <1>1, <1>2, IdleKept
<1> QED BY <1>2, <1>3, <1>4, <1>5, <1>6, <1>7 DEF ExecutionInv

(* The account Execer keeps of steps is of steps it knows, what runs is    *)
(* what was admitted and compiled, and all that the executor, Execer and   *)
(* the cleanup do keeps the three arguments: of order, of starting and of  *)
(* stopping (execer.go).                                                   *)
THEOREM ExecutionIsInvariant ==
  Spec => []ExecutionInv
BY InitInv, StepInv, PTL DEF Spec

(* Every variable keeps its type in every stage (Execer, executor).        *)
THEOREM ExecutionTypeCorrect ==
  Spec => []TypeOK
<1>1. ExecutionInv => TypeOK
  BY DEF ExecutionInv
<1> QED BY <1>1, ExecutionIsInvariant, PTL

(* A step of any pipeline the linter admits, of any length and with any    *)
(* dependencies, runs only when all that the pipeline puts before it is    *)
(* over or in the background (checkDeps, configureSerial,                  *)
(* configureCloneDeps, removeCloneDeps and runner-go's scheduling).        *)
THEOREM DependenciesComeFirst ==
  Spec => []DependenciesFirst
<1>1. ExecutionInv => DependenciesFirst
  BY DEF ExecutionInv, OrderInv, DependenciesFirst, Entered
<1> QED BY <1>1, ExecutionIsInvariant, PTL

(* A step whose end matters enters Run after stop only when the steps were *)
(* cancelled: Exec's account is never empty before (finishStep, stop).     *)
THEOREM NothingRunsAfterStop ==
  Spec => NoRunAfterStop
<1> DEFINE A == \A n \in StepNames :
                  vertex[n] # "running" /\ vertex'[n] = "running" => cleanup = "none" \/ StepsCanceled
<1>1. ASSUME ExecutionInv, [Next]_vars PROVE A
  <2> SUFFICES ASSUME NEW n \in StepNames, vertex[n] # "running", vertex'[n] = "running", ~StepsCanceled
               PROVE  cleanup = "none"
    OBVIOUS
  <2>1. TypeOK /\ AdmissionInv /\ OrderInv /\ StartInv /\ CleanupInv
    BY <1>1 DEF ExecutionInv
  <2>2. PICK m \in Names : StepSteps(m)
    <3>1. vertex' # vertex
      OBVIOUS
    <3>2. ~UNCHANGED vars
      BY <3>1 DEF vars, executorVars
    <3> QED BY <1>1, <3>1, <3>2, NextSplit, StageMoves
  <2>3. /\ \A l : l # m => vertex'[l] = vertex[l]
        /\ (vertex[m] = "waiting" /\ vertex'[m] = "queued") \/ Leads(vertex[m], vertex'[m])
    BY <2>1, <2>2, OneMoves
  <2>4. vertex[n] = "ready"
    BY <2>3 DEF Leads
  <2>5. Tracked(n)
    BY <2>1, <2>4 DEF StartInv, Tracked
  <2>6. phase = "steps"
    BY <2>1, <2>4 DEF OrderInv, Done, Detached
  <2> QED BY <2>1, <2>4, <2>5, <2>6 DEF CleanupInv
<1> QED BY <1>1, ExecutionIsInvariant, PTL DEF Spec, NoRunAfterStop

LEMMA IntervalIs ==
  ASSUME NEW x \in Nat
  PROVE  0 .. x \in FiniteSubsetsOf(Nat)
<1>1. 0 \in Int /\ x \in Int
  OBVIOUS
<1>2. IsFiniteSet(0 .. x)
  BY <1>1, FS_Interval
<1>3. 0 .. x \in SUBSET Nat
  OBVIOUS
<1> QED BY <1>2, <1>3, Zenon DEF FiniteSubsetsOf

LEMMA IntervalsAre ==
  ASSUME NEW x \in Nat, NEW y \in Nat, y < x
  PROVE  <<0 .. y, 0 .. x>> \in StrictSubsetOrdering(Nat)
<1>1. x \in 0 .. x /\ x \notin 0 .. y /\ 0 .. y \subseteq 0 .. x
  OBVIOUS
<1>2. 0 .. y \in SUBSET Nat /\ 0 .. x \in SUBSET Nat
  OBVIOUS
<1>3. 0 .. y # 0 .. x
  BY <1>1, Zenon
<1> QED BY <1>1, <1>2, <1>3 DEF StrictSubsetOrdering

LEMMA LeastIs ==
  ASSUME NEW T, T \subseteq Nat, T # {}
  PROVE  \E x \in T : \A y \in T : ~(y < x)
<1> DEFINE below == {0 .. x : x \in T}
<1>1. below \subseteq FiniteSubsetsOf(Nat) /\ below # {}
  BY IntervalIs, Zenon
<1>2. IsWellFoundedOn(StrictSubsetOrdering(Nat), FiniteSubsetsOf(Nat))
  BY FS_StrictSubsetOrderingWellFounded, Zenon
<1>3. \E b \in below : \A d \in below : ~(<<d, b>> \in StrictSubsetOrdering(Nat))
  <2> HIDE DEF below
  <2> QED BY <1>1, <1>2, WFMin, Zenon
<1>4. PICK x \in T : \A d \in below : ~(<<d, 0 .. x>> \in StrictSubsetOrdering(Nat))
  BY <1>3, Zenon
<1>5. ASSUME NEW y \in T, y < x PROVE FALSE
  <2>1. <<0 .. y, 0 .. x>> \in StrictSubsetOrdering(Nat)
    BY <1>5, IntervalsAre
  <2> QED BY <1>4, <2>1, Zenon
<1> QED BY <1>5

(* Whatever the dependencies of an admitted pipeline, the scheduling comes *)
(* to its end with no step left behind, unless an error has stopped it:    *)
(* the topmost step not done would have all it depends on done (checkSteps,*)
(* ConfigureDeps and runner-go's scheduling).                              *)
THEOREM NoStepIsDropped ==
  Spec => NoStepDropped
<1> DEFINE A == phase = "steps" /\ phase' # "steps" => dagErr \/ \A n \in StepNames : vertex[n] \in Done
<1>1. ASSUME ExecutionInv, [Next]_vars PROVE A
  <2> SUFFICES ASSUME phase = "steps", phase' # "steps", ~dagErr, NEW n \in StepNames, vertex[n] \notin Done
               PROVE  FALSE
    OBVIOUS
  <2>1. StepsEnd
    <3>1. ~UNCHANGED vars
      BY DEF vars
    <3>2. ~\E m \in Names : StepSteps(m)
      BY StepMoves
    <3> QED BY <1>1, <3>1, <3>2, NextSplit, StageMoves
  <2>2. CompiledStage
    BY <1>1 DEF ExecutionInv, AdmissionInv, CompiledStage
  <2> DEFINE left == {i \in DOMAIN spec : vertex[spec[i].name] \notin Done}
  <2>3. left \subseteq Nat /\ left # {}
    BY <2>2, PositionsAre DEF StepNames
  <2>4. PICK i \in left : \A j \in left : ~(j < i)
    BY <2>3, LeastIs
  <2>5. spec[i].name \in StepNames /\ StepAt(spec[i].name) = spec[i]
    BY <2>2, StepAtIs
  <2>6. ASSUME NEW m \in spec[i].deps PROVE m \in StepNames /\ vertex[m] \in Done
    <3>1. PICK j \in DOMAIN spec : j < i /\ m = spec[j].name
      BY <2>2, DependenciesAbove
    <3> QED BY <2>4, <3>1 DEF StepNames
  <2>7. vertex[spec[i].name] = "waiting"
    BY <2>1, <2>5 DEF StepsEnd
  <2>8. Ready(spec[i].name)
    BY <2>5, <2>6, <2>7 DEF Ready, At
  <2> QED BY <2>1, <2>5, <2>8 DEF StepsEnd
<1> QED BY <1>1, ExecutionIsInvariant, PTL DEF Spec, NoStepDropped

-----------------------------------------------------------------------------
(* Execer keeps the contract of a stage: each step of the detailed         *)
(* specification is one of the contract, or changes nothing of it.         *)

Places == [n \in Names |-> Place(n)]

ContractStep == [Contract!Next]_(Contract!stageVars)

LEMMA SamePlaces ==
  ASSUME vertex' = vertex
  PROVE  Places' = Places
BY DEF Places, Place

LEMMA Unmoved ==
  ASSUME Places' = Places, StepsCanceled' = StepsCanceled, cleanup' = cleanup,
         (phase = "returned")' = (phase = "returned")
  PROVE  ContractStep
BY DEF ContractStep, Contract!stageVars, Places

(* Cleanup begins, or not, and nothing else happens. *)
LEMMA Cleans ==
  ASSUME Places' = Places, StepsCanceled' = StepsCanceled,
         (phase = "returned")' = (phase = "returned"),
         cleanup' = cleanup \/ (cleanup = "none" /\ cleanup' = "running"),
         cleanup' # cleanup => StepsCanceled \/ \A n \in Names : vertex[n] # "running"
  PROVE  ContractStep
<1>1. (\A n \in Names : vertex[n] # "running") => \A n \in Names : Places'[n] # "running"
  BY DEF Places, Place
<1>2. Contract!MayClean
  BY <1>1 DEF Contract!MayClean, Contract!NoneRuns, Places
<1> QED BY <1>2 DEF ContractStep, Contract!Next, Contract!Clean, Places

LEMMA StageInContract ==
  ASSUME ExecutionInv, StageSteps
  PROVE  ContractStep
<1>0. TypeOK /\ OrderInv /\ IdleInv
  BY DEF ExecutionInv
<1>1. vertex' = vertex /\ failFast' = failFast /\ Places' = Places
  BY StageMoves, SamePlaces
<1>2. phase # "steps" => \A n \in Names : vertex[n] # "running"
  BY <1>0 DEF OrderInv, IdleInv, Done, Detached
<1>3. CASE LintStage \/ CompileStage \/ ExecBegins \/ SetupOk \/ StageReported
  <2>1. cancelled' = cancelled /\ cleanup' = cleanup /\ phase # "returned" /\ phase' # "returned"
    BY <1>3 DEF LintStage, CompileStage, ExecBegins, SetupOk, StageReported, execerVars
  <2> QED BY <1>1, <2>1, Unmoved DEF StepsCanceled
<1>4. CASE SetupCanceled \/ SetupFails \/ StepsEnd
  <2>1. /\ cancelled' = cancelled /\ phase # "returned" /\ phase' # "returned"
        /\ cleanup' = cleanup \/ (cleanup = "none" /\ cleanup' = "running")
    BY <1>4 DEF SetupCanceled, SetupFails, StepsEnd, Stop
  <2>2. \A n \in Names : vertex[n] # "running"
    <3>1. CASE StepsEnd
      BY <1>0, <3>1 DEF StepsEnd, IdleInv, Done, Detached
    <3>2. CASE SetupCanceled \/ SetupFails
      BY <1>2, <3>2 DEF SetupCanceled, SetupFails
    <3> QED BY <1>4, <3>1, <3>2
  <2> QED BY <1>1, <2>1, <2>2, Cleans DEF StepsCanceled
<1>5. CASE Cancel
  <2>1. /\ cancelled' = TRUE /\ cleanup' = cleanup /\ phase # "returned" /\ phase' # "returned"
    BY <1>5 DEF Cancel, execerVars
  <2>2. Contract!StopSteps
    BY <1>1, <2>1 DEF Contract!StopSteps, StepsCanceled, Places
  <2> QED BY <2>2 DEF ContractStep, Contract!Next
<1>6. ASSUME NEW w \in {"task", "steps"}, WatchEnds(w) PROVE ContractStep
  <2>1. /\ cancelled' = cancelled /\ phase' = phase
        /\ cleanup' = cleanup \/ (cleanup = "none" /\ cleanup' = "running" /\ StepsCanceled)
    BY <1>6 DEF WatchEnds, Stop, ContextDone, StepsCanceled
  <2> QED BY <1>1, <2>1, Cleans DEF StepsCanceled
<1>7. CASE CleanupEnds
  <2>1. /\ cancelled' = cancelled /\ phase' = phase /\ cleanup = "running" /\ cleanup' = "done"
    BY <1>7 DEF CleanupEnds
  <2>2. Contract!CleanupEnds
    BY <1>1, <2>1 DEF Contract!CleanupEnds, StepsCanceled, Places
  <2> QED BY <2>2 DEF ContractStep, Contract!Next
<1>8. CASE DestroyReturns
  <2>1. /\ cancelled' = cancelled /\ phase = "destroy" /\ phase' = "returned"
        /\ cleanup = "done" /\ cleanup' = cleanup
    BY <1>8 DEF DestroyReturns, execerVars
  <2>2. \A n \in Names : Places[n] # "running"
    BY <1>2, <2>1 DEF Places, Place
  <2>3. Contract!Return
    BY <1>1, <2>1, <2>2 DEF Contract!Return, Contract!NoneRuns, StepsCanceled, Places
  <2> QED BY <2>3 DEF ContractStep, Contract!Next
<1> QED BY <1>3, <1>4, <1>5, <1>6, <1>7, <1>8 DEF StageSteps

(* What a step of the executor does to cleanup. *)
LEMMA StepCleans ==
  ASSUME ExecutionInv, NEW n \in Names, StepSteps(n)
  PROVE  /\ cleanup' = cleanup \/ (cleanup = "none" /\ cleanup' = "running")
         /\ cleanup' # cleanup => StepsCanceled \/ \A m \in Names : m # n => vertex[m] # "running"
<1>1. UNCHANGED cleanup \/ FinishStep(n)
  BY DEF StepSteps, Enqueue, Begins, BeginCanceled, BeginDropped, BeginSkipped, BeginStarted,
     ReportBegins, RunBegins, RunEnds, Reported, ReportOk, ReportFails, UploadEnds, FinishReported,
     EarlyReported, Unsettled, Stays
<1>2. cleanup' # cleanup => cleanup = "none" /\ cleanup' = "running" /\ pending = {n}
  BY <1>1 DEF FinishStep, Stop
<1>3. ASSUME NEW m \in Names, vertex[m] = "running", ~StepsCanceled PROVE m \in pending
  <2>1. TypeOK /\ OrderInv /\ StartInv /\ CleanupInv /\ IdleInv
    BY DEF ExecutionInv
  <2>2. m \in StepNames
    BY <1>3, <2>1 DEF IdleInv
  <2>3. phase = "steps"
    BY <1>3, <2>1, <2>2 DEF OrderInv, Done, Detached
  <2>4. Tracked(m)
    BY <1>3, <2>1, <2>2 DEF StartInv, Tracked
  <2> QED BY <1>3, <2>1, <2>2, <2>3, <2>4 DEF CleanupInv
<1> QED BY <1>2, <1>3

LEMMA StepInContract ==
  ASSUME ExecutionInv, NEW n \in Names, StepSteps(n)
  PROVE  ContractStep
<1>1. TypeOK /\ OrderInv /\ StartInv /\ CleanupInv /\ IdleInv
  BY DEF ExecutionInv
<1>2. n \in StepNames /\ UNCHANGED <<phase, cancelled>> /\ \A m : m # n => vertex'[m] = vertex[m]
  BY <1>1, StepMoves, OneMoves
<1>3. \/ vertex[n] = "waiting" /\ vertex'[n] = "queued" /\ phase = "steps"
      \/ Leads(vertex[n], vertex'[n])
  BY <1>1, OneMoves
<1>4. vertex[n] \notin Detached => phase = "steps"
  BY <1>1, <1>2, <1>3 DEF OrderInv, Done, Leads
<1>5. /\ cleanup' = cleanup \/ (cleanup = "none" /\ cleanup' = "running")
      /\ cleanup' # cleanup => StepsCanceled \/ \A m \in Names : m # n => vertex[m] # "running"
  BY StepCleans
<1>6. Places' = [Places EXCEPT ![n] = Place(n)']
  BY <1>2 DEF Places, Place
(* A step fails fast when its end was reported. *)
<1>7. CASE FinishReported(n)
  <2>1. vertex[n] = "finishReport" /\ vertex'[n] = "done" /\ cleanup' = cleanup
    BY <1>1, <1>7 DEF FinishReported, At, Goes, Unsettled, TypeOK
  <2>2. Place(n)' = Place(n)
    BY <2>1 DEF Place, Detached
  <2>3. Places' = Places
    BY <1>6, <2>2 DEF Places
  <2>4. failFast' \in BOOLEAN /\ (failFast => failFast')
    BY <1>1, <1>7 DEF FinishReported, TypeOK
  <2>5. CASE StepsCanceled' = StepsCanceled
    BY <1>2, <2>1, <2>3, <2>5, Unmoved
  <2>6. CASE StepsCanceled' # StepsCanceled
    <3>1. StepsCanceled' = TRUE
      BY <1>2, <2>4, <2>6 DEF StepsCanceled
    <3>2. Contract!StopSteps
      BY <1>2, <2>1, <2>3, <3>1 DEF Contract!StopSteps, Places
    <3> QED BY <3>2 DEF ContractStep, Contract!Next
  <2> QED BY <2>5, <2>6
<1>8. CASE ~FinishReported(n)
  <2>1. failFast' = failFast
    BY <1>8 DEF StepSteps, Enqueue, Begins, BeginCanceled, BeginDropped, BeginSkipped, BeginStarted,
       ReportBegins, RunBegins, RunEnds, Reported, ReportOk, ReportFails, UploadEnds, EarlyReported
  <2>2. StepsCanceled' = StepsCanceled /\ (phase = "returned")' = (phase = "returned")
    BY <1>2, <2>1 DEF StepsCanceled
  <2>3. CASE Place(n)' = Place(n)
    <3>1. Places' = Places
      BY <1>6, <2>3 DEF Places
    <3>2. vertex[n] # "running"
      BY <1>3, <2>3 DEF Leads, Place, Detached
    <3> QED BY <1>5, <2>2, <3>1, <3>2, Cleans
  <2>4. CASE vertex[n] = "ready" /\ vertex'[n] = "running"
    <3>1. phase = "steps" /\ Tracked(n)
      BY <1>1, <1>2, <1>4, <2>4 DEF Detached, StartInv, Tracked
    <3>2. cleanup = "none" \/ StepsCanceled
      BY <1>1, <1>2, <2>4, <3>1 DEF CleanupInv
    <3>3. cleanup' = cleanup
      BY <2>4 DEF StepSteps, Enqueue, Ready, Begins, BeginCanceled, BeginDropped, BeginSkipped, BeginStarted,
         ReportBegins, RunBegins, RunEnds, Reported, ReportOk, ReportFails, UploadEnds, FinishReported,
         EarlyReported, At
    <3>4. Places[n] = "waiting" /\ Place(n)' = "running"
      BY <2>4 DEF Places, Place, Detached
    <3>5. Contract!Run(n)
      BY <1>6, <2>2, <3>1, <3>2, <3>3, <3>4 DEF Contract!Run, Contract!Move, Places
    <3> QED BY <3>5 DEF ContractStep, Contract!Next
  <2>5. CASE vertex[n] = "startReport" /\ vertex'[n] = "daemon"
    <3>1. phase = "steps"
      BY <1>4, <2>5 DEF Detached
    <3>2. cleanup' = cleanup
      <4>1. ~ReportFails(n)
        BY <1>1, <2>5 DEF ReportFails, Goes, TypeOK
      <4> QED BY <2>5, <4>1 DEF StepSteps, Enqueue, Ready, Begins, BeginCanceled, BeginDropped, BeginSkipped,
              BeginStarted, ReportBegins, RunBegins, RunEnds, Reported, ReportOk, UploadEnds, FinishReported,
              EarlyReported, At, Unsettled
    <3>3. Places[n] = "waiting" /\ Place(n)' = "background"
      BY <2>5 DEF Places, Place, Detached
    <3>4. Contract!Background(n)
      BY <1>6, <2>2, <3>1, <3>2, <3>3 DEF Contract!Background, Contract!Move, Places
    <3> QED BY <3>4 DEF ContractStep, Contract!Next
  <2>6. CASE Place(n) \in {"waiting", "running"} /\ Place(n)' = "over"
    <3>1. phase = "steps"
      BY <1>4, <2>6 DEF Place
    <3>2. cleanup' # cleanup => StepsCanceled \/ \A m \in Names : Places'[m] # "running"
      <4>1. Places'[n] = "over"
        BY <1>6, <2>6 DEF Places
      <4>2. \A m \in Names : m # n /\ vertex[m] # "running" => Places'[m] # "running"
        BY <1>2 DEF Places, Place
      <4> QED BY <1>5, <4>1, <4>2
    <3>3. Contract!MayClean
      BY <1>5, <3>2 DEF Contract!MayClean, Contract!NoneRuns, Places
    <3>4. Contract!Move(n, {"waiting", "running"}, "over")
      BY <1>6, <2>6 DEF Contract!Move, Places
    <3>5. Contract!Settle(n)
      BY <2>2, <3>1, <3>3, <3>4 DEF Contract!Settle
    <3> QED BY <3>5 DEF ContractStep, Contract!Next
  <2>7. \/ Place(n)' = Place(n)
        \/ vertex[n] = "ready" /\ vertex'[n] = "running"
        \/ vertex[n] = "startReport" /\ vertex'[n] = "daemon"
        \/ Place(n) \in {"waiting", "running"} /\ Place(n)' = "over"
    BY <1>3 DEF Leads, Place, Detached
  <2> QED BY <2>3, <2>4, <2>5, <2>6, <2>7
<1> QED BY <1>7, <1>8

(* For any pipeline and any order in which steps, reports, uploads,        *)
(* cancellation and watches come, Execer keeps the contract of a stage:    *)
(* each step is run at most once, Destroy is called once and never under a *)
(* step that runs or is still to run unless the steps were stopped, and    *)
(* Exec returns after it and after all steps (stop, finishStep, Destroy).  *)
THEOREM StageIsImplemented ==
  Spec => ImplementsStage
<1>1. Init => Contract!Init
  <2> SUFFICES ASSUME Init PROVE Contract!Init
    OBVIOUS
  <2>1. \A n \in Names : vertex[n] = "waiting"
    BY DEF Init
  <2>2. Places = [n \in Names |-> "waiting"]
    BY <2>1 DEF Places, Place, Detached
  <2>3. StepsCanceled = FALSE /\ cleanup = "none" /\ phase # "returned"
    BY DEF Init, StepsCanceled
  <2> QED BY <2>2, <2>3 DEF Contract!Init, Places
<1>2. ASSUME ExecutionInv, [Next]_vars PROVE [Contract!Next]_(Contract!stageVars)
  <2>1. CASE UNCHANGED vars
    <3>1. UNCHANGED <<vertex, cancelled, failFast, cleanup, phase>>
      BY <2>1 DEF vars, executorVars, execerVars
    <3>2. Places' = Places
      BY <3>1, SamePlaces
    <3> QED BY <3>1, <3>2, Unmoved DEF StepsCanceled, ContractStep
  <2>2. CASE StageSteps
    BY <1>2, <2>2, StageInContract DEF ContractStep
  <2>3. ASSUME NEW n \in Names, StepSteps(n) PROVE [Contract!Next]_(Contract!stageVars)
    BY <1>2, <2>3, StepInContract DEF ContractStep
  <2> QED BY <1>2, <2>1, <2>2, <2>3, NextSplit
<1> QED BY <1>1, <1>2, ExecutionIsInvariant, PTL DEF Spec, ImplementsStage, Contract!Spec
=============================================================================
