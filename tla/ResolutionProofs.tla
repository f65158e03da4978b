-------------------------- MODULE ResolutionProofs --------------------------
(***************************************************************************)
(* What holds of the resolution of every job, for every config and every   *)
(* catalogue: proofs about RunnerConfig, Placement and Resolution.         *)
(***************************************************************************)
EXTENDS Resolution, SequenceTheorems, WellFoundedInduction, TLAPS

-----------------------------------------------------------------------------
(***************************************************************************)
(* The operators.                                                          *)
(***************************************************************************)

\* Any set of natural numbers has a least member, a bounded one a greatest.
Below == {p \in Nat \X Nat : p[1] < p[2]}

LEMMA HasLeast ==
    ASSUME NEW S, S \subseteq Nat, S # {}
    PROVE  \E x \in S : \A y \in S : x <= y
<1>1. OpToRel(<, Nat) = Below
  BY DEF OpToRel, Below
<1>2. IsWellFoundedOn(Below, Nat)
  BY <1>1, NatLessThanWellFounded
<1>3. PICK x \in S : \A y \in S : ~(<<y, x>> \in Below)
  BY <1>2, WFMin
<1>4. ASSUME NEW y \in S PROVE x <= y
  <2>1. x \in Nat /\ y \in Nat
    OBVIOUS
  <2>2. y < x => <<y, x>> \in Below
    BY <2>1 DEF Below
  <2> QED
    BY <1>3, <2>1, <2>2
<1> QED
  BY <1>4

LEMMA HasGreatest ==
    ASSUME NEW n \in Nat, NEW S, S \subseteq 1 .. n, S # {}
    PROVE  \E x \in S : \A y \in S : x >= y
<1> DEFINE T == {n - x : x \in S}
<1>1. T \subseteq Nat /\ T # {}
  <2>1. \A x \in S : n - x \in Nat
    OBVIOUS
  <2>2. PICK z \in S : TRUE
    OBVIOUS
  <2>3. n - z \in T
    OBVIOUS
  <2> QED
    BY <2>1, <2>3
<1>2. PICK t \in T : \A u \in T : t <= u
  <2> HIDE DEF T
  <2> QED
    BY <1>1, HasLeast
<1>3. PICK x \in S : t = n - x
  OBVIOUS
<1>4. ASSUME NEW y \in S PROVE x >= y
  <2>1. n - y \in T
    OBVIOUS
  <2>2. n - x <= n - y
    BY <1>2, <1>3, <2>1
  <2> QED
    BY <2>2
<1> QED
  BY <1>4

LEMMA MinIsLeast ==
    ASSUME NEW S, S \subseteq Nat, S # {}
    PROVE  Min(S) \in S
<1>1. \E x \in S : \A y \in S : x <= y
  BY HasLeast
<1> QED
  BY <1>1 DEF Min

LEMMA MaxIsGreatest ==
    ASSUME NEW n \in Nat, NEW S, S \subseteq 1 .. n, S # {}
    PROVE  Max(S) \in S
<1>1. \E x \in S : \A y \in S : x >= y
  BY HasGreatest
<1> QED
  BY <1>1 DEF Max

LEMMA MinOfTwo ==
    ASSUME NEW a \in Int, NEW b \in Int
    PROVE  Min({a, b}) = IF a <= b THEN a ELSE b
<1> DEFINE m == IF a <= b THEN a ELSE b
<1>1. m \in {a, b} /\ \A n \in {a, b} : m <= n
  OBVIOUS
<1>2. \A x \in {a, b} : (\A n \in {a, b} : x <= n) => x = m
  OBVIOUS
<1> QED
  BY <1>1, <1>2, Zenon DEF Min

\* What a range allows (parseRange, Within).
LEMMA RangeMeans ==
    ASSUME NEW n \in Nat, NEW value \in Seq(Int)
    PROVE  Within(n, parseRange(value)) = InRange(n, value)
<1>0. Len(value) \in Nat
  OBVIOUS
<1>5. Len(value) = 0 => value = <<>>
  BY EmptySeq
<1>6. Len(value) > 0 => value # <<>>
  OBVIOUS
<1>7. \A l \in Nat : /\ l = 0 \/ l = 1 \/ l >= 2
                     /\ l >= 2 => l # 0 /\ l # 1 /\ (l = 2 \/ l > 2)
                     /\ l > 2 => l # 1 /\ l # 2
  OBVIOUS
<1>1. CASE Len(value) = 0
  <2>1. parseRange(value) = [min |-> 0, max |-> 0]
    BY <1>1 DEF parseRange
  <2>2. Within(n, parseRange(value))
    BY <2>1 DEF Within
  <2>3. InRange(n, value)
    BY <1>5, <1>1 DEF InRange
  <2> QED
    BY <2>2, <2>3
<1>2. CASE Len(value) = 1
  <2>1. parseRange(value) = [min |-> Bound(value, 1), max |-> Bound(value, 1)]
    BY <1>2 DEF parseRange
  <2>2. value[1] \in Int /\ value # <<>>
    BY <1>6, <1>2
  <2>3. Within(n, parseRange(value)) <=> value[1] <= 0 \/ n = value[1]
    BY <2>1, <2>2 DEF Within, Bound
  <2>4. InRange(n, value) <=> value[1] <= 0 \/ n = value[1]
    BY <1>2, <2>2 DEF InRange
  <2>5. Within(n, parseRange(value)) \in BOOLEAN /\ InRange(n, value) \in BOOLEAN
    BY DEF Within, InRange
  <2> QED
    BY <2>3, <2>4, <2>5
<1>3. CASE Len(value) >= 2
  <2>0. Len(value) # 0 /\ Len(value) # 1
    BY <1>0, <1>3, <1>7
  <2>1. parseRange(value) = [min |-> Bound(value, 1),
                             max |-> IF Len(value) = 2 THEN Bound(value, 2) ELSE 0]
    BY <2>0 DEF parseRange
  <2>2. value[1] \in Int /\ value[2] \in Int /\ value # <<>>
    BY <1>0, <1>6, <1>3
  <2>3. Within(n, parseRange(value)) <=>
            n >= value[1] /\ (Len(value) = 2 => value[2] <= 0 \/ n <= value[2])
    BY <2>1, <2>2 DEF Within, Bound
  <2>4. InRange(n, value) <=>
            n >= value[1] /\ (Len(value) = 2 => value[2] <= 0 \/ n <= value[2])
    <3>1. CASE Len(value) = 2
      <4>1. ~(Len(value) = 1) /\ ~(Len(value) > 2)
        BY <3>1
      <4> QED
        BY <2>2, <3>1, <4>1 DEF InRange
    <3>2. CASE Len(value) > 2
      <4>1. ~(Len(value) = 1) /\ ~(Len(value) = 2)
        BY <1>0, <3>2, <1>7
      <4>2. InRange(n, value) <=> n >= value[1]
        BY <2>2, <3>2, <4>1, Zenon DEF InRange
      <4> QED
        BY <4>1, <4>2, Zenon
    <3>3. Len(value) = 2 \/ Len(value) > 2
      BY <1>0, <1>3, <1>7
    <3> QED
      BY <3>1, <3>2, <3>3, Zenon
  <2>5. Within(n, parseRange(value)) \in BOOLEAN /\ InRange(n, value) \in BOOLEAN
    BY DEF Within, InRange
  <2> QED
    BY <2>3, <2>4, <2>5
<1>4. Len(value) = 0 \/ Len(value) = 1 \/ Len(value) >= 2
  BY <1>0, <1>7
<1> QED
  BY <1>1, <1>2, <1>3, <1>4, Zenon

\* What a catalogue holds are sizes, and names that are worth one.
LEMMA CatalogueFacts ==
    ASSUME NEW types, IsCatalogue(types)
    PROVE  \A i \in DOMAIN types : /\ i \in Nat /\ types[i].vcpus \in Nat /\ types[i].memory \in Nat
                                   /\ types[i].name # <<>>
<1> DEFINE R == [name : {types[i].name : i \in DOMAIN types} \ {<<>>}, vcpus : Nat, memory : Nat]
<1>1. types \in Seq(R)
  BY DEF IsCatalogue
<1>2. \A e \in R : e.vcpus \in Nat /\ e.memory \in Nat /\ e.name # <<>>
  OBVIOUS
<1> HIDE DEF R
<1>3. \A i \in DOMAIN types : i \in Nat /\ types[i] \in R
  BY <1>1
<1> QED
  BY <1>2, <1>3

\* The machine type that the loop ends with is one that matches, none that matches
\* is smaller, and it is there whenever one matches (ResolveMachineType).
LEMMA BestFits ==
    ASSUME NEW types, IsCatalogue(types), NEW r, Fitting(types, r) # {}
    PROVE  /\ Best(types, r) \in Fitting(types, r)
           /\ \A j \in Fitting(types, r) : ~Smaller(types[j], types[Best(types, r)])
<1> DEFINE F == Fitting(types, r)
<1>1. \A i \in DOMAIN types : i \in Nat /\ types[i].vcpus \in Nat /\ types[i].memory \in Nat
  BY CatalogueFacts
<1>2. F \subseteq DOMAIN types
  BY DEF Fitting
<1> HIDE DEF F
<1>3. PICK a \in F : \A j \in F : types[a].vcpus <= types[j].vcpus
  <2> DEFINE V == {types[i].vcpus : i \in F}
  <2>1. V \subseteq Nat /\ V # {}
    BY <1>1, <1>2 DEF F
  <2>2. PICK v \in V : \A w \in V : v <= w
    <3> HIDE DEF V
    <3> QED
      BY <2>1, HasLeast
  <2> QED
    BY <2>2
<1> DEFINE G == {i \in F : types[i].vcpus = types[a].vcpus}
<1>4. PICK b \in G : \A j \in G : types[b].memory <= types[j].memory
  <2> DEFINE M == {types[i].memory : i \in G}
  <2>1. M \subseteq Nat /\ M # {}
    BY <1>1, <1>2, <1>3
  <2>2. PICK m \in M : \A w \in M : m <= w
    <3> HIDE DEF M
    <3> QED
      BY <2>1, HasLeast
  <2> QED
    BY <2>2
<1> DEFINE H == {i \in G : types[i].memory = types[b].memory}
<1>5. PICK c \in H : \A j \in H : c <= j
  <2>1. H \subseteq Nat /\ H # {}
    BY <1>1, <1>2, <1>4
  <2> HIDE DEF H
  <2> QED
    BY <2>1, HasLeast
<1>6. c \in F /\ \A j \in F : ~Smaller(types[j], types[c]) /\ (j < c => Smaller(types[c], types[j]))
  <2>1. c \in F /\ types[c].vcpus = types[a].vcpus /\ types[c].memory = types[b].memory
    BY <1>5
  <2>2. ASSUME NEW j \in F
        PROVE  ~Smaller(types[j], types[c]) /\ (j < c => Smaller(types[c], types[j]))
    <3>1. types[j].vcpus \in Nat /\ types[c].vcpus \in Nat /\ types[j].memory \in Nat
          /\ types[c].memory \in Nat /\ j \in Nat /\ c \in Nat
      BY <1>1, <1>2, <2>1
    <3>2. types[c].vcpus <= types[j].vcpus
      BY <1>3, <2>1
    <3>3. types[j].vcpus = types[c].vcpus => types[c].memory <= types[j].memory
      BY <1>4, <2>1
    <3>4. types[j].vcpus = types[c].vcpus /\ types[j].memory = types[c].memory => c <= j
      BY <1>5, <2>1
    <3> QED
      BY <3>1, <3>2, <3>3, <3>4 DEF Smaller
  <2> QED
    BY <2>1, <2>2
<1>7. Best(types, r) = CHOOSE i \in F : \A j \in F :
                           ~Smaller(types[j], types[i]) /\ (j < i => Smaller(types[i], types[j]))
  BY DEF Best, F
<1>8. Best(types, r) \in F /\ \A j \in F : ~Smaller(types[j], types[Best(types, r)])
  <2> HIDE DEF G, H
  <2> QED
    BY <1>6, <1>7
<1> QED
  BY <1>8 DEF F

\* Turning the zones round moves them and no more (rotate).
LEMMA RotateFacts ==
    ASSUME NEW list \in Seq(STRING), NEW o \in Nat
    PROVE  /\ rotate(list, o) \in Seq(STRING)
           /\ Len(rotate(list, o)) = Len(list)
           /\ \A k \in DOMAIN list : \E i \in DOMAIN rotate(list, o) : rotate(list, o)[i] = list[k]
           /\ IsInjective(list) => IsInjective(rotate(list, o))
<1> DEFINE n == Len(list)
<1>0. n \in Nat /\ DOMAIN list = 1 .. n
  OBVIOUS
<1>1. CASE n < 2
  <2>1. rotate(list, o) = list
    BY <1>1 DEF rotate
  <2> QED
    BY <2>1
<1>2. CASE n >= 2
  <2> DEFINE s == o % n
  <2> DEFINE z == rotate(list, o)
  <2>1. s \in Nat /\ s < n
    <3> HIDE DEF n
    <3> QED
      BY <1>0, <1>2
  <2>2. z = SubSeq(list, s + 1, n) \o SubSeq(list, 1, s)
    BY <1>0, <1>2 DEF rotate
  <2> HIDE DEF s
  <2>3. /\ SubSeq(list, s + 1, n) \in Seq(STRING) /\ Len(SubSeq(list, s + 1, n)) = n - s
        /\ \A i \in 1 .. n - s : SubSeq(list, s + 1, n)[i] = list[s + i]
    <3>1. s + 1 \in Int /\ n \in Int /\ \A i \in s + 1 .. n : list[i] \in STRING
      BY <1>0, <2>1
    <3>2. s + 1 <= n /\ n - (s + 1) + 1 = n - s /\ \A i \in 1 .. n - s : (s + 1) + i - 1 = s + i
      BY <1>0, <2>1
    <3> HIDE DEF n
    <3> QED
      BY <3>1, <3>2, SubSeqProperties
  <2>4. /\ SubSeq(list, 1, s) \in Seq(STRING) /\ Len(SubSeq(list, 1, s)) = s
        /\ \A i \in 1 .. s : SubSeq(list, 1, s)[i] = list[i]
    BY <1>0, <2>1
  <2> HIDE DEF n, z
  <2>5. z \in Seq(STRING) /\ Len(z) = n /\ DOMAIN z = 1 .. n
    BY <1>0, <2>1, <2>2, <2>3, <2>4
  <2>6. \A i \in 1 .. n : z[i] = IF i <= n - s THEN list[s + i] ELSE list[i - (n - s)]
    BY <1>0, <2>1, <2>2, <2>3, <2>4
  <2>7. ASSUME NEW k \in DOMAIN list PROVE \E i \in DOMAIN z : z[i] = list[k]
    <3>1. CASE k > s
      <4>1. k - s \in 1 .. n /\ k - s <= n - s /\ s + (k - s) = k
        BY <1>0, <2>1, <3>1
      <4> QED
        BY <2>5, <2>6, <4>1
    <3>2. CASE k <= s
      <4>1. k + (n - s) \in 1 .. n /\ ~(k + (n - s) <= n - s) /\ (k + (n - s)) - (n - s) = k
        BY <1>0, <2>1, <3>2
      <4> QED
        BY <2>5, <2>6, <4>1
    <3> QED
      BY <1>0, <2>1, <3>1, <3>2
  <2>8. ASSUME IsInjective(list) PROVE IsInjective(z)
    <3>1. \A i, j \in 1 .. n : list[i] = list[j] => i = j
      BY <1>0, <2>8 DEF IsInjective
    <3>2. ASSUME NEW i \in 1 .. n, NEW j \in 1 .. n, z[i] = z[j] PROVE i = j
      <4> DEFINE at(x) == IF x <= n - s THEN s + x ELSE x - (n - s)
      <4>1. at(i) \in 1 .. n /\ at(j) \in 1 .. n /\ (at(i) = at(j) => i = j)
        BY <1>0, <2>1
      <4>2. z[i] = list[at(i)] /\ z[j] = list[at(j)]
        BY <2>6
      <4> HIDE DEF at
      <4> QED
        BY <3>1, <3>2, <4>1, <4>2
    <3> QED
      BY <2>5, <3>2 DEF IsInjective
  <2> QED
    BY <2>5, <2>7, <2>8 DEF n, z
<1> QED
  BY <1>0, <1>1, <1>2

\* Whatever a job asks for, its VM has a lifetime that ends, no shorter than the
\* timeout unless GitHub would have stopped the job before (lifetime).
THEOREM LifetimeCovers ==
    ASSUME NEW t \in Seq(Int)
    PROVE  /\ bootAllowance < lifetime(t) /\ lifetime(t) <= longestTimeout + bootAllowance
           /\ t # <<>> /\ t[1] <= longestTimeout => t[1] + bootAllowance <= lifetime(t)
<1> DEFINE asked == IF t # <<>> /\ t[1] > 0 THEN t[1] ELSE defaultTimeout
<1>1. asked \in Int /\ asked > 0 /\ (t # <<>> => t[1] <= asked)
  <2>1. t # <<>> => t[1] \in Int
    OBVIOUS
  <2> QED
    BY <2>1 DEF defaultTimeout
<1>2. lifetime(t) = Min({asked, longestTimeout}) + bootAllowance
  BY DEF lifetime
<1>3. t # <<>> => t[1] \in Int
  OBVIOUS
<1> HIDE DEF asked
<1>4. Min({asked, longestTimeout}) = IF asked <= longestTimeout THEN asked ELSE longestTimeout
  BY <1>1, MinOfTwo DEF longestTimeout
<1> QED
  BY <1>1, <1>2, <1>3, <1>4 DEF defaultTimeout, longestTimeout, bootAllowance

\* The upper settings hide the lower ones; a deleted one is no longer there.
LEMMA MergedValue ==
    ASSUME NEW lower, NEW upper, NEW key
    PROVE  Value(Merge(lower, upper), key) =
               IF key \in DOMAIN upper THEN upper[key] ELSE Value(lower, key)
BY DEF Merge, Value

LEMMA DeletedValue ==
    ASSUME NEW settings, NEW deleted, NEW key
    PROVE  Value(Delete(settings, deleted), key) =
               IF key = deleted THEN <<>> ELSE Value(settings, key)
BY DEF Delete, Value

\* A setting of the job laid over its preset.
Laid(j, preset, key) ==
    IF key \in DOMAIN j.settings THEN j.settings[key] ELSE Value(preset, key)

\* The job picks a machine, or a size and no machine.
PicksMachine(j) == Set(j.settings, "machine") /\ ~Set(j.settings, "family")
PicksSize(j) == ~Set(j.settings, "machine") /\ (Set(j.settings, "cpu") \/ Set(j.settings, "ram"))

\* What is left of the preset's way to pick a machine once the job has picked its own
\* (runner).
LEMMA ExplicitValue ==
    ASSUME NEW j, NEW preset
    PROVE  /\ Value(Explicit(j, preset), "family") =
                  IF PicksMachine(j) THEN <<>> ELSE Laid(j, preset, "family")
           /\ Value(Explicit(j, preset), "machine") =
                  IF PicksSize(j) THEN <<>> ELSE Laid(j, preset, "machine")
           /\ \A key : key \notin {"family", "machine"} =>
                  Value(Explicit(j, preset), key) = Laid(j, preset, key)
           /\ \A key : key \notin {"family", "machine"} =>
                  (key \in DOMAIN Explicit(j, preset) <=> key \in DOMAIN j.settings \cup DOMAIN preset)
           /\ ~PicksSize(j) =>
                  ("machine" \in DOMAIN Explicit(j, preset)
                       <=> "machine" \in DOMAIN j.settings \cup DOMAIN preset)
<1> DEFINE both == Merge(preset, j.settings)
<1> DEFINE one == IF PicksMachine(j) THEN Delete(both, "family") ELSE both
<1> DEFINE E == Explicit(j, preset)
<1>1. E = IF PicksSize(j) THEN Delete(one, "machine") ELSE one
  BY DEF Explicit, PicksMachine, PicksSize
<1>2. \A key : Value(both, key) = Laid(j, preset, key)
  BY MergedValue DEF Laid
<1>3. DOMAIN both = DOMAIN j.settings \cup DOMAIN preset
  BY DEF Merge
<1> HIDE DEF both, E
<1>4. \A key : Value(one, key) =
          IF PicksMachine(j) /\ key = "family" THEN <<>> ELSE Laid(j, preset, key)
  BY <1>2, DeletedValue
<1>5. \A key : key # "family" => (key \in DOMAIN one <=> key \in DOMAIN both)
  BY DEF Delete
<1> HIDE DEF one
<1>6. \A key : Value(E, key) =
          IF PicksSize(j) /\ key = "machine" THEN <<>> ELSE Value(one, key)
  BY <1>1, DeletedValue
<1>7. \A key : key # "machine" \/ ~PicksSize(j) => (key \in DOMAIN E <=> key \in DOMAIN one)
  BY <1>1 DEF Delete
<1>8. "family" # "machine"
  OBVIOUS
<1>9. Value(E, "family") = IF PicksMachine(j) THEN <<>> ELSE Laid(j, preset, "family")
  BY <1>4, <1>6, <1>8
<1>10. Value(E, "machine") = IF PicksSize(j) THEN <<>> ELSE Laid(j, preset, "machine")
  BY <1>4, <1>6, <1>8
<1>11. ASSUME NEW key, key \notin {"family", "machine"}
       PROVE  /\ Value(E, key) = Laid(j, preset, key)
              /\ key \in DOMAIN E <=> key \in DOMAIN j.settings \cup DOMAIN preset
  BY <1>3, <1>4, <1>5, <1>6, <1>7, <1>11
<1>12. ~PicksSize(j) =>
          ("machine" \in DOMAIN E <=> "machine" \in DOMAIN j.settings \cup DOMAIN preset)
  BY <1>3, <1>5, <1>7, <1>8
<1> QED
  BY <1>9, <1>10, <1>11, <1>12 DEF E

\* What the runner of a job is made of, setting by setting (runner).
LEMMA RunnerFields ==
    ASSUME NEW j, NEW preset
    PROVE  LET r == runnerOf(j, preset)
               e == Explicit(j, preset)
           IN  /\ r.family = Value(e, "family")
               /\ r.cpu = Value(e, "cpu") /\ r.ram = Value(e, "ram") /\ r.zone = Value(e, "zone")
               /\ r.machine = IF "machine" \in DOMAIN e THEN Value(e, "machine")
                              ELSE defaultSettings["machine"]
               /\ r.spot = ((IF "spot" \in DOMAIN e THEN Value(e, "spot")
                              ELSE defaultSettings["spot"]) # <<"false">>)
               /\ r.disk = IF "disk" \in DOMAIN e THEN Value(e, "disk")
                           ELSE defaultSettings["disk"]
               /\ r.image = IF "image" \in DOMAIN e THEN Value(e, "image")
                            ELSE defaultSettings["image"]
               /\ r.timeout = IF "timeout" \in DOMAIN e THEN Value(e, "timeout")
                              ELSE defaultSettings["timeout"]
               /\ r.mode = classifyMachineMode(e)
<1> DEFINE e == Explicit(j, preset)
<1> DEFINE s == Merge(defaultSettings, e)
<1>1. \A key : Value(s, key) = IF key \in DOMAIN e THEN Value(e, key) ELSE Value(defaultSettings, key)
  <2> SUFFICES ASSUME NEW key
               PROVE  Value(s, key) = IF key \in DOMAIN e THEN Value(e, key)
                                      ELSE Value(defaultSettings, key)
    OBVIOUS
  <2> HIDE DEF e
  <2>1. key \in DOMAIN e => Value(e, key) = e[key]
    BY DEF Value
  <2> QED
    BY <2>1, MergedValue
<1>2. DOMAIN defaultSettings = {"machine", "spot", "disk", "disk-type", "image", "timeout"}
  BY DEF defaultSettings
<1>3. \A key \in {"family", "cpu", "ram", "zone"} : Value(s, key) = Value(e, key)
  <2> HIDE DEF e, s
  <2> SUFFICES ASSUME NEW key \in {"family", "cpu", "ram", "zone"}
               PROVE  Value(s, key) = Value(e, key)
    OBVIOUS
  <2>1. key \notin DOMAIN defaultSettings
    BY <1>2
  <2> QED
    BY <1>1, <2>1 DEF Value
<1>4. \A key \in {"machine", "spot", "disk", "image", "timeout"} :
          Value(s, key) = IF key \in DOMAIN e THEN Value(e, key) ELSE defaultSettings[key]
  <2> HIDE DEF e, s
  <2> SUFFICES ASSUME NEW key \in {"machine", "spot", "disk", "image", "timeout"}
               PROVE  Value(s, key) = IF key \in DOMAIN e THEN Value(e, key) ELSE defaultSettings[key]
    OBVIOUS
  <2>1. Value(defaultSettings, key) = defaultSettings[key]
    BY <1>2 DEF Value
  <2> QED
    BY <1>1, <2>1
<1>5. runnerOf(j, preset) =
         [machine |-> Value(s, "machine"), family |-> Value(s, "family"),
          cpu |-> Value(s, "cpu"), ram |-> Value(s, "ram"),
          spot |-> Value(s, "spot") # <<"false">>,
          disk |-> Value(s, "disk"), diskType |-> Value(s, "disk-type"),
          image |-> Value(s, "image"), zone |-> Value(s, "zone"),
          timeout |-> Value(s, "timeout"), mode |-> classifyMachineMode(e)]
  BY DEF runnerOf
<1> HIDE DEF e, s
<1> DEFINE r == runnerOf(j, preset)
<1>6. /\ r.machine = Value(s, "machine") /\ r.family = Value(s, "family")
      /\ r.cpu = Value(s, "cpu") /\ r.ram = Value(s, "ram")
      /\ r.disk = Value(s, "disk") /\ r.image = Value(s, "image") /\ r.zone = Value(s, "zone")
      /\ r.timeout = Value(s, "timeout") /\ r.mode = classifyMachineMode(e)
  BY <1>5
<1>7. r.spot = (Value(s, "spot") # <<"false">>)
  BY <1>5
<1> HIDE DEF r
<1>8. /\ r.family = Value(e, "family")
      /\ r.cpu = Value(e, "cpu") /\ r.ram = Value(e, "ram") /\ r.zone = Value(e, "zone")
  BY <1>3, <1>6
<1>9. /\ r.machine = IF "machine" \in DOMAIN e THEN Value(e, "machine") ELSE defaultSettings["machine"]
      /\ r.disk = IF "disk" \in DOMAIN e THEN Value(e, "disk") ELSE defaultSettings["disk"]
      /\ r.image = IF "image" \in DOMAIN e THEN Value(e, "image") ELSE defaultSettings["image"]
      /\ r.timeout = IF "timeout" \in DOMAIN e THEN Value(e, "timeout") ELSE defaultSettings["timeout"]
  BY <1>4, <1>6
<1>10. Value(s, "spot") = IF "spot" \in DOMAIN e THEN Value(e, "spot") ELSE defaultSettings["spot"]
  BY <1>4
<1>11. r.spot = ((IF "spot" \in DOMAIN e THEN Value(e, "spot")
                  ELSE defaultSettings["spot"]) # <<"false">>)
  <2> DEFINE v == IF "spot" \in DOMAIN e THEN Value(e, "spot") ELSE defaultSettings["spot"]
  <2>1. Value(s, "spot") = v
    BY <1>10
  <2> HIDE DEF v
  <2>2. (Value(s, "spot") # <<"false">>) = (v # <<"false">>)
    BY <2>1
  <2>3. r.spot = (v # <<"false">>)
    BY <1>7, <2>2, Zenon
  <2> QED
    BY <2>3, Zenon DEF v
<1> QED
  BY <1>6, <1>8, <1>9, <1>11, Zenon DEF r, e

\* A job that names its machine gets that machine, whatever its preset sets
\* (runner, classifyMachineMode).
THEOREM MachineIsExact ==
    ASSUME NEW j, NEW preset, Set(j.settings, "machine"), ~Set(j.settings, "family")
    PROVE  /\ runnerOf(j, preset).mode = "exact"
           /\ runnerOf(j, preset).machine = j.settings["machine"]
<1> DEFINE both == Merge(preset, j.settings)
<1>1. Explicit(j, preset) = Delete(both, "family")
  BY DEF Explicit
<1>2. Value(Explicit(j, preset), "family") = <<>>
  BY <1>1, DeletedValue, "family" = "family"
<1>3. "machine" \in DOMAIN j.settings /\ j.settings["machine"] # <<>>
  BY DEF Set, Value
<1>4. Value(both, "machine") = j.settings["machine"]
  BY <1>3, MergedValue
<1>5. Value(Explicit(j, preset), "machine") = j.settings["machine"]
  <2>1. "machine" # "family"
    OBVIOUS
  <2> QED
    BY <1>1, <1>4, <2>1, DeletedValue
<1>6. classifyMachineMode(Explicit(j, preset)) = "exact"
  BY <1>2, <1>3, <1>5 DEF classifyMachineMode, Set
<1>7. Value(Merge(defaultSettings, Explicit(j, preset)), "machine") = j.settings["machine"]
  <2>1. "machine" \in DOMAIN Explicit(j, preset)
    BY <1>3, <1>5 DEF Value
  <2> QED
    BY <1>5, <2>1, MergedValue DEF Value
<1> QED
  BY <1>6, <1>7 DEF runnerOf

\* A job that names a constraint and no machine never gets the one its preset
\* pins: the machine is chosen to fit (runner, classifyMachineMode).
THEOREM ConstraintIsNoNoOp ==
    ASSUME NEW j, NEW preset, ~Set(j.settings, "machine"),
           Set(j.settings, "cpu") \/ Set(j.settings, "ram")
    PROVE  runnerOf(j, preset).mode # "exact"
<1> DEFINE both == Merge(preset, j.settings)
<1>1. Explicit(j, preset) = Delete(both, "machine")
  BY DEF Explicit
<1>2. Value(Explicit(j, preset), "machine") = <<>>
  BY <1>1, DeletedValue, "machine" = "machine"
<1>3. \A key \in {"cpu", "ram"} : Set(j.settings, key) => Set(Explicit(j, preset), key)
  <2> SUFFICES ASSUME NEW key \in {"cpu", "ram"}, Set(j.settings, key)
               PROVE  Set(Explicit(j, preset), key)
    OBVIOUS
  <2>1. key # "machine"
    OBVIOUS
  <2>2. key \in DOMAIN j.settings /\ j.settings[key] # <<>>
    BY DEF Set, Value
  <2>3. Value(both, key) = j.settings[key]
    BY <2>2, MergedValue
  <2> QED
    BY <1>1, <2>1, <2>2, <2>3, DeletedValue DEF Set
<1>4. classifyMachineMode(Explicit(j, preset)) # "exact"
  BY <1>2, <1>3 DEF classifyMachineMode, Set
<1> QED
  BY <1>4 DEF runnerOf

LEMMA Merged ==
    ASSUME NEW lower, NEW upper
    PROVE  /\ DOMAIN Merge(lower, upper) = DOMAIN lower \cup DOMAIN upper
           /\ \A k \in DOMAIN upper : Merge(lower, upper)[k] = upper[k]
           /\ \A k \in DOMAIN lower \ DOMAIN upper : Merge(lower, upper)[k] = lower[k]
BY DEF Merge

\* What a repository defines itself is never replaced by what it inherits, and
\* what it does not define it gets (extend).
THEOREM LocalWins ==
    ASSUME NEW own, NEW base
    PROVE  /\ \A name \in DOMAIN own.runners : extend(own, base).runners[name] = own.runners[name]
           /\ \A name \in DOMAIN base.runners \ DOMAIN own.runners :
                  extend(own, base).runners[name] = base.runners[name]
           /\ \A name \in DOMAIN own.images : extend(own, base).images[name] = own.images[name]
<1>1. /\ extend(own, base).runners = Merge(base.runners, own.runners)
      /\ extend(own, base).images = Merge(base.images, own.images)
  BY DEF extend
<1>2. /\ \A k \in DOMAIN own.runners : Merge(base.runners, own.runners)[k] = own.runners[k]
      /\ \A k \in DOMAIN base.runners \ DOMAIN own.runners :
             Merge(base.runners, own.runners)[k] = base.runners[k]
  BY DEF Merge
<1>3. \A k \in DOMAIN own.images : Merge(base.images, own.images)[k] = own.images[k]
  BY DEF Merge
<1> QED
  BY <1>1, <1>2, <1>3

-----------------------------------------------------------------------------
(***************************************************************************)
(* The invariant.  What is read of the config at each step, and what is    *)
(* made of it; the rest of TypeOK is what they need to be stated.          *)
(***************************************************************************)

\* The config, once the files that it is made of are read.
ConfigOf ==
    IF Loaded(Own) = "missing" THEN NoConfig
    ELSE IF Loaded(Own) = "forbidden" THEN Unreadable(NoConfig)
    ELSE IF ~Inherits THEN Config(Own)
    ELSE IF Loaded(Base) = "ok" THEN extend(Config(Own), Config(Base))
    ELSE Unreadable(extend(Config(Own), NoConfig))

Readable == {"ok", "missing", "forbidden"}

ReadAll == Loaded(Own) \in Readable /\ (Inherits => Loaded(Base) \in Readable) /\ config = ConfigOf

ConfigRead ==
    /\ pc = "extend" => Inherits /\ config = Config(Own)
    /\ pc = "resolve" => ReadAll

\* The runner of a job that names its machine.
Named == Set(job.settings, "machine") /\ ~Set(job.settings, "family")

RunnerNamed ==
    /\ pc \in {"zones", "placing"} /\ Named =>
           runner.mode = "exact" /\ runner.machine = job.settings["machine"]
    /\ pc \in {"new", "load", "extend", "resolve", "zones"} => tried = <<>>

\* A job that names its machine has no other asked for, whatever the configs and the
\* catalogues hold (createRunnerInstance).
OnlyNamedAsked == \A i \in DOMAIN tried : Named => tried[i].type = job.settings["machine"]

TriedIsSeq == \E S : tried \in Seq(S)

IInv ==
    /\ event \in Events /\ TypeOK /\ TriedIsSeq /\ ConfigRead /\ RunnerNamed /\ OnlyNamedAsked
    /\ HeldOnlyIfUndefined

LEMMA NothingTried == DOMAIN <<>> = {}
OBVIOUS

LEMMA Initially == Init => IInv
<1> SUFFICES ASSUME Init PROVE IInv
  OBVIOUS
<1>1. tried = <<>> /\ pc = "new" /\ reason = "" /\ guessed = FALSE
  BY DEF Init
<1>0. event \in Events
  BY DEF Init
<1>2. TypeOK
  <2>1. config.unreadable \in BOOLEAN
    BY DEF Init, NoConfig
  <2>2. runner.mode \in {"exact", "family", "auto"} /\ runner.spot \in BOOLEAN
    BY DEF Init, NoRunner, runnerOf, classifyMachineMode
  <2> QED
    BY <1>1, <2>1, <2>2, NothingTried DEF TypeOK
<1>3. TriedIsSeq
  BY <1>1, EmptySeq DEF TriedIsSeq
<1>4. ConfigRead /\ RunnerNamed /\ OnlyNamedAsked /\ HeldOnlyIfUndefined
  BY <1>1, NothingTried DEF ConfigRead, RunnerNamed, OnlyNamedAsked, HeldOnlyIfUndefined
<1> QED
  BY <1>0, <1>2, <1>3, <1>4 DEF IInv

\* A read answers one of four things, whatever the place.
LEMMA StatusOf ==
    ASSUME event \in Events, NEW place
    PROVE  File(place).status \in Statuses
<1>1. CASE place \in DOMAIN event.contents
  BY <1>1, ResolutionAssumption DEF File, IsFile
<1>2. CASE place \notin DOMAIN event.contents
  BY <1>2 DEF File, Statuses
<1> QED
  BY <1>1, <1>2

LEMMA LoadedOf ==
    ASSUME event \in Events
    PROVE  /\ Loaded(Own) \in Statuses \cup {"invalid"} /\ Loaded(Base) \in Statuses \cup {"invalid"}
           /\ \A s \in {"missing", "forbidden"} : Loaded(Own) = s <=> Own.status = s
           /\ \A s \in {"missing", "forbidden"} : Loaded(Base) = s <=> Base.status = s
<1>1. Own.status \in Statuses /\ Base.status \in Statuses
  BY StatusOf DEF Own, Base
<1>2. ASSUME NEW file, file.status \in Statuses
      PROVE  /\ Loaded(file) \in Statuses \cup {"invalid"}
             /\ \A s \in {"missing", "forbidden"} : Loaded(file) = s <=> file.status = s
  <2>1. CASE file.status # "ok"
    <3>1. Loaded(file) = file.status
      BY <2>1 DEF Loaded
    <3> QED
      BY <1>2, <3>1
  <2>2. CASE file.status = "ok"
    <3>1. Loaded(file) \in {"ok", "invalid"}
      BY <2>2 DEF Loaded
    <3> QED
      BY <2>2, <3>1 DEF Statuses
  <2> QED
    BY <2>1, <2>2
<1> QED
  BY <1>1, <1>2

\* Own and Base are of the event alone.
LEMMA SameFiles ==
    ASSUME UNCHANGED event
    PROVE  Own' = Own /\ Base' = Base /\ Inherits' = Inherits /\ ConfigOf' = ConfigOf
<1>1. \A place : File(place)' = File(place)
  BY DEF File
<1>2. Own' = Own
  BY DEF Own, File
<1>3. Base' = Base
  BY <1>2 DEF Base, File
<1> QED
  BY <1>2, <1>3 DEF Inherits, ConfigOf

\* Where a step leaves reason alone it stays "".
LEMMA NotFailed ==
    ASSUME TypeOK, pc # "failed"
    PROVE  reason = ""
BY DEF TypeOK

LEMMA AdmitStep ==
    ASSUME IInv, Admit \/ SourceUnknown
    PROVE  IInv'
<1>0. pc = "new" /\ tried = <<>> /\ reason = ""
  BY NotFailed DEF IInv, RunnerNamed, Admit, SourceUnknown
<1>1. /\ UNCHANGED <<event, config, runner, zones, guessed, tried>>
      /\ \/ pc' \in {"ignored", "load", "retry"} /\ reason' = reason
         \/ pc' = "failed" /\ reason' = "source"
  BY DEF Admit, SourceUnknown, inputs, GoOn, FailRun
<1>2. (event \in Events)' /\ TypeOK' /\ TriedIsSeq'
  BY <1>0, <1>1 DEF IInv, TypeOK, TriedIsSeq
<1>3. ConfigRead' /\ RunnerNamed'
  BY <1>0, <1>1 DEF ConfigRead, RunnerNamed
<1>4. OnlyNamedAsked'
  BY <1>0, <1>1, NothingTried DEF OnlyNamedAsked
<1>5. HeldOnlyIfUndefined'
  BY <1>0, <1>1 DEF HeldOnlyIfUndefined
<1> QED
  BY <1>2, <1>3, <1>4, <1>5 DEF IInv

LEMMA LoadOwnStep ==
    ASSUME IInv, LoadOwn
    PROVE  IInv'
<1>0. pc = "load" /\ tried = <<>> /\ reason = ""
  BY NotFailed DEF IInv, RunnerNamed, LoadOwn
<1>1. /\ UNCHANGED <<event, job, runner, zones, guessed, tried>>
      /\ \/ pc' \in {"retry", "extend", "resolve"} /\ reason' = reason
         \/ pc' = "failed" /\ reason' = "invalid"
  BY DEF LoadOwn, inputs, GoOn, FailRun
<1>2. Own' = Own /\ Base' = Base /\ Inherits' = Inherits /\ ConfigOf' = ConfigOf
  BY <1>1, SameFiles
<1>4. pc' = "extend" => Loaded(Own) = "ok" /\ Own.extends # <<>> /\ config' = Config(Own)
  BY DEF LoadOwn, GoOn, FailRun
<1>5. pc' = "resolve" => ReadAll'
  <2> SUFFICES ASSUME pc' = "resolve" PROVE ReadAll'
    OBVIOUS
  <2>1. Loaded(Own) \in Readable /\ ~Inherits
    BY LoadedOf DEF IInv, LoadOwn, GoOn, FailRun, Statuses, Readable, Inherits
  <2>2. config' = ConfigOf
    <3>1. CASE Loaded(Own) = "ok"
      BY <2>1, <3>1 DEF LoadOwn, ConfigOf
    <3>2. CASE Loaded(Own) = "forbidden"
      BY <3>2 DEF LoadOwn, ConfigOf
    <3>3. CASE Loaded(Own) = "missing"
      BY <3>3 DEF LoadOwn, ConfigOf
    <3> QED
      BY <2>1, <3>1, <3>2, <3>3 DEF Readable
  <2> QED
    BY <1>2, <2>1, <2>2 DEF ReadAll
<1>6. config'.unreadable \in BOOLEAN
  <2>1. config' \in {Config(Own), Unreadable(NoConfig), NoConfig}
    BY DEF LoadOwn
  <2>2. Config(Own).unreadable = FALSE
    BY DEF Config
  <2>3. Unreadable(NoConfig).unreadable = TRUE
    BY DEF Unreadable
  <2>4. NoConfig.unreadable = FALSE
    BY DEF NoConfig
  <2> QED
    BY <2>1, <2>2, <2>3, <2>4
<1>7. (event \in Events)' /\ TypeOK' /\ TriedIsSeq'
  BY <1>0, <1>1, <1>6 DEF IInv, TypeOK, TriedIsSeq
<1>8. ConfigRead' /\ RunnerNamed'
  BY <1>0, <1>1, <1>2, <1>4, <1>5 DEF ConfigRead, RunnerNamed, Inherits
<1>9. OnlyNamedAsked' /\ HeldOnlyIfUndefined'
  BY <1>0, <1>1, NothingTried DEF OnlyNamedAsked, HeldOnlyIfUndefined
<1> QED
  BY <1>7, <1>8, <1>9 DEF IInv

LEMMA LoadBaseStep ==
    ASSUME IInv, LoadBase
    PROVE  IInv'
<1>0. pc = "extend" /\ tried = <<>> /\ reason = "" /\ Inherits /\ config = Config(Own)
  BY NotFailed DEF IInv, RunnerNamed, ConfigRead, LoadBase
<1>1. /\ UNCHANGED <<event, job, runner, zones, guessed, tried>>
      /\ \/ pc' \in {"retry", "resolve"} /\ reason' = reason
         \/ pc' = "failed" /\ reason' = "invalid"
  BY DEF LoadBase, inputs, GoOn, FailRun
<1>2. Own' = Own /\ Base' = Base /\ Inherits' = Inherits /\ ConfigOf' = ConfigOf
  BY <1>1, SameFiles
<1>5. pc' = "resolve" => ReadAll'
  <2> SUFFICES ASSUME pc' = "resolve" PROVE ReadAll'
    OBVIOUS
  <2>1. Loaded(Own) = "ok" /\ Loaded(Base) \in Readable
    BY <1>0, LoadedOf DEF IInv, LoadBase, GoOn, FailRun, Statuses, Readable, Inherits
  <2>2. config' = ConfigOf
    <3>1. CASE Loaded(Base) = "ok"
      BY <1>0, <2>1, <3>1 DEF LoadBase, ConfigOf
    <3>2. CASE Loaded(Base) \in {"missing", "forbidden"}
      BY <1>0, <2>1, <3>2 DEF LoadBase, ConfigOf
    <3> QED
      BY <2>1, <3>1, <3>2 DEF Readable
  <2> QED
    BY <1>2, <2>1, <2>2 DEF ReadAll, Readable
<1>6. config'.unreadable \in BOOLEAN
  <2>1. config' \in {extend(config, Config(Base)), config,
                     Unreadable(extend(config, NoConfig))}
    BY DEF LoadBase
  <2>2. config.unreadable = FALSE
    BY <1>0 DEF Config
  <2>3. extend(config, Config(Base)).unreadable = FALSE
    BY DEF extend
  <2>4. Unreadable(extend(config, NoConfig)).unreadable = TRUE
    BY DEF Unreadable
  <2> QED
    BY <2>1, <2>2, <2>3, <2>4
<1>7. (event \in Events)' /\ TypeOK' /\ TriedIsSeq'
  BY <1>0, <1>1, <1>6 DEF IInv, TypeOK, TriedIsSeq
<1>8. ConfigRead' /\ RunnerNamed'
  BY <1>0, <1>1, <1>5 DEF ConfigRead, RunnerNamed
<1>9. OnlyNamedAsked' /\ HeldOnlyIfUndefined'
  BY <1>0, <1>1, NothingTried DEF OnlyNamedAsked, HeldOnlyIfUndefined
<1> QED
  BY <1>7, <1>8, <1>9 DEF IInv

\* What the two files make of the config together: the repository's own first.
LEMMA ConfigMeans ==
    ASSUME event \in Events, ReadAll
    PROVE  LET own == Loaded(Own) = "ok"
               base == Inherits /\ Loaded(Base) = "ok"
           IN  /\ \A n : n \in DOMAIN config.runners <=>
                      (own /\ n \in DOMAIN Own.runners) \/ (base /\ n \in DOMAIN Base.runners)
               /\ \A n : n \in DOMAIN config.images <=>
                      (own /\ n \in DOMAIN Own.images) \/ (base /\ n \in DOMAIN Base.images)
               /\ own => /\ \A n \in DOMAIN Own.runners : config.runners[n] = Own.runners[n]
                         /\ \A n \in DOMAIN Own.images : config.images[n] = Own.images[n]
               /\ base => /\ \A n \in DOMAIN Base.runners \ DOMAIN Own.runners :
                                 config.runners[n] = Base.runners[n]
                          /\ \A n \in DOMAIN Base.images \ DOMAIN Own.images :
                                 config.images[n] = Base.images[n]
               /\ config.unreadable <=>
                      Loaded(Own) = "forbidden" \/ (Inherits /\ Loaded(Base) \in {"missing", "forbidden"})
<1>1. Inherits => Loaded(Own) = "ok"
  BY DEF Inherits
<1>2. /\ NoConfig.runners = [n \in {} |-> <<>>] /\ NoConfig.images = [n \in {} |-> <<>>]
      /\ NoConfig.unreadable = FALSE
  BY DEF NoConfig
<1>3. \A file : /\ Config(file).runners = file.runners /\ Config(file).images = file.images
                /\ Config(file).unreadable = FALSE
  BY DEF Config
<1>4. \A c : /\ Unreadable(c).runners = c.runners /\ Unreadable(c).images = c.images
             /\ Unreadable(c).unreadable = TRUE
  BY DEF Unreadable
<1>5. \A c, d : /\ extend(c, d).runners = Merge(d.runners, c.runners)
                /\ extend(c, d).images = Merge(d.images, c.images)
                /\ extend(c, d).unreadable = FALSE
  BY DEF extend
<1>7. CASE Loaded(Own) = "missing"
  <2>1. config = NoConfig
    BY <1>7 DEF ReadAll, ConfigOf
  <2> QED
    BY <1>1, <1>2, <1>7, <2>1
<1>8. CASE Loaded(Own) = "forbidden"
  <2>1. config = Unreadable(NoConfig)
    BY <1>8 DEF ReadAll, ConfigOf
  <2> QED
    BY <1>1, <1>2, <1>4, <1>8, <2>1
<1>9. CASE Loaded(Own) = "ok" /\ ~Inherits
  <2>1. config = Config(Own)
    BY <1>9 DEF ReadAll, ConfigOf
  <2> QED
    BY <1>3, <1>9, <2>1
<1>10. CASE Loaded(Own) = "ok" /\ Inherits /\ Loaded(Base) = "ok"
  <2>1. config = extend(Config(Own), Config(Base))
    BY <1>10 DEF ReadAll, ConfigOf
  <2>2. /\ config.runners = Merge(Base.runners, Own.runners)
        /\ config.images = Merge(Base.images, Own.images) /\ config.unreadable = FALSE
    BY <1>3, <1>5, <2>1
  <2>3. /\ DOMAIN config.runners = DOMAIN Base.runners \cup DOMAIN Own.runners
        /\ \A n \in DOMAIN Own.runners : config.runners[n] = Own.runners[n]
        /\ \A n \in DOMAIN Base.runners \ DOMAIN Own.runners : config.runners[n] = Base.runners[n]
    BY <2>2 DEF Merge
  <2>4. /\ DOMAIN config.images = DOMAIN Base.images \cup DOMAIN Own.images
        /\ \A n \in DOMAIN Own.images : config.images[n] = Own.images[n]
        /\ \A n \in DOMAIN Base.images \ DOMAIN Own.images : config.images[n] = Base.images[n]
    BY <2>2 DEF Merge
  <2> QED
    BY <1>10, <2>2, <2>3, <2>4
<1>11. CASE Loaded(Own) = "ok" /\ Inherits /\ Loaded(Base) \in {"missing", "forbidden"}
  <2>1. config = Unreadable(extend(Config(Own), NoConfig))
    BY <1>11 DEF ReadAll, ConfigOf
  <2>2. /\ config.runners = Merge(NoConfig.runners, Own.runners)
        /\ config.images = Merge(NoConfig.images, Own.images) /\ config.unreadable = TRUE
    BY <1>3, <1>4, <1>5, <2>1
  <2>3. DOMAIN NoConfig.runners = {} /\ DOMAIN NoConfig.images = {}
    BY <1>2
  <2>4. /\ DOMAIN config.runners = DOMAIN Own.runners
        /\ \A n \in DOMAIN Own.runners : config.runners[n] = Own.runners[n]
    BY <2>2, <2>3 DEF Merge
  <2>5. /\ DOMAIN config.images = DOMAIN Own.images
        /\ \A n \in DOMAIN Own.images : config.images[n] = Own.images[n]
    BY <2>2, <2>3 DEF Merge
  <2> QED
    BY <1>11, <2>2, <2>4, <2>5
<1> QED
  BY <1>7, <1>8, <1>9, <1>10, <1>11 DEF ReadAll, Readable

\* A job that no preset is found for, at Resolve.
LEMMA UndefinedMeans ==
    ASSUME event \in Events, ReadAll, ResolveError(config, job) \in {"unreadable", "undefined"}
    PROVE  /\ job.runner # <<>> /\ ~Defines(Own) /\ ~(Inherits /\ Defines(Base))
           /\ (ResolveError(config, job) = "unreadable")
                = (Own.status = "forbidden" \/ (Inherits /\ Base.status \in {"missing", "forbidden"}))
<1>1. /\ job.runner # <<>> /\ job.runner \notin DOMAIN config.runners
      /\ ResolveError(config, job) = IF config.unreadable THEN "unreadable" ELSE "undefined"
  BY DEF ResolveError
<1>2. ~Defines(Own) /\ ~(Inherits /\ Defines(Base))
  BY <1>1, ConfigMeans DEF Defines
<1>3. /\ Loaded(Own) = "forbidden" <=> Own.status = "forbidden"
      /\ Loaded(Base) \in {"missing", "forbidden"} <=> Base.status \in {"missing", "forbidden"}
  BY LoadedOf
<1>4. config.unreadable <=>
          Own.status = "forbidden" \/ (Inherits /\ Base.status \in {"missing", "forbidden"})
  BY <1>3, ConfigMeans
<1>5. ResolveError(config, job) = "unreadable" <=> config.unreadable
  BY <1>1
<1> QED
  BY <1>1, <1>2, <1>4, <1>5

LEMMA ResolvedRunner ==
    ASSUME NEW c, NEW j, NEW project
    PROVE  /\ resolve(c, j, project).mode \in {"exact", "family", "auto"}
           /\ resolve(c, j, project).spot \in BOOLEAN
           /\ Set(j.settings, "machine") /\ ~Set(j.settings, "family") =>
                  /\ resolve(c, j, project).mode = "exact"
                  /\ resolve(c, j, project).machine = j.settings["machine"]
<1> DEFINE preset == IF j.runner = <<>> THEN NoSettings ELSE presetSettings(c.runners[j.runner])
<1> DEFINE r == runnerOf(j, preset)
<1>1. r.mode \in {"exact", "family", "auto"} /\ r.spot \in BOOLEAN
  BY DEF runnerOf, classifyMachineMode
<1>2. Set(j.settings, "machine") /\ ~Set(j.settings, "family") =>
          r.mode = "exact" /\ r.machine = j.settings["machine"]
  BY MachineIsExact
<1>3. r = [machine |-> r.machine, family |-> r.family, cpu |-> r.cpu, ram |-> r.ram, spot |-> r.spot,
           disk |-> r.disk, diskType |-> r.diskType, image |-> r.image, zone |-> r.zone,
           timeout |-> r.timeout, mode |-> r.mode]
  BY DEF runnerOf
<1>4. \A image : /\ [r EXCEPT !.image = image].mode = r.mode
                 /\ [r EXCEPT !.image = image].spot = r.spot
                 /\ [r EXCEPT !.image = image].machine = r.machine
  <2> HIDE DEF r
  <2> QED
    BY <1>3
<1>5. resolve(c, j, project) = r \/ \E image : resolve(c, j, project) = [r EXCEPT !.image = image]
  BY DEF resolve
<1> HIDE DEF r
<1> QED
  BY <1>1, <1>2, <1>4, <1>5

LEMMA ResolveStep ==
    ASSUME IInv, Resolve
    PROVE  IInv'
<1>0. pc = "resolve" /\ tried = <<>> /\ reason = "" /\ ReadAll /\ event \in Events
  BY NotFailed DEF IInv, RunnerNamed, ConfigRead, Resolve
<1>1. UNCHANGED <<event, job, config, zones, guessed, tried>>
  BY DEF Resolve, inputs
<1>2. Own' = Own /\ Base' = Base /\ Inherits' = Inherits /\ ConfigOf' = ConfigOf
  BY <1>1, SameFiles
<1>3. CASE ResolveError(config, job) = ""
  <2>1. pc' = "zones" /\ reason' = reason /\ runner' = resolve(config, job, "images")
    BY <1>3 DEF Resolve, GoOn
  <2>2. (event \in Events)' /\ TypeOK' /\ TriedIsSeq'
    BY <1>0, <1>1, <2>1, ResolvedRunner DEF IInv, TypeOK, TriedIsSeq
  <2>3. RunnerNamed'
    BY <1>0, <1>1, <2>1, ResolvedRunner DEF RunnerNamed, Named
  <2>4. ConfigRead' /\ OnlyNamedAsked' /\ HeldOnlyIfUndefined'
    BY <1>0, <1>1, <2>1, NothingTried DEF ConfigRead, OnlyNamedAsked, HeldOnlyIfUndefined
  <2> QED
    BY <2>2, <2>3, <2>4 DEF IInv
<1>4. CASE ResolveError(config, job) # ""
  <2>1. pc' = "failed" /\ reason' = ResolveError(config, job) /\ runner' = runner
    BY <1>4 DEF Resolve, FailRun
  <2>2. ResolveError(config, job) \in {"unreadable", "undefined", "image"}
    BY <1>4 DEF ResolveError
  <2>3. (event \in Events)' /\ TypeOK' /\ TriedIsSeq'
    BY <1>0, <1>1, <2>1, <2>2 DEF IInv, TypeOK, TriedIsSeq
  <2>4. ConfigRead' /\ RunnerNamed' /\ OnlyNamedAsked'
    BY <1>0, <1>1, <2>1, NothingTried DEF ConfigRead, RunnerNamed, OnlyNamedAsked
  <2>5. HeldOnlyIfUndefined'
    <3> SUFFICES ASSUME reason' \in {"unreadable", "undefined"} PROVE HeldOnlyIfUndefined'
      BY DEF HeldOnlyIfUndefined
    <3>1. Defines(Own)' = Defines(Own) /\ Defines(Base)' = Defines(Base)
      BY <1>1, <1>2 DEF Defines
    <3> QED
      BY <1>0, <1>1, <1>2, <2>1, <3>1, UndefinedMeans DEF HeldOnlyIfUndefined
  <2> QED
    BY <2>3, <2>4, <2>5 DEF IInv
<1> QED
  BY <1>3, <1>4

LEMMA ZonesStep ==
    ASSUME IInv, PinnedZones \/ PoolZones \/ RegionZones
    PROVE  IInv'
<1>1. /\ pc = "zones" /\ pc' = "placing" /\ guessed' \in BOOLEAN
      /\ UNCHANGED <<event, job, config, runner, tried, reason>>
  BY DEF PinnedZones, PoolZones, RegionZones, Zones, GoOn, inputs
<1>2. tried = <<>> /\ reason = ""
  BY <1>1, NotFailed DEF IInv, RunnerNamed
<1>3. (event \in Events)' /\ TypeOK' /\ TriedIsSeq'
  BY <1>1 DEF IInv, TypeOK, TriedIsSeq
<1>4. ConfigRead' /\ RunnerNamed' /\ OnlyNamedAsked' /\ HeldOnlyIfUndefined'
  BY <1>1, <1>2, NothingTried
     DEF IInv, ConfigRead, RunnerNamed, OnlyNamedAsked, HeldOnlyIfUndefined, Named
<1> QED
  BY <1>3, <1>4 DEF IInv

LEMMA AnswerStep ==
    ASSUME IInv, Placing, NEW kind \in Kinds, NEW type, NEW error \in SUBSET Marks,
           Answered(kind, type, error), Named => type = job.settings["machine"]
    PROVE  IInv'
<1> DEFINE e == [zone |-> Zone, type |-> type, error |-> error, kind |-> kind]
<1>0. pc = "placing" /\ reason = ""
  BY NotFailed DEF IInv, Placing
<1>1. /\ UNCHANGED <<event, job, config, runner, zones, guessed, reason>>
      /\ tried' = Append(tried, e) /\ pc' = Outcome(kind)
  BY DEF Answered, GoOn, inputs
<1>2. pc' \in {"accepted", "retry", "permanent", "placing"}
  BY <1>1 DEF Outcome
<1>3. PICK S : tried \in Seq(S)
  BY DEF IInv, TriedIsSeq
<1>4. tried \in Seq(S \cup {e})
  BY <1>3, SeqMonotonic
<1>5. /\ tried' \in Seq(S \cup {e})
      /\ \A i \in DOMAIN tried' : tried'[i] = e \/ (i \in DOMAIN tried /\ tried'[i] = tried[i])
  <2> HIDE DEF e
  <2>1. /\ tried' \in Seq(S \cup {e}) /\ Len(tried') = Len(tried) + 1
        /\ \A i \in 1 .. Len(tried) : tried'[i] = tried[i]
        /\ tried'[Len(tried) + 1] = e
    BY <1>1, <1>4, AppendProperties
  <2>2. /\ Len(tried) \in Nat /\ DOMAIN tried = 1 .. Len(tried)
        /\ DOMAIN tried' = 1 .. Len(tried')
    BY <1>4, <2>1, LenProperties
  <2> QED
    BY <2>1, <2>2
<1>6. e.kind = kind /\ e.error = error /\ e.type = type
  OBVIOUS
<1>7. TriedIsSeq'
  BY <1>5 DEF TriedIsSeq
<1>8. \A i \in DOMAIN tried' : tried'[i].kind \in Kinds /\ tried'[i].error \subseteq Marks
  <2> HIDE DEF e
  <2> QED
    BY <1>5, <1>6 DEF IInv, TypeOK
<1>9. (event \in Events)' /\ TypeOK'
  BY <1>0, <1>1, <1>2, <1>8 DEF IInv, TypeOK
<1>10. OnlyNamedAsked'
  <2>1. Named' = Named
    BY <1>1 DEF Named
  <2> HIDE DEF e
  <2> QED
    BY <1>1, <1>5, <1>6, <2>1 DEF IInv, OnlyNamedAsked
<1>11. ConfigRead' /\ RunnerNamed' /\ HeldOnlyIfUndefined'
  BY <1>0, <1>1, <1>2 DEF IInv, ConfigRead, RunnerNamed, HeldOnlyIfUndefined, Named
<1> QED
  BY <1>7, <1>9, <1>10, <1>11 DEF IInv

LEMMA TryStep ==
    ASSUME IInv, Unlisted \/ Unmatched \/ Insert
    PROVE  IInv'
<1>1. Placing /\ (Named => runner.mode = "exact" /\ runner.machine = job.settings["machine"])
  BY DEF IInv, RunnerNamed, Unlisted, Unmatched, Insert, Placing
<1>2. CASE Unlisted
  <2>1. ~Named /\ Answered("unlisted", <<>>, {})
    BY <1>1, <1>2 DEF Unlisted
  <2> QED
    BY <1>1, <2>1, AnswerStep DEF Kinds
<1>3. CASE Unmatched
  <2>1. ~Named /\ Answered("noMachineType", <<>>, {})
    BY <1>1, <1>3 DEF Unmatched
  <2> QED
    BY <1>1, <2>1, AnswerStep DEF Kinds
<1>4. CASE Insert
  <2>1. Named => Type = job.settings["machine"]
    BY <1>1 DEF Type
  <2>2. PICK kind \in Kinds, error \in SUBSET Marks : Answered(kind, Type, error)
    <3>1. \A error : classifyInsertError(error) \in Kinds
      BY DEF classifyInsertError, Kinds
    <3>2. CASE Answered("created", Type, {})
      BY <3>2 DEF Kinds
    <3>3. CASE \E error \in InsertErrors : Answered(classifyInsertError(error), Type, error)
      BY <3>1, <3>3, ResolutionAssumption
    <3> QED
      BY <1>4, <3>2, <3>3 DEF Insert
  <2> QED
    BY <1>1, <2>1, <2>2, AnswerStep
<1> QED
  BY <1>2, <1>3, <1>4

LEMMA GiveUpStep ==
    ASSUME IInv, GiveUp
    PROVE  IInv'
<1>1. /\ pc = "placing" /\ UNCHANGED <<event, job, config, runner, zones, guessed, tried>>
      /\ \/ pc' = "failed" /\ reason' = "zones"
         \/ pc' = "retry" /\ reason' = reason
  BY DEF GiveUp, GoOn, FailRun, inputs
<1>2. reason = ""
  BY <1>1, NotFailed DEF IInv
<1>3. (event \in Events)' /\ TypeOK' /\ TriedIsSeq'
  BY <1>1, <1>2 DEF IInv, TypeOK, TriedIsSeq
<1>4. ConfigRead' /\ RunnerNamed' /\ HeldOnlyIfUndefined'
  BY <1>1, <1>2 DEF ConfigRead, RunnerNamed, HeldOnlyIfUndefined
<1>5. OnlyNamedAsked'
  BY <1>1 DEF IInv, OnlyNamedAsked, Named
<1> QED
  BY <1>3, <1>4, <1>5 DEF IInv

LEMMA StutterStep ==
    ASSUME IInv, UNCHANGED vars
    PROVE  IInv'
<1>1. UNCHANGED <<event, pc, job, config, runner, zones, guessed, tried, reason>>
  BY DEF vars, inputs
<1>2. Own' = Own /\ Base' = Base /\ Inherits' = Inherits /\ ConfigOf' = ConfigOf
  BY <1>1, SameFiles
<1>3. Defines(Own)' = Defines(Own) /\ Defines(Base)' = Defines(Base)
  BY <1>1, <1>2 DEF Defines
<1>4. (event \in Events)' /\ TypeOK' /\ TriedIsSeq'
  BY <1>1 DEF IInv, TypeOK, TriedIsSeq
<1>5. ConfigRead' /\ RunnerNamed' /\ OnlyNamedAsked'
  BY <1>1, <1>2 DEF IInv, ConfigRead, ReadAll, RunnerNamed, OnlyNamedAsked, Named
<1>6. HeldOnlyIfUndefined'
  BY <1>1, <1>2, <1>3 DEF IInv, HeldOnlyIfUndefined
<1> QED
  BY <1>4, <1>5, <1>6 DEF IInv

\* What the theorems below rest on.
THEOREM Invariance == Spec => []IInv
<1>1. IInv /\ [Next]_vars => IInv'
  BY AdmitStep, LoadOwnStep, LoadBaseStep, ResolveStep, ZonesStep, TryStep, GiveUpStep, StutterStep
     DEF Next
<1> QED
  BY Initially, <1>1, PTL DEF Spec

\* The types, and that a run is failed with a reason or not at all.
THEOREM TypeCorrect == Spec => []TypeOK
<1>1. IInv => TypeOK
  BY DEF IInv
<1> QED
  BY Invariance, <1>1, PTL

\* Whatever the two files hold, a job is held only if neither that could be read
\* defines the runner it selects (resolve, loadRepositoryConfig).
THEOREM OnlyUndefinedHeld == Spec => []HeldOnlyIfUndefined
<1>1. IInv => HeldOnlyIfUndefined
  BY DEF IInv
<1> QED
  BY Invariance, <1>1, PTL

\* A job that names its machine has no other asked for, in any zone, whatever the
\* files and the catalogues hold (createRunnerInstance).
THEOREM NamedMachineOnly == Spec => []OnlyNamedAsked
<1>1. IInv => OnlyNamedAsked
  BY DEF IInv
<1> QED
  BY Invariance, <1>1, PTL

-----------------------------------------------------------------------------
(***************************************************************************)
(* What the job asks for, and what its runner is.                          *)
(***************************************************************************)

\* What the label gives is typed.
JobTyped == \A k \in DOMAIN job.settings : TypedValue(k, job.settings[k])

\* What the job and its preset ask for.
Wish == runnerOf(job, Selected)

LEMMA EmptyValue == \A key : TypedValue(key, <<>>)
<1>1. <<>> \in Seq(Int) /\ <<>> \in Seq(STRING)
  BY EmptySeq
<1> QED
  BY <1>1, Zenon DEF TypedValue

\* A preset keeps no empty value, and what it keeps is typed.
LEMMA SelectedFacts ==
    ASSUME event \in Events
    PROVE  \A k \in DOMAIN Selected : Selected[k] # <<>> /\ TypedValue(k, Selected[k])
<1>1. ASSUME NEW place, NEW name \in DOMAIN File(place).runners
      PROVE  \A key \in PresetKeys : TypedValue(key, File(place).runners[name][key])
  <2>1. CASE place \in DOMAIN event.contents
    <3>1. File(place) = event.contents[place]
      BY <2>1 DEF File
    <3> QED
      BY <1>1, <2>1, <3>1, ResolutionAssumption DEF IsFile
  <2>2. CASE place \notin DOMAIN event.contents
    <3>1. File(place).runners = [n \in {} |-> <<>>]
      BY <2>2 DEF File, NoConfig
    <3> QED
      BY <1>1, <3>1
  <2> QED
    BY <2>1, <2>2
<1>2. ASSUME NEW p, \A key \in PresetKeys : TypedValue(key, p[key])
      PROVE  \A k \in DOMAIN presetSettings(p) :
                 presetSettings(p)[k] # <<>> /\ TypedValue(k, presetSettings(p)[k])
  BY <1>2 DEF presetSettings
<1>3. CASE Defines(Own)
  <2>1. Selected = presetSettings(Own.runners[job.runner]) /\ job.runner \in DOMAIN Own.runners
    BY <1>3 DEF Selected, Defines
  <2> QED
    BY <1>1, <1>2, <2>1 DEF Own
<1>4. CASE ~Defines(Own) /\ Inherits /\ Defines(Base)
  <2>1. Selected = presetSettings(Base.runners[job.runner]) /\ job.runner \in DOMAIN Base.runners
    BY <1>4 DEF Selected, Defines
  <2> QED
    BY <1>1, <1>2, <2>1 DEF Base
<1>5. CASE ~Defines(Own) /\ ~(Inherits /\ Defines(Base))
  <2>1. Selected = NoSettings
    BY <1>5 DEF Selected
  <2> QED
    BY <2>1 DEF NoSettings
<1> QED
  BY <1>3, <1>4, <1>5

\* So is what the job and its preset ask for together.
LEMMA WantedTyped ==
    ASSUME event \in Events, JobTyped
    PROVE  \A key : TypedValue(key, Wanted(key))
<1> SUFFICES ASSUME NEW key PROVE TypedValue(key, Wanted(key))
  OBVIOUS
<1>1. CASE key \in DOMAIN job.settings
  BY <1>1 DEF Wanted, JobTyped
<1>2. CASE key \notin DOMAIN job.settings /\ key \in DOMAIN Selected
  BY <1>2, SelectedFacts DEF Wanted, Value
<1>3. CASE key \notin DOMAIN job.settings /\ key \notin DOMAIN Selected
  BY <1>3, EmptyValue DEF Wanted, Value
<1> QED
  BY <1>1, <1>2, <1>3

\* What the runner is made of, in the terms of the properties.
LEMMA WishFields ==
    /\ Wish.family = IF JobWants("machine") /\ ~JobWants("family") THEN <<>> ELSE Wanted("family")
    /\ Wish.cpu = Wanted("cpu") /\ Wish.ram = Wanted("ram") /\ Wish.zone = Wanted("zone")
    /\ Wish.spot = (OrDefault("spot") # <<"false">>)
    /\ Wish.disk = OrDefault("disk") /\ Wish.image = OrDefault("image")
    /\ Wish.timeout = OrDefault("timeout")
<1> DEFINE e == Explicit(job, Selected)
<1>1. \A key : Laid(job, Selected, key) = Wanted(key)
  BY DEF Laid, Wanted
<1>2. PicksMachine(job) <=> JobWants("machine") /\ ~JobWants("family")
  BY DEF PicksMachine, JobWants
<1>3. /\ Wish.family = Value(e, "family")
      /\ Wish.cpu = Value(e, "cpu") /\ Wish.ram = Value(e, "ram") /\ Wish.zone = Value(e, "zone")
      /\ Wish.spot = ((IF "spot" \in DOMAIN e THEN Value(e, "spot")
                        ELSE defaultSettings["spot"]) # <<"false">>)
      /\ Wish.disk = IF "disk" \in DOMAIN e THEN Value(e, "disk") ELSE defaultSettings["disk"]
      /\ Wish.image = IF "image" \in DOMAIN e THEN Value(e, "image") ELSE defaultSettings["image"]
      /\ Wish.timeout = IF "timeout" \in DOMAIN e THEN Value(e, "timeout")
                        ELSE defaultSettings["timeout"]
  BY RunnerFields, Zenon DEF Wish
<1>4. /\ Value(e, "family") = IF PicksMachine(job) THEN <<>> ELSE Laid(job, Selected, "family")
      /\ \A key : key \notin {"family", "machine"} => Value(e, key) = Laid(job, Selected, key)
      /\ \A key : key \notin {"family", "machine"} =>
             (key \in DOMAIN e <=> key \in DOMAIN job.settings \cup DOMAIN Selected)
  BY ExplicitValue, Zenon
<1> HIDE DEF e
<1>5. /\ \A key \in {"cpu", "ram", "zone"} : Value(e, key) = Wanted(key)
      /\ \A key \in {"spot", "disk", "image", "timeout"} :
             (IF key \in DOMAIN e THEN Value(e, key) ELSE defaultSettings[key]) = OrDefault(key)
  <2>1. ASSUME NEW key \in {"cpu", "ram", "zone", "spot", "disk", "image", "timeout"}
        PROVE  /\ Value(e, key) = Wanted(key)
               /\ key \in DOMAIN e <=> key \in DOMAIN job.settings \cup DOMAIN Selected
    <3>1. key \notin {"family", "machine"}
      OBVIOUS
    <3> QED
      BY <1>1, <1>4, <3>1
  <2> QED
    BY <2>1 DEF OrDefault
<1>6. Wish.family = IF JobWants("machine") /\ ~JobWants("family") THEN <<>> ELSE Wanted("family")
  BY <1>1, <1>2, <1>3, <1>4
<1>7. /\ Wish.cpu = Wanted("cpu") /\ Wish.ram = Wanted("ram") /\ Wish.zone = Wanted("zone")
      /\ Wish.disk = OrDefault("disk") /\ Wish.image = OrDefault("image")
      /\ Wish.timeout = OrDefault("timeout")
  BY <1>3, <1>5
<1>8. Wish.spot = (OrDefault("spot") # <<"false">>)
  <2> DEFINE v == IF "spot" \in DOMAIN e THEN Value(e, "spot") ELSE defaultSettings["spot"]
  <2>1. v = OrDefault("spot")
    BY <1>5
  <2>2. Wish.spot = (v # <<"false">>)
    BY <1>3
  <2> HIDE DEF v
  <2>3. (v # <<"false">>) = (OrDefault("spot") # <<"false">>)
    BY <2>1
  <2> QED
    BY <2>2, <2>3, Zenon
<1> QED
  BY <1>6, <1>7, <1>8

\* A type is one that the job accepts when it is the runner's machine, or one that
\* the runner matches: the seven ways to write a job come to these two
\* (runner, classifyMachineMode, ResolveMachineType).
LEMMA MachineChoice ==
    ASSUME event \in Events, JobTyped,
           NEW type, type.name # <<>>, type.vcpus \in Nat, type.memory \in Nat
    PROVE  /\ Wish.mode = "exact" => (Accepts(type) <=> type.name = Wish.machine)
           /\ Wish.mode # "exact" => (Accepts(type) <=> Matches(type, Wish))
<1> DEFINE e == Explicit(job, Selected)
<1> DEFINE m == JobWants("machine") 
<1> DEFINE f == JobWants("family")
<1> DEFINE c == JobWants("cpu") \/ JobWants("ram")
<1>1. \A key : Laid(job, Selected, key) = Wanted(key)
  BY DEF Laid, Wanted
<1>2. /\ PicksMachine(job) <=> m /\ ~f
      /\ PicksSize(job) <=> ~m /\ c
  BY DEF PicksMachine, PicksSize, JobWants
<1>3. /\ Value(e, "family") = IF m /\ ~f THEN <<>> ELSE Wanted("family")
      /\ Value(e, "machine") = IF ~m /\ c THEN <<>> ELSE Wanted("machine")
      /\ Value(e, "cpu") = Wanted("cpu") /\ Value(e, "ram") = Wanted("ram")
  <2>1. "cpu" \notin {"family", "machine"} /\ "ram" \notin {"family", "machine"}
    OBVIOUS
  <2> QED
    BY <1>1, <1>2, <2>1, ExplicitValue
<1>4. ~(~m /\ c) => ("machine" \in DOMAIN e <=> "machine" \in DOMAIN job.settings \cup DOMAIN Selected)
  BY <1>2, ExplicitValue
<1>5. /\ Wish.family = Value(e, "family") /\ Wish.cpu = Wanted("cpu") /\ Wish.ram = Wanted("ram")
      /\ Wish.machine = IF "machine" \in DOMAIN e THEN Value(e, "machine")
                        ELSE defaultSettings["machine"]
      /\ Wish.mode = classifyMachineMode(e)
  BY <1>3, RunnerFields DEF Wish
<1>6. Wish.mode = IF Value(e, "family") # <<>> THEN "family"
                  ELSE IF Value(e, "machine") = <<>> /\ (Wanted("cpu") # <<>> \/ Wanted("ram") # <<>>)
                       THEN "auto" ELSE "exact"
  BY <1>3, <1>5 DEF classifyMachineMode, Set
<1>7. \A key : JobWants(key) =>
          key \in DOMAIN job.settings /\ Wanted(key) # <<>> /\ Wanted(key) = job.settings[key]
  BY DEF JobWants, Set, Value, Wanted
<1>8. \A key : key \notin DOMAIN job.settings /\ key \in DOMAIN Selected => Wanted(key) # <<>>
  BY SelectedFacts DEF Wanted, Value
<1>9. ASSUME NEW families, Families(Wish) = families
      PROVE  Fits(type, families) <=> Matches(type, Wish)
  <2> DEFINE oneOf == \E i \in DOMAIN families : families[i] = Family(type.name)
  <2> DEFINE vcpus == InRange(type.vcpus, Wanted("cpu"))
  <2> DEFINE memory == InRange(type.memory \div 1024, Wanted("ram"))
  <2> DEFINE other == Category(type.name) \notin SharedCore \cup GPU
  <2>1. Wanted("cpu") \in Seq(Int) /\ Wanted("ram") \in Seq(Int)
    BY WantedTyped DEF TypedValue
  <2>2. type.memory \div 1024 \in Nat
    OBVIOUS
  <2>3. Within(type.vcpus, parseRange(Wish.cpu)) <=> vcpus
    BY <1>5, <2>1, RangeMeans
  <2>4. Within(type.memory \div 1024, parseRange(Wish.ram)) <=> memory
    BY <1>5, <2>1, <2>2, RangeMeans
  <2>5. (\E i \in DOMAIN Families(Wish) : Family(type.name) = Families(Wish)[i])
           <=> oneOf
    BY <1>9
  <2>6. Fits(type, families) <=> oneOf /\ other /\ vcpus /\ memory
    BY Zenon DEF Fits
  <2>7. Matches(type, Wish) <=>
            /\ \E i \in DOMAIN Families(Wish) : Family(type.name) = Families(Wish)[i]
            /\ other
            /\ Within(type.vcpus, parseRange(Wish.cpu))
            /\ Within(type.memory \div 1024, parseRange(Wish.ram))
    BY Zenon DEF Matches
  <2> HIDE DEF oneOf, vcpus, memory, other
  <2>8. Matches(type, Wish) <=> oneOf /\ other /\ vcpus /\ memory
    BY <2>3, <2>4, <2>5, <2>7
  <2> QED
    BY <2>6, <2>8
<1> HIDE DEF e, m, f, c
<1>10. CASE m /\ ~f
  <2>1. Value(e, "family") = <<>> /\ Value(e, "machine") = Wanted("machine") /\ Wanted("machine") # <<>>
    BY <1>3, <1>7, <1>10 DEF m
  <2>2. Wish.mode = "exact"
    BY <1>6, <2>1
  <2>3. Wish.machine = Wanted("machine")
    BY <1>5, <2>1 DEF Value
  <2>4. Accepts(type) <=> type.name = Wanted("machine")
    BY <1>10 DEF Accepts, m, f
  <2> QED
    BY <2>2, <2>3, <2>4
<1>11. CASE ~(m /\ ~f) /\ Wanted("family") # <<>>
  <2>1. Value(e, "family") = Wanted("family")
    BY <1>3, <1>11
  <2>2. Wish.mode = "family" /\ Wish.family = Wanted("family")
    BY <1>5, <1>6, <1>11, <2>1
  <2>3. Families(Wish) = Wanted("family")
    BY <2>2 DEF Families
  <2>4. Accepts(type) <=> Fits(type, Wanted("family"))
    BY <1>11, Zenon DEF Accepts, m, f
  <2> QED
    BY <1>9, <2>2, <2>3, <2>4
<1>12. CASE ~(m /\ ~f) /\ Wanted("family") = <<>> /\ c
  <2>1. ~m
    BY <1>7, <1>12 DEF m, f
  <2>2. Value(e, "family") = <<>> /\ Value(e, "machine") = <<>>
    BY <1>3, <1>12, <2>1
  <2>3. Wanted("cpu") # <<>> \/ Wanted("ram") # <<>>
    BY <1>7, <1>12 DEF c
  <2>4. Wish.mode = "auto"
    BY <1>6, <2>2, <2>3
  <2>5. Families(Wish) = <<"n2d">>
    BY <2>4 DEF Families
  <2>6. Accepts(type) <=> Fits(type, <<"n2d">>)
    BY <1>12, Zenon DEF Accepts, m, f, c
  <2> QED
    BY <1>9, <2>4, <2>5, <2>6
<1>13. CASE ~(m /\ ~f) /\ Wanted("family") = <<>> /\ ~c /\ Wanted("machine") # <<>>
  <2>1. Value(e, "family") = <<>> /\ Value(e, "machine") = Wanted("machine")
    BY <1>3, <1>13
  <2>2. Wish.mode = "exact"
    BY <1>6, <1>13, <2>1
  <2>3. Wish.machine = Wanted("machine")
    BY <1>5, <1>13, <2>1 DEF Value
  <2>4. Accepts(type) <=> type.name = Wanted("machine")
    BY <1>13, Zenon DEF Accepts, m, f, c
  <2> QED
    BY <2>2, <2>3, <2>4
<1>14. CASE /\ ~(m /\ ~f) /\ Wanted("family") = <<>> /\ ~c /\ Wanted("machine") = <<>>
            /\ Wanted("cpu") # <<>> \/ Wanted("ram") # <<>>
  <2>1. Value(e, "family") = <<>> /\ Value(e, "machine") = <<>>
    BY <1>3, <1>14
  <2>2. Wish.mode = "auto"
    BY <1>6, <1>14, <2>1
  <2>3. Families(Wish) = <<"n2d">>
    BY <2>2 DEF Families
  <2>4. Accepts(type) <=> Fits(type, <<"n2d">>)
    BY <1>14, Zenon DEF Accepts, m, f, c
  <2> QED
    BY <1>9, <2>2, <2>3, <2>4
<1>15. CASE /\ ~(m /\ ~f) /\ Wanted("family") = <<>> /\ ~c /\ Wanted("machine") = <<>>
            /\ Wanted("cpu") = <<>> /\ Wanted("ram") = <<>>
  <2>1. Value(e, "family") = <<>> /\ Value(e, "machine") = <<>>
    BY <1>3, <1>15
  <2>2. Wish.mode = "exact"
    BY <1>6, <1>15, <2>1
  <2>3. "machine" \in DOMAIN e <=> "machine" \in DOMAIN job.settings
    BY <1>4, <1>8, <1>15
  <2>4. Accepts(type) <=> "machine" \notin DOMAIN job.settings /\ type.name = defaultSettings["machine"]
    BY <1>15, Zenon DEF Accepts, m, f, c
  <2>5. Wish.machine = IF "machine" \in DOMAIN job.settings THEN <<>> ELSE defaultSettings["machine"]
    BY <1>5, <2>1, <2>3
  <2> QED
    BY <2>2, <2>4, <2>5
<1> QED
  BY <1>10, <1>11, <1>12, <1>13, <1>14, <1>15

\* The runner that the job and its preset ask for, with its image found.
Made == [Wish EXCEPT !.image = ImageNamed(Wish.image)]

\* Finding the image changes no other setting.
LEMMA MadeFields ==
    /\ Made.machine = Wish.machine /\ Made.family = Wish.family /\ Made.cpu = Wish.cpu
    /\ Made.ram = Wish.ram /\ Made.spot = Wish.spot /\ Made.disk = Wish.disk
    /\ Made.image = ImageNamed(Wish.image) /\ Made.zone = Wish.zone
    /\ Made.timeout = Wish.timeout /\ Made.mode = Wish.mode
<1> DEFINE w == Wish
<1>1. w = [machine |-> w.machine, family |-> w.family, cpu |-> w.cpu, ram |-> w.ram, spot |-> w.spot,
           disk |-> w.disk, diskType |-> w.diskType, image |-> w.image, zone |-> w.zone,
           timeout |-> w.timeout, mode |-> w.mode]
  BY DEF Wish, runnerOf
<1>2. Made = [w EXCEPT !.image = ImageNamed(w.image)]
  BY DEF Made
<1> DEFINE i == ImageNamed(w.image)
<1>3. Made = [w EXCEPT !.image = i] /\ i = ImageNamed(Wish.image) /\ w = Wish
  BY <1>2
<1> HIDE DEF w, i
<1> QED
  BY <1>1, <1>3

\* A job whose runner is found gets what it and its preset ask for (resolve).
LEMMA ResolvedIs ==
    ASSUME event \in Events, ReadAll, ResolveError(config, job) = ""
    PROVE  resolve(config, job, "images") = Made
<1> DEFINE preset == IF job.runner = <<>> THEN NoSettings
                     ELSE presetSettings(config.runners[job.runner])
<1>1. job.runner = <<>> \/ job.runner \in DOMAIN config.runners
  BY DEF ResolveError
<1>2. preset = Selected
  <2>1. CASE job.runner = <<>>
    BY <2>1 DEF Selected, Defines
  <2>2. CASE job.runner # <<>> /\ Loaded(Own) = "ok" /\ job.runner \in DOMAIN Own.runners
    <3>1. Defines(Own) /\ config.runners[job.runner] = Own.runners[job.runner]
      BY <2>2, ConfigMeans DEF Defines
    <3> QED
      BY <2>2, <3>1 DEF Selected
  <2>3. CASE job.runner # <<>> /\ ~(Loaded(Own) = "ok" /\ job.runner \in DOMAIN Own.runners)
    <3>1. Inherits /\ Loaded(Base) = "ok" /\ job.runner \in DOMAIN Base.runners
      BY <1>1, <2>3, ConfigMeans
    <3>2. job.runner \notin DOMAIN Own.runners
      BY <2>3, <3>1 DEF Inherits
    <3>3. ~Defines(Own) /\ Defines(Base) /\ config.runners[job.runner] = Base.runners[job.runner]
      BY <2>3, <3>1, <3>2, ConfigMeans DEF Defines
    <3> QED
      BY <2>3, <3>1, <3>3 DEF Selected
  <2> QED
    BY <2>1, <2>2, <2>3
<1>3. resolve(config, job, "images") =
          IF Wish.image \in DOMAIN config.images
          THEN [Wish EXCEPT !.image = path(config.images[Wish.image], "images")] ELSE Wish
  BY <1>2 DEF resolve, Wish
<1>4. \A n : ImageNamed(n) = IF n \in DOMAIN config.images THEN path(config.images[n], "images") ELSE n
  <2> SUFFICES ASSUME NEW n
               PROVE  ImageNamed(n) = IF n \in DOMAIN config.images
                                      THEN path(config.images[n], "images") ELSE n
    OBVIOUS
  <2>1. CASE Loaded(Own) = "ok" /\ n \in DOMAIN Own.images
    <3>1. n \in DOMAIN config.images /\ config.images[n] = Own.images[n]
      BY <2>1, ConfigMeans
    <3> QED
      BY <2>1, <3>1 DEF ImageNamed
  <2>2. CASE /\ ~(Loaded(Own) = "ok" /\ n \in DOMAIN Own.images)
             /\ Inherits /\ Loaded(Base) = "ok" /\ n \in DOMAIN Base.images
    <3>1. n \in DOMAIN Base.images \ DOMAIN Own.images
      BY <2>2 DEF Inherits
    <3>2. n \in DOMAIN config.images /\ config.images[n] = Base.images[n]
      BY <2>2, <3>1, ConfigMeans
    <3> QED
      BY <2>2, <3>2 DEF ImageNamed
  <2>3. CASE /\ ~(Loaded(Own) = "ok" /\ n \in DOMAIN Own.images)
             /\ ~(Inherits /\ Loaded(Base) = "ok" /\ n \in DOMAIN Base.images)
    <3>1. n \notin DOMAIN config.images
      BY <2>3, ConfigMeans
    <3> QED
      BY <2>3, <3>1 DEF ImageNamed
  <2> QED
    BY <2>1, <2>2, <2>3
<1>5. CASE Wish.image \in DOMAIN config.images
  BY <1>3, <1>4, <1>5 DEF Made
<1>6. CASE Wish.image \notin DOMAIN config.images
  <2>1. Made = [Wish EXCEPT !.image = Wish.image]
    BY <1>4, <1>6 DEF Made
  <2>2. [Wish EXCEPT !.image = Wish.image] = Wish
    <3> DEFINE w == Wish
    <3>1. w = [machine |-> w.machine, family |-> w.family, cpu |-> w.cpu, ram |-> w.ram, spot |-> w.spot,
           disk |-> w.disk, diskType |-> w.diskType, image |-> w.image, zone |-> w.zone,
           timeout |-> w.timeout, mode |-> w.mode]
      BY DEF Wish, runnerOf
    <3> HIDE DEF w
    <3>2. [w EXCEPT !.image = w.image] = w
      BY <3>1
    <3> QED
      BY <3>2 DEF w
  <2> QED
    BY <1>3, <1>6, <2>1, <2>2
<1> QED
  BY <1>5, <1>6

\* The machine type that a zone is asked for.
TypeAt(zone) ==
    IF runner.mode = "exact" THEN runner.machine ELSE ResolveMachineType(catalogue[zone], runner)

\* A zone offers the machine type that it is asked for exactly when it has one that
\* the job accepts, and then that is the smallest of them.
LEMMA TypeChosen ==
    ASSUME event \in Events, JobTyped, catalogue \in Catalogues, runner = Made,
           NEW zone, Exists(zone)
    PROVE  /\ Offers(zone, TypeAt(zone)) <=> Acceptable(zone) # {}
           /\ \A k, o \in Acceptable(zone) :
                  catalogue[zone][k].name = TypeAt(zone) =>
                      \/ catalogue[zone][k].vcpus < catalogue[zone][o].vcpus
                      \/ /\ catalogue[zone][k].vcpus = catalogue[zone][o].vcpus
                         /\ catalogue[zone][k].memory <= catalogue[zone][o].memory
           /\ Offers(zone, TypeAt(zone)) =>
                  \E k \in Acceptable(zone) : catalogue[zone][k].name = TypeAt(zone)
<1> DEFINE types == catalogue[zone]
<1>1. IsCatalogue(types)
  BY ResolutionAssumption DEF Exists
<1>2. \A i \in DOMAIN types : /\ i \in Nat /\ types[i].vcpus \in Nat /\ types[i].memory \in Nat
                              /\ types[i].name # <<>>
  BY <1>1, CatalogueFacts
<1>3. \A i, j \in DOMAIN types : types[i].name = types[j].name => i = j
  BY <1>1 DEF IsCatalogue
<1>4. Acceptable(zone) = {i \in DOMAIN types : Accepts(types[i])}
  BY DEF Acceptable
<1>5. Offers(zone, TypeAt(zone)) <=> \E i \in DOMAIN types : types[i].name = TypeAt(zone)
  BY DEF Offers
<1>6. /\ runner.mode = Wish.mode /\ runner.machine = Wish.machine
      /\ \A type : Matches(type, runner) <=> Matches(type, Wish)
  BY MadeFields DEF Matches, Families
<1> HIDE DEF types
<1>7. \A i \in DOMAIN types :
          /\ Wish.mode = "exact" => (Accepts(types[i]) <=> types[i].name = Wish.machine)
          /\ Wish.mode # "exact" => (Accepts(types[i]) <=> Matches(types[i], Wish))
  BY <1>2, MachineChoice
<1>8. CASE Wish.mode = "exact"
  <2>1. TypeAt(zone) = Wish.machine
    BY <1>6, <1>8 DEF TypeAt
  <2>2. \A i \in DOMAIN types : i \in Acceptable(zone) <=> types[i].name = TypeAt(zone)
    BY <1>4, <1>7, <1>8, <2>1
  <2>3. \A k, o \in Acceptable(zone) : k = o
    BY <1>3, <1>4, <2>2
  <2>4. \A k, o \in Acceptable(zone) :
           types[k].vcpus = types[o].vcpus /\ types[k].memory <= types[o].memory
    BY <1>2, <1>4, <2>3
  <2> QED
    BY <1>4, <1>5, <2>2, <2>4 DEF types
<1>9. CASE Wish.mode # "exact"
  <2>1. TypeAt(zone) = ResolveMachineType(types, runner)
    BY <1>6, <1>9 DEF TypeAt, types
  <2>2. Acceptable(zone) = Fitting(types, runner)
    BY <1>4, <1>6, <1>7, <1>9 DEF Fitting
  <2>3. CASE Fitting(types, runner) = {}
    <3>1. TypeAt(zone) = <<>>
      BY <2>1, <2>3 DEF ResolveMachineType
    <3> QED
      BY <1>2, <1>5, <2>2, <2>3, <3>1
  <2>4. CASE Fitting(types, runner) # {}
    <3> DEFINE b == Best(types, runner)
    <3>1. b \in Acceptable(zone) /\ \A j \in Acceptable(zone) : ~Smaller(types[j], types[b])
      BY <1>1, <2>2, <2>4, BestFits
    <3>2. TypeAt(zone) = types[b].name
      BY <2>1, <2>4 DEF ResolveMachineType
    <3> HIDE DEF b
    <3>3. b \in DOMAIN types
      BY <1>4, <3>1
    <3>4. ASSUME NEW k \in Acceptable(zone), NEW o \in Acceptable(zone), types[k].name = TypeAt(zone)
          PROVE  \/ types[k].vcpus < types[o].vcpus
                 \/ types[k].vcpus = types[o].vcpus /\ types[k].memory <= types[o].memory
      <4>1. k = b
        BY <1>3, <1>4, <3>2, <3>3, <3>4
      <4>2. ~Smaller(types[o], types[k])
        BY <3>1, <4>1
      <4>3. /\ types[o].vcpus \in Nat /\ types[k].vcpus \in Nat
            /\ types[o].memory \in Nat /\ types[k].memory \in Nat
        BY <1>2, <1>4
      <4> QED
        BY <4>2, <4>3 DEF Smaller
    <3> QED
      BY <1>5, <3>1, <3>2, <3>3, <3>4 DEF types
  <2> QED
    BY <2>3, <2>4
<1> QED
  BY <1>8, <1>9

-----------------------------------------------------------------------------
(***************************************************************************)
(* The second invariant, on the first: the runner is the one asked for,    *)
(* the zones are tried in their order, and each answered for the machine   *)
(* type it was asked for.                                                  *)
(***************************************************************************)

\* The inputs stay what they are.
GivenInputs ==
    /\ catalogue \in Catalogues /\ pool \in Pools /\ region \in Regions /\ offset \in Offsets

\* The runner that the zones are tried for is the one asked for.
RunnerMade ==
    pc \in {"zones", "placing", "accepted", "permanent"} \/ zones # <<>> => runner = Made

\* No zone is chosen before the runner is.
Beginning == pc \in {"new", "load", "extend", "resolve", "zones"} => tried = <<>> /\ zones = <<>>

\* The zones to try are those that the job may use, turned round.
Placed == zones \in Seq(STRING) /\ (zones # <<>> => zones = rotate(Candidates, offset))

\* They are tried one by one in that order.
InOrder == Len(tried) <= Len(zones) /\ \A i \in DOMAIN tried : tried[i].zone = zones[i]

\* A zone was asked for the machine type that the job gets there, it lacks the type
\* if it says so (and may refuse for any other reason, whether it has it or not), and
\* only an error with its mark ends the search.
Honest(t) ==
    /\ t.kind = "unlisted" => t.type = <<>>
    /\ t.kind # "unlisted" /\ Exists(t.zone) => t.type = TypeAt(t.zone)
    /\ t.kind = "noMachineType" => Exists(t.zone) /\ ~Offers(t.zone, t.type)
    /\ t.kind \in {"fatal", "permanent"} =>
           t.error \cap {"denied", "sourceImage"} # {} /\ "quota" \notin t.error

Answers == \A i \in DOMAIN tried : Honest(tried[i])

\* How the search ended is what the answers say.
Ended ==
    /\ pc = "accepted" => tried # <<>> /\ tried[Len(tried)].kind \in {"created", "alreadyExists"}
    /\ pc \in {"retry", "permanent", "failed"} /\ zones # <<>> =>
           \/ tried # <<>> /\ pc # "failed" /\ tried[Len(tried)].kind \in {"fatal", "permanent"}
           \/ Len(tried) = Len(zones) /\ (pc = "failed" <=> NoneMatches)
    /\ reason = "zones" => Len(tried) = Len(zones) /\ NoneMatches

PInv == /\ GivenInputs /\ JobTyped /\ RunnerMade /\ Beginning /\ Placed /\ InOrder /\ Answers /\ Ended

\* What a label gives is typed (parseJobLabels).
LEMMA LabelTyped ==
    ASSUME NEW e \in Events, IsGcrunnerJob(e.labels)
    PROVE  LET s == parseJobLabels(e.labels).settings
           IN  \A k \in DOMAIN s : TypedValue(k, s[k])
<1> DEFINE first == Min(GcrunnerLabels(e.labels))
<1> DEFINE label == e.labels[first]
<1>1. DOMAIN e.labels = 1 .. Len(e.labels) /\ Len(e.labels) \in Nat
      /\ \A i \in DOMAIN e.labels : IsLabel(e.labels[i])
  BY ResolutionAssumption
<1>2. GcrunnerLabels(e.labels) \subseteq DOMAIN e.labels /\ GcrunnerLabels(e.labels) # {}
  BY DEF GcrunnerLabels, IsGcrunnerJob
<1>3. first \in DOMAIN e.labels
  <2>1. GcrunnerLabels(e.labels) \subseteq Nat
    BY <1>1, <1>2
  <2> QED
    BY <1>2, <2>1, MinIsLeast
<1>4. parseJobLabels(e.labels).settings =
          [k \in GivenKeys(label) \ {"gcrunner", "runner"} |-> Given(label, k)]
  BY DEF parseJobLabels
<1>5. IsLabel(label)
  BY <1>1, <1>3
<1> HIDE DEF label
<1>6. DOMAIN label = 1 .. Len(label) /\ Len(label) \in Nat
      /\ \A i \in DOMAIN label : Len(label[i]) = 2 => TypedValue(label[i][1], label[i][2])
  BY <1>5 DEF IsLabel
<1>7. ASSUME NEW k PROVE TypedValue(k, Given(label, k))
  <2>1. CASE PartsFor(label, k) = {}
    BY <2>1, EmptyValue DEF Given
  <2>2. CASE PartsFor(label, k) # {}
    <3> DEFINE i == Max(PartsFor(label, k))
    <3>1. i \in PartsFor(label, k)
      <4>1. PartsFor(label, k) \subseteq 1 .. Len(label)
        BY <1>6 DEF PartsFor
      <4> QED
        BY <1>6, <2>2, <4>1, MaxIsGreatest
    <3>2. Given(label, k) = label[i][2]
      BY <2>2 DEF Given
    <3> HIDE DEF i
    <3>3. i \in DOMAIN label /\ Len(label[i]) = 2 /\ label[i][1] = k
      BY <3>1 DEF PartsFor
    <3> QED
      BY <1>6, <3>2, <3>3
  <2> QED
    BY <2>1, <2>2
<1> QED
  BY <1>4, <1>7

LEMMA PInitially == Init => PInv
<1> SUFFICES ASSUME Init PROVE PInv
  OBVIOUS
<1>1. /\ pc = "new" /\ tried = <<>> /\ zones = <<>> /\ reason = "" /\ job = NoJob
      /\ catalogue \in Catalogues /\ pool \in Pools /\ region \in Regions /\ offset \in Offsets
  BY DEF Init
<1>2. JobTyped
  BY <1>1 DEF JobTyped, NoJob, NoSettings
<1>3. zones \in Seq(STRING) /\ Len(tried) = 0 /\ Len(zones) = 0
  BY <1>1, EmptySeq
<1>4. GivenInputs /\ RunnerMade /\ Beginning /\ Placed
  BY <1>1, <1>3 DEF GivenInputs, RunnerMade, Beginning, Placed
<1>5. InOrder /\ Answers
  <2>1. DOMAIN tried = {}
    BY <1>1, NothingTried
  <2> QED
    BY <1>3, <2>1 DEF InOrder, Answers
<1>6. Ended
  BY <1>1 DEF Ended
<1> QED
  BY <1>2, <1>4, <1>5, <1>6 DEF PInv

\* What the job asks for is of the event and the job alone.
LEMMA SameWish ==
    ASSUME UNCHANGED <<event, job>>
    PROVE  Made' = Made
<1>1. Own' = Own /\ Base' = Base /\ Inherits' = Inherits
  BY SameFiles
<1>2. Selected' = Selected
  BY <1>1 DEF Selected, Defines
<1>3. Wish' = Wish
  BY <1>2 DEF Wish
<1>4. \A n : ImageNamed(n)' = ImageNamed(n)
  BY <1>1 DEF ImageNamed
<1> QED
  BY <1>3, <1>4 DEF Made, ImageNamed

\* What a zone answered stays true of it.
LEMMA SameAnswer ==
    ASSUME UNCHANGED <<catalogue, runner>>, NEW t
    PROVE  Honest(t)' <=> Honest(t)
BY DEF Honest, Exists, Offers, TypeAt

\* The steps before a zone is chosen leave the zones alone.
LEMMA EarlyStep ==
    ASSUME IInv, PInv, UNCHANGED <<catalogue, pool, region, offset, zones, tried, guessed>>,
           tried = <<>>, zones = <<>>, pc' \notin {"placing", "accepted", "permanent"},
           reason' # "zones", JobTyped', pc' = "zones" => runner' = Made'
    PROVE  PInv'
<1>1. zones' = <<>> /\ tried' = <<>> /\ Len(zones') = 0 /\ Len(tried') = 0 /\ zones' \in Seq(STRING)
  BY EmptySeq
<1>2. GivenInputs'
  BY DEF PInv, GivenInputs
<1>3. RunnerMade' /\ Beginning' /\ Placed'
  BY <1>1 DEF RunnerMade, Beginning, Placed
<1>4. InOrder' /\ Answers'
  BY <1>1, NothingTried DEF InOrder, Answers
<1>5. Ended'
  BY <1>1 DEF Ended
<1> QED
  BY <1>2, <1>3, <1>4, <1>5 DEF PInv

LEMMA PAdmitStep ==
    ASSUME IInv, PInv, Admit \/ SourceUnknown
    PROVE  PInv'
<1>1. /\ pc = "new" /\ tried = <<>> /\ zones = <<>> /\ reason = ""
      /\ UNCHANGED <<inputs, zones, guessed, tried>>
  BY NotFailed DEF IInv, PInv, Beginning, Admit, SourceUnknown
<1>2. pc' \in {"ignored", "load", "failed", "retry"} /\ reason' \in {"", "source"}
  BY <1>1 DEF Admit, SourceUnknown, GoOn, FailRun
<1>3. JobTyped'
  <2>1. CASE job' = job
    BY <2>1 DEF PInv, JobTyped
  <2>2. CASE IsGcrunnerJob(event.labels) /\ job' = parseJobLabels(event.labels)
    BY <2>2, LabelTyped DEF IInv, JobTyped
  <2> QED
    BY <2>1, <2>2 DEF Admit, SourceUnknown
<1> QED
  BY <1>1, <1>2, <1>3, EarlyStep DEF inputs

LEMMA PLoadStep ==
    ASSUME IInv, PInv, LoadOwn \/ LoadBase
    PROVE  PInv'
<1>1. /\ pc \in {"load", "extend"} /\ tried = <<>> /\ zones = <<>> /\ reason = ""
      /\ UNCHANGED <<inputs, job, zones, guessed, tried>>
  BY NotFailed DEF IInv, PInv, Beginning, LoadOwn, LoadBase
<1>2. pc' \in {"retry", "extend", "resolve", "failed"} /\ reason' \in {"", "invalid"}
  BY <1>1 DEF LoadOwn, LoadBase, GoOn, FailRun
<1>3. JobTyped'
  BY <1>1 DEF PInv, JobTyped
<1> QED
  BY <1>1, <1>2, <1>3, EarlyStep DEF inputs

LEMMA PResolveStep ==
    ASSUME IInv, PInv, Resolve
    PROVE  PInv'
<1>1. /\ pc = "resolve" /\ tried = <<>> /\ zones = <<>> /\ reason = "" /\ ReadAll /\ event \in Events
      /\ UNCHANGED <<inputs, job, zones, guessed, tried>>
  BY NotFailed DEF IInv, ConfigRead, PInv, Beginning, Resolve
<1>2. pc' \in {"zones", "failed"} /\ reason' \in {"", "unreadable", "undefined", "image"}
  BY <1>1 DEF Resolve, GoOn, FailRun, ResolveError
<1>3. JobTyped'
  BY <1>1 DEF PInv, JobTyped
<1>4. pc' = "zones" => runner' = Made'
  <2> SUFFICES ASSUME pc' = "zones" PROVE runner' = Made'
    OBVIOUS
  <2>1. ResolveError(config, job) = "" /\ runner' = resolve(config, job, "images")
    BY DEF Resolve, FailRun
  <2>2. runner' = Made
    BY <1>1, <2>1, ResolvedIs
  <2>3. Made' = Made
    BY <1>1, SameWish DEF inputs
  <2> QED
    BY <2>2, <2>3
<1> QED
  BY <1>1, <1>2, <1>3, <1>4, EarlyStep DEF inputs

LEMMA PZonesStep ==
    ASSUME IInv, PInv, PinnedZones \/ PoolZones \/ RegionZones
    PROVE  PInv'
<1>1. /\ pc = "zones" /\ pc' = "placing" /\ tried = <<>> /\ zones = <<>> /\ runner = Made
      /\ UNCHANGED <<event, pool, region, catalogue, offset, job, runner, tried, reason>>
      /\ reason = "" /\ event \in Events
  BY NotFailed
     DEF PInv, IInv, Beginning, RunnerMade, PinnedZones, PoolZones, RegionZones, Zones, GoOn, inputs
<1>2. JobTyped' /\ GivenInputs'
  BY <1>1 DEF PInv, JobTyped, GivenInputs
<1>3. runner' = Made'
  BY <1>1, SameWish
<1>4. PICK list \in Seq(STRING) : list = Candidates' /\ zones' = rotate(list, offset)
  <2>1. CASE PinnedZones
    <3>1. Candidates' = runner.zone /\ zones' = rotate(runner.zone, offset)
      BY <1>1, <2>1 DEF PinnedZones, Zones, Candidates
    <3>2. runner.zone \in Seq(STRING)
      BY <1>1, MadeFields, WishFields, WantedTyped DEF PInv, TypedValue
    <3> QED
      BY <3>1, <3>2
  <2>2. CASE PoolZones
    <3>1. Candidates' = configuredZones(pool) /\ zones' = rotate(configuredZones(pool), offset)
      BY <1>1, <2>2 DEF PoolZones, Zones, Candidates
    <3>2. configuredZones(pool) \in Seq(STRING)
      BY ResolutionAssumption DEF PInv, GivenInputs
    <3> QED
      BY <3>1, <3>2
  <2>3. CASE RegionZones
    <3>1. \E list \in {region, Fallback} : list = Candidates' /\ zones' = rotate(list, offset)
      BY <1>1, <2>3 DEF RegionZones, Zones, Candidates
    <3>2. {region, Fallback} \subseteq Seq(STRING)
      BY ResolutionAssumption DEF PInv, GivenInputs
    <3> QED
      BY <3>1, <3>2
  <2> QED
    BY <2>1, <2>2, <2>3
<1>6. zones' \in Seq(STRING) /\ zones' = rotate(Candidates', offset')
  <2>1. offset \in Nat
    BY ResolutionAssumption DEF PInv, GivenInputs
  <2> QED
    BY <1>1, <1>4, <2>1, RotateFacts
<1>7. RunnerMade' /\ Beginning' /\ Placed'
  BY <1>1, <1>3, <1>6 DEF RunnerMade, Beginning, Placed
<1>8. InOrder' /\ Answers'
  <2>1. tried' = <<>>
    BY <1>1
  <2>2. Len(tried') = 0 /\ DOMAIN tried' = {}
    BY <2>1, EmptySeq
  <2>3. Len(zones') \in Nat
    BY <1>6
  <2> QED
    BY <2>2, <2>3 DEF InOrder, Answers
<1>9. Ended'
  BY <1>1 DEF Ended
<1> QED
  BY <1>2, <1>7, <1>8, <1>9 DEF PInv

LEMMA PAnswerStep ==
    ASSUME IInv, PInv, Placing, NEW kind, NEW type, NEW error, Answered(kind, type, error),
           Honest([zone |-> Zone, type |-> type, error |-> error, kind |-> kind])
    PROVE  PInv'
<1> DEFINE e == [zone |-> Zone, type |-> type, error |-> error, kind |-> kind]
<1>1. /\ pc = "placing" /\ Len(tried) < Len(zones) /\ reason = ""
      /\ UNCHANGED <<event, pool, region, catalogue, offset, job, runner, zones, guessed, reason>>
      /\ tried' = Append(tried, e) /\ pc' = Outcome(kind)
  BY NotFailed DEF IInv, Placing, Answered, GoOn, inputs
<1>2. /\ pc' \in {"accepted", "retry", "permanent", "placing"}
      /\ pc' \in {"retry", "permanent"} => kind \in {"fatal", "permanent"}
      /\ pc' = "accepted" => kind \in {"created", "alreadyExists"}
  BY <1>1 DEF Outcome
<1>3. PICK S : tried \in Seq(S)
  BY DEF IInv, TriedIsSeq
<1>4. e.zone = zones[Len(tried) + 1] /\ e.kind = kind
  BY DEF Zone
<1> HIDE DEF e
<1>5. /\ tried' \in Seq(S \cup {e}) /\ Len(tried') = Len(tried) + 1 /\ Len(tried) \in Nat
      /\ DOMAIN tried = 1 .. Len(tried) /\ DOMAIN tried' = 1 .. Len(tried')
      /\ \A i \in 1 .. Len(tried) : tried'[i] = tried[i]
      /\ tried'[Len(tried) + 1] = e
  <2>0. tried' = Append(tried, e)
    BY <1>1
  <2>1. tried \in Seq(S \cup {e})
    BY <1>3, SeqMonotonic
  <2>2. /\ tried' \in Seq(S \cup {e}) /\ Len(tried') = Len(tried) + 1
        /\ \A i \in 1 .. Len(tried) : tried'[i] = tried[i]
        /\ tried'[Len(tried) + 1] = e
    BY <2>0, <2>1, AppendProperties
  <2> QED
    BY <2>1, <2>2, LenProperties
<1>6. zones \in Seq(STRING) /\ Len(zones) \in Nat
  BY DEF PInv, Placed
<1>7. JobTyped' /\ GivenInputs'
  BY <1>1 DEF PInv, JobTyped, GivenInputs
<1>8. RunnerMade'
  <2>1. Made' = Made
    BY <1>1, SameWish
  <2> QED
    BY <1>1, <2>1 DEF PInv, RunnerMade
<1>9. Beginning' /\ Placed'
  BY <1>1, <1>2 DEF PInv, Beginning, Placed, Candidates
<1>10. InOrder'
  <2>1. Len(tried') <= Len(zones')
    <3>1. zones' = zones /\ Len(tried) < Len(zones)
      BY <1>1
    <3>2. Len(tried) + 1 <= Len(zones)
      BY <1>5, <1>6, <3>1
    <3> QED
      BY <1>5, <3>1, <3>2
  <2>2. ASSUME NEW i \in DOMAIN tried' PROVE tried'[i].zone = zones'[i]
    <3>1. CASE i \in 1 .. Len(tried)
      BY <1>1, <1>5, <3>1 DEF PInv, InOrder
    <3>2. CASE i = Len(tried) + 1
      BY <1>1, <1>4, <1>5, <3>2
    <3> QED
      BY <1>5, <3>1, <3>2
  <2> QED
    BY <2>1, <2>2 DEF InOrder
<1>11. Answers'
  <2>1. ASSUME NEW i \in DOMAIN tried' PROVE Honest(tried'[i])
    <3>1. CASE i \in 1 .. Len(tried)
      BY <1>5, <3>1 DEF PInv, Answers
    <3>2. CASE i = Len(tried) + 1
      BY <1>5, <3>2 DEF e
    <3> QED
      BY <1>5, <3>1, <3>2
  <2>2. \A t : Honest(t)' <=> Honest(t)
    BY <1>1, SameAnswer
  <2> QED
    BY <2>1, <2>2 DEF Answers
<1>12. Ended'
  <2>1. pc' = "accepted" => tried' # <<>> /\ tried'[Len(tried')].kind \in {"created", "alreadyExists"}
    BY <1>2, <1>4, <1>5
  <2>2. ASSUME pc' \in {"retry", "permanent", "failed"}, zones' # <<>>
        PROVE  tried' # <<>> /\ pc' # "failed" /\ tried'[Len(tried')].kind \in {"fatal", "permanent"}
    BY <1>2, <1>4, <1>5, <2>2
  <2>3. reason' # "zones"
    BY <1>1
  <2> QED
    BY <2>1, <2>2, <2>3 DEF Ended
<1> QED
  BY <1>7, <1>8, <1>9, <1>10, <1>11, <1>12 DEF PInv

LEMMA PTryStep ==
    ASSUME IInv, PInv, Unlisted \/ Unmatched \/ Insert
    PROVE  PInv'
<1>1. Placing
  BY DEF Unlisted, Unmatched, Insert
<1>2. Type = TypeAt(Zone)
  BY DEF Type, TypeAt
<1>3. ASSUME NEW kind, NEW type, NEW error
      PROVE  LET t == [zone |-> Zone, type |-> type, error |-> error, kind |-> kind]
             IN  t.zone = Zone /\ t.type = type /\ t.error = error /\ t.kind = kind
  OBVIOUS
<1>4. Exists(Zone) => ~Offers(Zone, <<>>)
  <2> SUFFICES ASSUME Exists(Zone) PROVE ~Offers(Zone, <<>>)
    OBVIOUS
  <2>1. IsCatalogue(catalogue[Zone])
    BY ResolutionAssumption DEF PInv, GivenInputs, Exists
  <2> QED
    BY <2>1, CatalogueFacts DEF Offers
<1>5. CASE Unlisted
  <2> DEFINE t == [zone |-> Zone, type |-> <<>>, error |-> {}, kind |-> "unlisted"]
  <2>1. t.type = <<>> /\ t.kind = "unlisted"
    OBVIOUS
  <2> HIDE DEF t
  <2>2. Honest(t)
    BY <2>1 DEF Honest
  <2> QED
    BY <1>1, <1>5, <2>2, PAnswerStep DEF Unlisted, t
<1>6. CASE Unmatched
  <2> DEFINE t == [zone |-> Zone, type |-> <<>>, error |-> {}, kind |-> "noMachineType"]
  <2>1. t.zone = Zone /\ t.type = <<>> /\ t.kind = "noMachineType"
    OBVIOUS
  <2>2. Exists(Zone) /\ TypeAt(Zone) = <<>>
    BY <1>2, <1>6 DEF Unmatched
  <2> HIDE DEF t
  <2>3. Honest(t)
    BY <1>4, <2>1, <2>2 DEF Honest
  <2> QED
    BY <1>1, <1>6, <2>3, PAnswerStep DEF Unmatched, t
<1>7. CASE Insert
  <2>1. CASE Offers(Zone, Type) /\ Answered("created", Type, {})
    <3> DEFINE t == [zone |-> Zone, type |-> Type, error |-> {}, kind |-> "created"]
    <3>1. t.zone = Zone /\ t.type = Type /\ t.kind = "created"
      OBVIOUS
    <3> HIDE DEF t
    <3>2. Honest(t)
      BY <1>2, <2>1, <3>1 DEF Honest
    <3> QED
      BY <1>1, <2>1, <3>2, PAnswerStep DEF t
  <2>2. ASSUME NEW error \in InsertErrors,
               "machineType" \in error => Exists(Zone) /\ ~Offers(Zone, Type),
               Answered(classifyInsertError(error), Type, error)
        PROVE  PInv'
    <3> DEFINE t == [zone |-> Zone, type |-> Type, error |-> error, kind |-> classifyInsertError(error)]
    <3>1. t.zone = Zone /\ t.type = Type /\ t.kind = classifyInsertError(error) /\ t.error = error
      OBVIOUS
    <3> HIDE DEF t
    <3>2. /\ t.kind # "unlisted"
          /\ t.kind = "noMachineType" => "machineType" \in t.error
          /\ t.kind = "fatal" => "denied" \in t.error /\ "quota" \notin t.error
          /\ t.kind = "permanent" => "sourceImage" \in t.error /\ "quota" \notin t.error
      BY <3>1 DEF classifyInsertError
    <3>3. Honest(t)
      BY <1>2, <2>2, <3>1, <3>2 DEF Honest
    <3> QED
      BY <1>1, <2>2, <3>3, PAnswerStep DEF t
  <2> QED
    BY <1>7, <2>1, <2>2 DEF Insert
<1> QED
  BY <1>5, <1>6, <1>7

LEMMA PGiveUpStep ==
    ASSUME IInv, PInv, GiveUp
    PROVE  PInv'
<1>1. /\ pc = "placing" /\ Len(tried) = Len(zones) /\ reason = ""
      /\ UNCHANGED <<event, pool, region, catalogue, offset, job, runner, zones, guessed, tried>>
      /\ \/ NoneMatches /\ pc' = "failed" /\ reason' = "zones"
         \/ ~NoneMatches /\ pc' = "retry" /\ reason' = reason
  BY NotFailed DEF IInv, GiveUp, GoOn, FailRun, inputs
<1>2. JobTyped' /\ GivenInputs'
  BY <1>1 DEF PInv, JobTyped, GivenInputs
<1>3. RunnerMade'
  <2>1. Made' = Made
    BY <1>1, SameWish
  <2> QED
    BY <1>1, <2>1 DEF PInv, RunnerMade
<1>4. Beginning' /\ Placed' /\ InOrder'
  BY <1>1 DEF PInv, Beginning, Placed, Candidates, InOrder
<1>5. Answers'
  BY <1>1, SameAnswer DEF PInv, Answers
<1>6. Ended'
  <2>1. (NoneMatches' <=> NoneMatches) /\ Len(tried') = Len(zones')
    BY <1>1 DEF NoneMatches
  <2>2. (pc' = "failed" <=> NoneMatches') /\ pc' # "accepted" /\ (reason' = "zones" => NoneMatches')
    BY <1>1, <2>1
  <2> QED
    BY <2>1, <2>2, Zenon DEF Ended
<1> QED
  BY <1>2, <1>3, <1>4, <1>5, <1>6 DEF PInv

LEMMA PStutterStep ==
    ASSUME PInv, UNCHANGED vars
    PROVE  PInv'
<1>1. UNCHANGED <<event, pool, region, catalogue, offset, pc, job, runner, zones, guessed, tried,
                  reason>>
  BY DEF vars, inputs
<1>2. JobTyped' /\ GivenInputs'
  BY <1>1 DEF PInv, JobTyped, GivenInputs
<1>3. RunnerMade'
  <2>1. Made' = Made
    BY <1>1, SameWish
  <2> QED
    BY <1>1, <2>1 DEF PInv, RunnerMade
<1>4. Beginning' /\ Placed' /\ InOrder' /\ Ended'
  BY <1>1 DEF PInv, Beginning, Placed, Candidates, InOrder, Ended, NoneMatches
<1>5. Answers'
  BY <1>1, SameAnswer DEF PInv, Answers
<1> QED
  BY <1>2, <1>3, <1>4, <1>5 DEF PInv

\* What the theorems about zones and machines rest on.
THEOREM PlacementInvariance == Spec => [](IInv /\ PInv)
<1>1. IInv /\ PInv /\ [Next]_vars => PInv'
  BY PAdmitStep, PLoadStep, PResolveStep, PZonesStep, PTryStep, PGiveUpStep, PStutterStep
     DEF Next
<1> QED
  BY Invariance, PInitially, <1>1, PTL DEF Spec

-----------------------------------------------------------------------------
(***************************************************************************)
(* The properties.                                                         *)
(***************************************************************************)

\* A zone that answered, last or before.
LEMMA Answering ==
    ASSUME IInv, PInv, NEW i \in DOMAIN tried
    PROVE  /\ runner = Made /\ event \in Events /\ JobTyped /\ catalogue \in Catalogues
           /\ Honest(tried[i]) /\ tried[i].zone = zones[i] /\ i \in DOMAIN zones
           /\ zones = rotate(Candidates, offset) /\ offset \in Nat
<1>1. PICK S : tried \in Seq(S)
  BY DEF IInv, TriedIsSeq
<1>2. zones \in Seq(STRING) /\ Len(tried) <= Len(zones)
  BY DEF PInv, Placed, InOrder
<1>3. i \in DOMAIN zones /\ zones # <<>>
  <2>1. Len(tried) \in Nat /\ Len(zones) \in Nat /\ DOMAIN tried = 1 .. Len(tried)
        /\ DOMAIN zones = 1 .. Len(zones)
    BY <1>1, <1>2, LenProperties
  <2>2. i \in DOMAIN zones
    BY <1>2, <2>1
  <2> QED
    BY <2>2, NothingTried
<1>4. runner = Made /\ zones = rotate(Candidates, offset)
  BY <1>3 DEF PInv, RunnerMade, Placed
<1>5. offset \in Nat /\ catalogue \in Catalogues
  BY ResolutionAssumption DEF PInv, GivenInputs
<1> QED
  BY <1>3, <1>4, <1>5 DEF IInv, PInv, InOrder, Answers

\* The zones that the job may use are a sequence of names.
LEMMA CandidatesTyped ==
    ASSUME event \in Events, JobTyped, GivenInputs, runner = Made
    PROVE  Candidates \in Seq(STRING)
<1>1. runner.zone \in Seq(STRING)
  BY MadeFields, WishFields, WantedTyped DEF TypedValue
<1>2. configuredZones(pool) \in Seq(STRING) /\ region \in Seq(STRING) /\ Fallback \in Seq(STRING)
  BY ResolutionAssumption DEF GivenInputs
<1> QED
  BY <1>1, <1>2 DEF Candidates

\* The last answer is one of them.
LEMMA LastIsOne ==
    ASSUME IInv, tried # <<>>
    PROVE  Len(tried) \in DOMAIN tried /\ Last(tried) = tried[Len(tried)]
<1>1. PICK S : tried \in Seq(S)
  BY DEF IInv, TriedIsSeq
<1> QED
  BY <1>1 DEF Last

\* A zone answers that it has no such machine type only when it has none that the job
\* accepts, and whatever it answers it was asked for the one that the job gets there.
LEMMA AnswerMeans ==
    ASSUME IInv, PInv, NEW i \in DOMAIN tried, Exists(tried[i].zone)
    PROVE  LET t == tried[i] IN
           /\ t.kind = "unlisted" => ~Offers(t.zone, t.type)
           /\ t.kind # "unlisted" => t.type = TypeAt(t.zone)
           /\ t.kind = "noMachineType" => Acceptable(t.zone) = {}
<1> DEFINE t == tried[i]
<1>1. /\ runner = Made /\ event \in Events /\ JobTyped /\ catalogue \in Catalogues /\ Honest(t)
      /\ Exists(t.zone)
  BY Answering
<1> HIDE DEF t
<1>2. Offers(t.zone, TypeAt(t.zone)) <=> Acceptable(t.zone) # {}
  BY <1>1, TypeChosen
<1>3. ~Offers(t.zone, <<>>)
  <2>1. IsCatalogue(catalogue[t.zone])
    BY <1>1, ResolutionAssumption DEF Exists
  <2> QED
    BY <2>1, CatalogueFacts DEF Offers
<1>4. t.kind = "unlisted" => ~Offers(t.zone, t.type)
  BY <1>1, <1>3 DEF Honest
<1>5. /\ t.kind # "unlisted" => t.type = TypeAt(t.zone)
      /\ t.kind = "noMachineType" => ~Offers(t.zone, t.type)
  BY <1>1 DEF Honest
<1> QED
  BY <1>2, <1>4, <1>5 DEF t

LEMMA MachineIsHonoured ==
    ASSUME IInv, PInv
    PROVE  MachineHonoured
<1> SUFFICES ASSUME tried # <<>>, Offers(Last(tried).zone, Last(tried).type)
             PROVE  \E k \in Acceptable(Last(tried).zone) :
                        catalogue[Last(tried).zone][k].name = Last(tried).type
  BY DEF MachineHonoured
<1> DEFINE t == Last(tried)
<1>1. t = tried[Len(tried)] /\ Len(tried) \in DOMAIN tried
  BY LastIsOne
<1>2. Exists(t.zone)
  BY DEF Offers
<1>3. t.type = TypeAt(t.zone)
  BY <1>1, <1>2, AnswerMeans
<1>4. runner = Made /\ event \in Events /\ JobTyped /\ catalogue \in Catalogues
  BY <1>1, Answering
<1> HIDE DEF t
<1>5. Offers(t.zone, TypeAt(t.zone)) =>
          \E k \in Acceptable(t.zone) : catalogue[t.zone][k].name = TypeAt(t.zone)
  BY <1>2, <1>4, TypeChosen
<1> QED
  BY <1>3, <1>5 DEF t

LEMMA SmallestFits ==
    ASSUME IInv, PInv
    PROVE  SmallestFitting
<1> SUFFICES ASSUME tried # <<>>,
                    NEW k \in Acceptable(Last(tried).zone), NEW o \in Acceptable(Last(tried).zone),
                    catalogue[Last(tried).zone][k].name = Last(tried).type
             PROVE  \/ catalogue[Last(tried).zone][k].vcpus < catalogue[Last(tried).zone][o].vcpus
                    \/ /\ catalogue[Last(tried).zone][k].vcpus = catalogue[Last(tried).zone][o].vcpus
                       /\ catalogue[Last(tried).zone][k].memory <= catalogue[Last(tried).zone][o].memory
  BY DEF SmallestFitting
<1> DEFINE t == Last(tried)
<1>1. t = tried[Len(tried)] /\ Len(tried) \in DOMAIN tried
  BY LastIsOne
<1>2. Exists(t.zone) /\ Offers(t.zone, t.type)
  BY DEF Acceptable, Offers
<1>3. t.type = TypeAt(t.zone)
  BY <1>1, <1>2, AnswerMeans
<1>4. runner = Made /\ event \in Events /\ JobTyped /\ catalogue \in Catalogues
  BY <1>1, Answering
<1>5. k \in Acceptable(t.zone) /\ o \in Acceptable(t.zone) /\ catalogue[t.zone][k].name = TypeAt(t.zone)
  BY <1>3
<1> HIDE DEF t
<1>6. \/ catalogue[t.zone][k].vcpus < catalogue[t.zone][o].vcpus
      \/ /\ catalogue[t.zone][k].vcpus = catalogue[t.zone][o].vcpus
         /\ catalogue[t.zone][k].memory <= catalogue[t.zone][o].memory
  BY <1>2, <1>4, <1>5, TypeChosen
<1> QED
  BY <1>6 DEF t

LEMMA OnlyHopelessFail ==
    ASSUME IInv, PInv
    PROVE  ConfigurationError
<1> DEFINE hopeless ==
            ~guessed /\ \A i \in DOMAIN zones : Exists(zones[i]) /\ Acceptable(zones[i]) = {}
<1>1. PICK S : tried \in Seq(S)
  BY DEF IInv, TriedIsSeq
<1>2. zones \in Seq(STRING)
  BY DEF PInv, Placed
<1>3. Len(tried) = Len(zones) => DOMAIN tried = DOMAIN zones
  BY <1>1, <1>2
<1>4. ASSUME reason = "zones" PROVE hopeless
  <2>1. Len(tried) = Len(zones) /\ ~guessed /\ \A i \in DOMAIN tried : tried[i].kind = "noMachineType"
    BY <1>4 DEF PInv, Ended, NoneMatches
  <2>2. ASSUME NEW i \in DOMAIN zones PROVE Exists(zones[i]) /\ Acceptable(zones[i]) = {}
    <3>1. i \in DOMAIN tried /\ tried[i].kind = "noMachineType"
      BY <1>3, <2>1
    <3>2. tried[i].zone = zones[i] /\ Honest(tried[i])
      BY <3>1, Answering
    <3>3. Exists(tried[i].zone)
      BY <3>1, <3>2 DEF Honest
    <3>4. Acceptable(tried[i].zone) = {}
      BY <3>1, <3>3, AnswerMeans
    <3> QED
      BY <3>2, <3>3, <3>4
  <2> QED
    BY <2>1, <2>2
<1>5. ASSUME pc \in {"accepted", "retry", "permanent"}, zones # <<>>, hopeless
      PROVE  \E i \in DOMAIN tried : tried[i].kind # "noMachineType"
  <2> SUFFICES ASSUME \A i \in DOMAIN tried : tried[i].kind = "noMachineType" PROVE FALSE
    OBVIOUS
  <2>1. NoneMatches
    BY <1>5 DEF NoneMatches
  <2>2. tried # <<>> /\ tried[Len(tried)].kind # "noMachineType"
    BY <1>5, <2>1 DEF PInv, Ended
  <2>3. Len(tried) \in DOMAIN tried
    BY <2>2, LastIsOne
  <2> QED
    BY <2>2, <2>3
<1> QED
  BY <1>4, <1>5, Zenon DEF ConfigurationError

LEMMA SettingsAreHonoured ==
    ASSUME IInv, PInv
    PROVE  SettingsHonoured
<1> SUFFICES ASSUME tried # <<>>
             PROVE  LET vm == VM(Last(tried))
                        timeout == OrDefault("timeout")
                        disk == OrDefault("disk")
                    IN  /\ vm.spot => OrDefault("spot") # <<"false">>
                        /\ disk # <<>> /\ disk[1] >= 10 => vm.disk = disk[1]
                        /\ vm.image = resolveSourceImage(ImageNamed(OrDefault("image")), "images")
                        /\ vm.life > bootAllowance /\ vm.life <= longestTimeout + bootAllowance
                        /\ timeout # <<>> /\ timeout[1] <= longestTimeout =>
                               vm.life >= timeout[1] + bootAllowance
  BY DEF SettingsHonoured
<1> DEFINE vm == VM(Last(tried))
<1>1. runner = Made /\ event \in Events /\ JobTyped
  BY LastIsOne, Answering
<1>2. /\ vm.spot = runner.spot /\ vm.image = resolveSourceImage(runner.image, "images")
      /\ vm.disk = parseDiskSize(runner.disk) /\ vm.life = lifetime(runner.timeout)
  BY DEF VM
<1> HIDE DEF vm
<1>3. vm.spot => OrDefault("spot") # <<"false">>
  BY <1>1, <1>2, MadeFields, WishFields
<1>4. vm.image = resolveSourceImage(ImageNamed(OrDefault("image")), "images")
  BY <1>1, <1>2, MadeFields, WishFields
<1>5. runner.disk = OrDefault("disk") /\ runner.timeout = OrDefault("timeout")
  BY <1>1, MadeFields, WishFields
<1>6. OrDefault("disk") \in Seq(Int) /\ OrDefault("timeout") \in Seq(Int)
  <2>1. \A key \in {"disk", "timeout"} : defaultSettings[key] \in Seq(Int)
    BY DEF defaultSettings
  <2>2. \A key \in {"disk", "timeout"} : Wanted(key) \in Seq(Int)
    BY <1>1, WantedTyped DEF TypedValue
  <2> QED
    BY <2>1, <2>2 DEF OrDefault
<1>7. OrDefault("disk") # <<>> /\ OrDefault("disk")[1] >= 10 => vm.disk = OrDefault("disk")[1]
  <2> SUFFICES ASSUME OrDefault("disk") # <<>>, OrDefault("disk")[1] >= 10
               PROVE  vm.disk = OrDefault("disk")[1]
    OBVIOUS
  <2>1. OrDefault("disk")[1] \in Int
    BY <1>6
  <2>2. ~(OrDefault("disk")[1] < 10)
    BY <2>1
  <2> QED
    BY <1>2, <1>5, <2>2 DEF parseDiskSize
<1>8. /\ bootAllowance < vm.life /\ vm.life <= longestTimeout + bootAllowance
      /\ OrDefault("timeout") # <<>> /\ OrDefault("timeout")[1] <= longestTimeout =>
             OrDefault("timeout")[1] + bootAllowance <= vm.life
  BY <1>2, <1>5, <1>6, LifetimeCovers
<1> QED
  BY <1>3, <1>4, <1>7, <1>8, Zenon DEF vm

LEMMA EveryZoneIsTried ==
    ASSUME IInv, PInv
    PROVE  EveryZoneTried
<1>1. ASSUME IsInjective(Candidates), NEW i \in DOMAIN tried, NEW j \in DOMAIN tried,
             tried[i].zone = tried[j].zone
      PROVE  i = j
  <2>1. i \in DOMAIN zones /\ j \in DOMAIN zones /\ zones[i] = zones[j]
    BY <1>1, Answering
  <2>2. zones = rotate(Candidates, offset) /\ offset \in Nat
    BY Answering
  <2>3. Candidates \in Seq(STRING)
    BY CandidatesTyped, Answering DEF PInv
  <2>4. IsInjective(zones)
    BY <1>1, <2>2, <2>3, RotateFacts
  <2> QED
    BY <2>1, <2>4 DEF IsInjective
<1>2. ASSUME pc \in {"retry", "failed", "permanent"}, tried # <<>>
      PROVE  \/ \A i \in DOMAIN Candidates : \E j \in DOMAIN tried : tried[j].zone = Candidates[i]
             \/ Last(tried).error \cap {"denied", "sourceImage"} # {} /\ "quota" \notin Last(tried).error
  <2>1. Len(tried) \in DOMAIN tried /\ Last(tried) = tried[Len(tried)]
    BY <1>2, LastIsOne
  <2>2. zones = rotate(Candidates, offset) /\ offset \in Nat /\ zones # <<>>
    BY <2>1, Answering, NothingTried
  <2>3. CASE Last(tried).kind \in {"fatal", "permanent"}
    BY <2>1, <2>3, Answering DEF Honest
  <2>4. CASE Len(tried) = Len(zones)
    <3>1. Candidates \in Seq(STRING)
      BY <2>1, CandidatesTyped, Answering DEF PInv
    <3>2. PICK S : tried \in Seq(S)
      BY DEF IInv, TriedIsSeq
    <3>3. DOMAIN tried = DOMAIN zones
      <4>1. zones \in Seq(STRING)
        BY DEF PInv, Placed
      <4> QED
        BY <2>4, <3>2, <4>1
    <3>4. ASSUME NEW i \in DOMAIN Candidates
          PROVE  \E j \in DOMAIN tried : tried[j].zone = Candidates[i]
      <4>1. PICK j \in DOMAIN zones : zones[j] = Candidates[i]
        BY <2>2, <3>1, RotateFacts
      <4> QED
        BY <3>3, <4>1, Answering
    <3> QED
      BY <3>4
  <2> QED
    BY <1>2, <2>1, <2>2, <2>3, <2>4 DEF PInv, Ended
<1> QED
  BY <1>1, <1>2, Zenon DEF EveryZoneTried

\* The machine type that a zone is asked for is one that the job accepts, whatever
\* the label, the two files and the catalogues hold (runner, extend, ResolveMachineType).
THEOREM MachineAlwaysHonoured == Spec => []MachineHonoured
<1>1. IInv /\ PInv => MachineHonoured
  BY MachineIsHonoured
<1> QED
  BY PlacementInvariance, <1>1, PTL

\* And the smallest of those that the zone has (ResolveMachineType).
THEOREM AlwaysSmallest == Spec => []SmallestFitting
<1>1. IInv /\ PInv => SmallestFitting
  BY SmallestFits
<1> QED
  BY PlacementInvariance, <1>1, PTL

\* A run is failed for want of a zone only if no zone could ever take the job; one
\* that none can take goes unfailed only if a zone answered something else than that
\* it lacks the machine type (createRunnerInstance).
THEOREM OnlyHopelessFailed == Spec => []ConfigurationError
<1>1. IInv /\ PInv => ConfigurationError
  BY OnlyHopelessFail
<1> QED
  BY PlacementInvariance, <1>1, PTL

\* The VM is what the job and its preset ask for, never Spot for a job that declines
\* it, and it lives long enough and not for ever (runner, resolve, runnerInstance, lifetime).
THEOREM SettingsAlwaysHonoured == Spec => []SettingsHonoured
<1>1. IInv /\ PInv => SettingsHonoured
  BY SettingsAreHonoured
<1> QED
  BY PlacementInvariance, <1>1, PTL

\* No zone is asked twice, and none is left out before the job is given up
\* (createRunnerInstance, rotate, classifyInsertError).
THEOREM NoZoneLeftOut == Spec => []EveryZoneTried
<1>1. IInv /\ PInv => EveryZoneTried
  BY EveryZoneIsTried
<1> QED
  BY PlacementInvariance, <1>1, PTL
=============================================================================
