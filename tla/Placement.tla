----------------------------- MODULE Placement ------------------------------
(***************************************************************************)
(* Which machine a runner gets and where: the choice of a machine type     *)
(* (machines.go), of the zones to try and of what a refusal means (vm.go). *)
(* The name of a machine type is the sequence of its parts.                *)
(***************************************************************************)
EXTENDS Integers, Sequences, SequencesExt

-----------------------------------------------------------------------------
(***************************************************************************)
(* Machine types.  A catalogue is a sequence of [name, vcpus, memory].     *)
(***************************************************************************)

Family(name) == IF Len(name) >= 2 /\ name[1] = "custom" THEN "n1" ELSE name[1]

Category(name) ==
    IF Len(name) < 2 THEN "" ELSE IF name[1] = "custom" THEN "custom" ELSE name[2]

SharedCore == {"micro", "small", "medium"}
GPU == {"highgpu", "megagpu", "ultragpu", "edgegpu", "maxgpu"}

\* Something that is not a count is no bound; neither is 0.
Bound(value, i) == IF value[i] < 0 THEN 0 ELSE value[i]

\* A range splits once; what follows a second "+" makes its end no count.
parseRange(value) ==
    CASE Len(value) = 0 -> [min |-> 0, max |-> 0]
      [] Len(value) = 1 -> [min |-> Bound(value, 1), max |-> Bound(value, 1)]
      [] OTHER          -> [min |-> Bound(value, 1),
                            max |-> IF Len(value) = 2 THEN Bound(value, 2) ELSE 0]

Within(n, range) == n >= range.min /\ (range.max > 0 => n <= range.max)

Families(runner) == IF runner.mode = "auto" THEN <<"n2d">> ELSE runner.family

Matches(type, runner) ==
    /\ \E i \in DOMAIN Families(runner) : Family(type.name) = Families(runner)[i]
    /\ Category(type.name) \notin SharedCore \cup GPU
    /\ Within(type.vcpus, parseRange(runner.cpu))
    /\ Within(type.memory \div 1024, parseRange(runner.ram))

\* Broken variant: memory alone decides.
SmallerByMemory(type, best) == type.memory < best.memory

Smaller(type, best) ==
    type.vcpus < best.vcpus \/ (type.vcpus = best.vcpus /\ type.memory < best.memory)

Fitting(types, runner) == {i \in DOMAIN types : Matches(types[i], runner)}

\* What the loop ends with: the first of the smallest.
Best(types, runner) ==
    CHOOSE i \in Fitting(types, runner) :
        \A j \in Fitting(types, runner) :
            ~Smaller(types[j], types[i]) /\ (j < i => Smaller(types[i], types[j]))

\* The machine type of a runner that is not exact; <<>> when none matches.
ResolveMachineType(types, runner) ==
    IF Fitting(types, runner) = {} THEN <<>> ELSE types[Best(types, runner)].name

-----------------------------------------------------------------------------
(***************************************************************************)
(* Zones.                                                                  *)
(***************************************************************************)

rotate(zones, offset) ==
    LET start == offset % Len(zones)
    IN  IF Len(zones) < 2 THEN zones
        ELSE SubSeq(zones, start + 1, Len(zones)) \o SubSeq(zones, 1, start)

\* The zones of the pool that are worth a name.
configuredZones(pool) == SelectSeq(pool, LAMBDA zone : zone # "")

-----------------------------------------------------------------------------
(***************************************************************************)
(* A refused insert.  An error is the set of the marks its text carries.   *)
(***************************************************************************)

\* Nothing looks for "exhausted", a zone that is short of capacity, nor for an error
\* without a mark.
Marks == {"quota", "exists", "denied", "sourceImage", "machineType", "exhausted"}

\* Broken variant: what is denied is looked at first.
ClassifyDeniedFirst(error) ==
    IF "denied" \in error THEN "fatal"
    ELSE IF "quota" \in error THEN "quota"
    ELSE IF "exists" \in error THEN "alreadyExists"
    ELSE IF "sourceImage" \in error THEN "permanent"
    ELSE IF "machineType" \in error THEN "noMachineType"
    ELSE "retryable"

\* The first test that the text passes decides.
classifyInsertError(error) ==
    IF "quota" \in error THEN "quota"
    ELSE IF "exists" \in error THEN "alreadyExists"
    ELSE IF "denied" \in error THEN "fatal"
    ELSE IF "sourceImage" \in error THEN "permanent"
    ELSE IF "machineType" \in error THEN "noMachineType"
    ELSE "retryable"

-----------------------------------------------------------------------------
(***************************************************************************)
(* The VM.  Times in minutes.                                              *)
(***************************************************************************)

defaultTimeout == 6 * 60
longestTimeout == 5 * 24 * 60
bootAllowance == 15

\* Broken variant: a timeout that is none is no lifetime.
LifetimeUnchecked(timeout) ==
    Min({IF timeout = <<>> THEN 0 ELSE timeout[1], longestTimeout}) + bootAllowance

lifetime(timeout) ==
    LET readable == timeout # <<>> /\ timeout[1] > 0
    IN  Min({IF readable THEN timeout[1] ELSE defaultTimeout, longestTimeout}) + bootAllowance

BuiltinImages == {<<"ubuntu24-full-x64">>, <<"ubuntu22-full-x64">>}

\* A path stays as it is, any other image is one of the image project.
resolveSourceImage(image, imageProject) ==
    CASE image \in BuiltinImages -> <<imageProject, "family", image>>
      [] Len(image) = 3          -> image
      [] OTHER                   -> <<imageProject, "image", image>>

parseDiskSize(disk) == IF disk = <<>> THEN 50 ELSE IF disk[1] < 10 THEN 50 ELSE disk[1]
=============================================================================
