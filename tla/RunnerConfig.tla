---------------------------- MODULE RunnerConfig ----------------------------
(***************************************************************************)
(* What a job asks for: its label (labels.go) laid over the preset that it *)
(* selects in .github/gcrunner.yml (config.go).                            *)
(*                                                                         *)
(* A value is the sequence of what its separator separates, "+" for a list *)
(* or a range and "-" for a machine type, so <<>> is the empty value.      *)
(* Something that is not a count is -1.  Settings are a function of the    *)
(* keys that were spelled out.                                             *)
(***************************************************************************)
EXTENDS Integers, Sequences, SequencesExt

PresetKeys == {"machine", "family", "cpu", "ram", "spot", "disk", "disk-type", "image", "zone"}

NoSettings == [k \in {} |-> <<>>]

Value(settings, key) == IF key \in DOMAIN settings THEN settings[key] ELSE <<>>

Set(settings, key) == Value(settings, key) # <<>>

-----------------------------------------------------------------------------
(***************************************************************************)
(* Labels.                                                                 *)
(***************************************************************************)

Merge(lower, upper) ==
    [k \in DOMAIN lower \cup DOMAIN upper |-> IF k \in DOMAIN upper THEN upper[k] ELSE lower[k]]

Delete(settings, key) == [k \in DOMAIN settings \ {key} |-> settings[k]]

defaultSettings ==
    [k \in {"machine", "spot", "disk", "disk-type", "image", "timeout"} |->
        CASE k = "machine"   -> <<"n2d", "standard", "2">>
          [] k = "spot"      -> <<"true">>
          [] k = "disk"      -> <<75>>
          [] k = "disk-type" -> <<"pd-ssd">>
          [] k = "image"     -> <<"ubuntu24-full-x64">>
          [] k = "timeout"   -> <<360>>]

\* A label is the sequence of its parts, a part is <<key, value>>, or <<word>>
\* without a "=".  The first label that begins with gcrunner= is the job's.
IsGcrunnerLabel(label) == label # <<>> /\ Len(label[1]) = 2 /\ label[1][1] = "gcrunner"

GcrunnerLabels(labels) == {i \in DOMAIN labels : IsGcrunnerLabel(labels[i])}

IsGcrunnerJob(labels) == GcrunnerLabels(labels) # {}

\* The parts that give a key a value; the last one counts.
PartsFor(label, key) == {i \in DOMAIN label : Len(label[i]) = 2 /\ label[i][1] = key}

Given(label, key) ==
    IF PartsFor(label, key) = {} THEN <<>> ELSE label[Max(PartsFor(label, key))][2]

GivenKeys(label) == {label[i][1] : i \in {j \in DOMAIN label : Len(label[j]) = 2}}

parseJobLabels(labels) ==
    LET label == labels[Min(GcrunnerLabels(labels))]
    IN  [run |-> Given(label, "gcrunner"), runner |-> Given(label, "runner"),
         settings |-> [k \in GivenKeys(label) \ {"gcrunner", "runner"} |-> Given(label, k)]]

classifyMachineMode(explicit) ==
    IF Set(explicit, "family") THEN "family"
    ELSE IF ~Set(explicit, "machine") /\ (Set(explicit, "cpu") \/ Set(explicit, "ram"))
         THEN "auto" ELSE "exact"

\* Broken variant: the job is laid over its preset and that is all.
ExplicitPlain(job, preset) == Merge(preset, job.settings)

\* The job's way to pick a machine beats its preset's.
Explicit(job, preset) ==
    LET both == Merge(preset, job.settings)
        own(key) == Set(job.settings, key)
        one == IF own("machine") /\ ~own("family") THEN Delete(both, "family") ELSE both
    IN  IF ~own("machine") /\ (own("cpu") \/ own("ram")) THEN Delete(one, "machine") ELSE one

runnerOf(job, preset) ==
    LET explicit == Explicit(job, preset)
        settings == Merge(defaultSettings, explicit)
    IN  [machine |-> Value(settings, "machine"), family |-> Value(settings, "family"),
         cpu |-> Value(settings, "cpu"), ram |-> Value(settings, "ram"),
         spot |-> Value(settings, "spot") # <<"false">>,
         disk |-> Value(settings, "disk"), diskType |-> Value(settings, "disk-type"),
         image |-> Value(settings, "image"), zone |-> Value(settings, "zone"),
         timeout |-> Value(settings, "timeout"), mode |-> classifyMachineMode(explicit)]

-----------------------------------------------------------------------------
(***************************************************************************)
(* The config file.  As it is read, a file is                              *)
(*   [status  : what the read answered,                                    *)
(*    known   : whether every key in it is known,                          *)
(*    extends : the repository it names, <<repo>> or <<owner, repo>>,      *)
(*    runners : presets by name, a preset giving every key a value,        *)
(*    images  : images by name, [project, family, name]].                  *)
(***************************************************************************)

Statuses == {"ok", "missing", "forbidden", "down"}

\* A count, or a range of two.
IsRange(value) == Len(value) \in 1 .. 2 /\ \A i \in DOMAIN value : value[i] >= 0

validate(preset) ==
    /\ \A key \in {"cpu", "ram"} : preset[key] # <<>> => IsRange(preset[key])
    /\ preset["disk"] # <<>> => preset["disk"][1] >= 0

\* What parseRepositoryConfig takes.
Parses(file) == file.known /\ \A name \in DOMAIN file.runners : validate(file.runners[name])

presetSettings(preset) ==
    [k \in {key \in PresetKeys : preset[key] # <<>>} |-> preset[k]]

\* A job's own repository is read at the job's commit when it is private, by its
\* default branch when it is not.
configRef(private) == IF private THEN "commit" ELSE "branch"

extendsTarget(extends, owner) ==
    IF Len(extends) = 2 THEN extends ELSE <<owner, extends[1]>>

extend(config, base) ==
    [runners |-> Merge(base.runners, config.runners), images |-> Merge(base.images, config.images),
     unreadable |-> FALSE]

NoConfig == [runners |-> [n \in {} |-> <<>>], images |-> [n \in {} |-> <<>>], unreadable |-> FALSE]

\* What a file that was read is worth: a config, or why there is none.
Loaded(file) ==
    IF file.status # "ok" THEN file.status
    ELSE IF Parses(file) THEN "ok" ELSE "invalid"

Unreadable(config) == [runners |-> config.runners, images |-> config.images, unreadable |-> TRUE]

Config(file) == [runners |-> file.runners, images |-> file.images, unreadable |-> FALSE]

\* path: one of family and name.
ValidImage(image) == (image.family = <<>>) # (image.name = <<>>)

path(image, defaultProject) ==
    << IF image.project = <<>> THEN defaultProject ELSE image.project,
       IF image.family = <<>> THEN "image" ELSE "family",
       IF image.family = <<>> THEN image.name ELSE image.family >>

\* Broken variant: a config that is not all there holds every job that selects a runner.
ResolveErrorHoldsAll(config, job) ==
    IF job.runner = <<>> THEN ""
    ELSE IF config.unreadable THEN "unreadable"
    ELSE IF job.runner \notin DOMAIN config.runners THEN "undefined" ELSE ""

\* Why a job has no runner, "" when it has one.
ResolveError(config, job) ==
    LET preset == IF job.runner = <<>> THEN NoSettings ELSE presetSettings(config.runners[job.runner])
        image == runnerOf(job, preset).image
    IN  CASE job.runner # <<>> /\ job.runner \notin DOMAIN config.runners ->
                 IF config.unreadable THEN "unreadable" ELSE "undefined"
          [] OTHER -> IF image \in DOMAIN config.images /\ ~ValidImage(config.images[image])
                      THEN "image" ELSE ""

resolve(config, job, imageProject) ==
    LET preset == IF job.runner = <<>> THEN NoSettings ELSE presetSettings(config.runners[job.runner])
        runner == runnerOf(job, preset)
    IN  IF runner.image \in DOMAIN config.images
        THEN [runner EXCEPT !.image = path(config.images[runner.image], imageProject)]
        ELSE runner
=============================================================================
