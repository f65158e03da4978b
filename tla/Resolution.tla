----------------------------- MODULE Resolution -----------------------------
(***************************************************************************)
(* From the label of a queued job to its VM: provisionJob and what it      *)
(* calls, for one job, once.  A retry begins again.  The repository's      *)
(* config and the one it extends are read one after the other; then the    *)
(* zones are tried in turn, and what each answers is its own affair.       *)
(***************************************************************************)
EXTENDS RunnerConfig, Placement

CONSTANTS
    Events,        \* jobs: [labels, private, sameRepository, contents], the last a function
                   \* from <<owner, repository, ref>> to the config file there
    Pools,         \* GCRUNNER_ZONES: sequences of zones
    Regions,       \* the zones that the region reports
    Catalogues,    \* functions from a zone to its machine types
    Offsets,       \* where the rotation of the zones stands
    InsertErrors,  \* what else than "created" a zone may answer
    Fallback       \* the zones guessed when the region does not report them

\* A value that is read as a number, or as a range of two, is a sequence of
\* numbers, those of no use among them; that of zone is one of names.
TypedValue(key, value) ==
    /\ key \in {"cpu", "ram", "disk", "timeout"} => value \in Seq(Int)
    /\ key = "zone" => value \in Seq(STRING)

IsLabel(label) ==
    /\ label = [i \in 1 .. Len(label) |-> label[i]] /\ Len(label) \in Nat
    /\ \A i \in DOMAIN label : Len(label[i]) = 2 => TypedValue(label[i][1], label[i][2])

IsFile(file) ==
    /\ file.status \in Statuses
    /\ \A name \in DOMAIN file.runners : \A key \in PresetKeys :
           TypedValue(key, file.runners[name][key])

\* The machine types of a zone, each once.
IsCatalogue(types) ==
    /\ types \in Seq([name : {types[i].name : i \in DOMAIN types} \ {<<>>}, vcpus : Nat, memory : Nat])
    /\ \A i, j \in DOMAIN types : types[i].name = types[j].name => i = j

ASSUME ResolutionAssumption ==
    /\ \A e \in Events :
           /\ e.labels = [i \in 1 .. Len(e.labels) |-> e.labels[i]] /\ Len(e.labels) \in Nat
           /\ \A i \in DOMAIN e.labels : IsLabel(e.labels[i])
           /\ \A place \in DOMAIN e.contents : IsFile(e.contents[place])
    /\ \A p \in Pools : configuredZones(p) \in Seq(STRING)
    /\ Regions \cup {Fallback} \subseteq Seq(STRING)
    /\ \A c \in Catalogues : \A zone \in DOMAIN c : IsCatalogue(c[zone])
    /\ Offsets \subseteq Nat
    /\ InsertErrors \subseteq SUBSET Marks

VARIABLES
    event, pool, region, catalogue, offset,  \* the inputs
    pc,
    job,       \* what the job wrote on its label
    config,    \* the repository's config, as far as it is read
    runner,    \* what it makes of the job
    zones,     \* the zones to try
    guessed,   \* whether they are guessed
    tried,     \* what each zone answered
    reason     \* why the run is failed

inputs == <<event, pool, region, catalogue, offset>>

vars == <<inputs, pc, job, config, runner, zones, guessed, tried, reason>>

NoJob == [run |-> <<>>, runner |-> <<>>, settings |-> NoSettings]

NoRunner == runnerOf(NoJob, NoSettings)

Init ==
    /\ event \in Events
    /\ pool \in Pools
    /\ region \in Regions
    /\ catalogue \in Catalogues
    /\ offset \in Offsets
    /\ pc = "new"
    /\ job = NoJob
    /\ config = NoConfig
    /\ runner = NoRunner
    /\ zones = <<>>
    /\ guessed = FALSE
    /\ tried = <<>>
    /\ reason = ""

File(place) ==
    IF place \in DOMAIN event.contents THEN event.contents[place]
    ELSE [status |-> "missing", known |-> TRUE, extends |-> <<>>,
          runners |-> NoConfig.runners, images |-> NoConfig.images]

Own == File(<<"acme", "app", configRef(event.private)>>)

Base == File(Append(extendsTarget(Own.extends, "acme"), "branch"))

-----------------------------------------------------------------------------
(***************************************************************************)
(* provisionJob: the run is failed for a configuration error, any other    *)
(* error is the queue's to retry.                                          *)
(***************************************************************************)

FailRun(why) == pc' = "failed" /\ reason' = why
GoOn(step) == pc' = step /\ UNCHANGED reason

Admit ==
    /\ pc = "new"
    /\ IF IsGcrunnerJob(event.labels)
       THEN /\ job' = parseJobLabels(event.labels)
            /\ IF event.sameRepository THEN GoOn("load") ELSE FailRun("source")
       ELSE GoOn("ignored") /\ UNCHANGED job
    /\ UNCHANGED <<inputs, config, runner, zones, guessed, tried>>

\* The source of the run could not be looked up.
SourceUnknown ==
    /\ pc = "new"
    /\ IsGcrunnerJob(event.labels)
    /\ GoOn("retry")
    /\ UNCHANGED <<inputs, job, config, runner, zones, guessed, tried>>

\* loadRepositoryConfig, the repository's own file.
LoadOwn ==
    /\ pc = "load"
    /\ CASE Loaded(Own) = "down"    -> GoOn("retry")
         [] Loaded(Own) = "invalid" -> FailRun("invalid")
         [] OTHER -> GoOn(IF Loaded(Own) = "ok" /\ Own.extends # <<>> THEN "extend" ELSE "resolve")
    /\ config' = CASE Loaded(Own) = "ok"        -> Config(Own)
                   [] Loaded(Own) = "forbidden" -> Unreadable(NoConfig)
                   [] OTHER                     -> NoConfig
    /\ UNCHANGED <<inputs, job, runner, zones, guessed, tried>>

\* loadRepositoryConfig, the shared file; what it extends is not followed.
LoadBase ==
    /\ pc = "extend"
    /\ CASE Loaded(Base) = "down"    -> GoOn("retry")
         [] Loaded(Base) = "invalid" -> FailRun("invalid")
         [] OTHER                    -> GoOn("resolve")
    /\ config' = CASE Loaded(Base) = "ok" -> extend(config, Config(Base))
                   [] Loaded(Base) \in {"missing", "forbidden"} ->
                          Unreadable(extend(config, NoConfig))
                   [] OTHER -> config
    /\ UNCHANGED <<inputs, job, runner, zones, guessed, tried>>

Resolve ==
    /\ pc = "resolve"
    /\ IF ResolveError(config, job) = ""
       THEN GoOn("zones") /\ runner' = resolve(config, job, "images")
       ELSE FailRun(ResolveError(config, job)) /\ UNCHANGED runner
    /\ UNCHANGED <<inputs, job, config, zones, guessed, tried>>

-----------------------------------------------------------------------------
(***************************************************************************)
(* createRunnerInstance.                                                   *)
(***************************************************************************)

Zones(list, guess) ==
    /\ pc = "zones"
    /\ zones' = rotate(list, offset)
    /\ guessed' = guess
    /\ GoOn("placing")
    /\ UNCHANGED <<inputs, job, config, runner, tried>>

PinnedZones == runner.zone # <<>> /\ Zones(runner.zone, FALSE)

PoolZones == runner.zone = <<>> /\ configuredZones(pool) # <<>> /\ Zones(configuredZones(pool), FALSE)

RegionZones ==
    /\ runner.zone = <<>> /\ configuredZones(pool) = <<>>
    /\ Zones(region, FALSE) \/ Zones(Fallback, TRUE)

Zone == zones[Len(tried) + 1]

Placing == pc = "placing" /\ Len(tried) < Len(zones)

\* Broken variant: what no retry mends fails the run, and nobody says why.
OutcomeUnexplained(kind) ==
    CASE kind \in {"created", "alreadyExists"} -> "accepted"
      [] kind = "fatal"                        -> "retry"
      [] kind = "permanent"                    -> "failed"
      [] OTHER                                 -> "placing"

Outcome(kind) ==
    CASE kind \in {"created", "alreadyExists"} -> "accepted"
      [] kind = "fatal"                        -> "retry"
      [] kind = "permanent"                    -> "permanent"
      [] OTHER                                 -> "placing"

\* What a zone answered, for the machine type it was asked for.
Answered(kind, type, error) ==
    /\ tried' = Append(tried, [zone |-> Zone, type |-> type, error |-> error, kind |-> kind])
    /\ GoOn(Outcome(kind))
    /\ UNCHANGED <<inputs, job, config, runner, zones, guessed>>

Type == IF runner.mode = "exact" THEN runner.machine ELSE ResolveMachineType(catalogue[Zone], runner)

Exists(zone) == zone \in DOMAIN catalogue

Offers(zone, type) ==
    Exists(zone) /\ \E i \in DOMAIN catalogue[zone] : catalogue[zone][i].name = type

\* The machine types of the zone could not be listed, or there is no such zone.
Unlisted ==
    /\ Placing
    /\ runner.mode # "exact"
    /\ Answered("unlisted", <<>>, {})

Unmatched ==
    /\ Placing
    /\ runner.mode # "exact" /\ Exists(Zone) /\ Type = <<>>
    /\ Answered("noMachineType", <<>>, {})

\* Any zone may refuse for any reason (quota, rights, transport...), one without the
\* machine type among them; only such a zone says that it lacks it.
Insert ==
    /\ Placing
    /\ runner.mode = "exact" \/ (Exists(Zone) /\ Type # <<>>)
    /\ \/ Offers(Zone, Type) /\ Answered("created", Type, {})
       \/ \E error \in InsertErrors :
              /\ "machineType" \in error => Exists(Zone) /\ ~Offers(Zone, Type)
              /\ Answered(classifyInsertError(error), Type, error)

\* Broken variant: a zone whose types could not be listed counts as one without.
NoneMatchesUnlisted ==
    ~guessed /\ \A i \in DOMAIN tried : tried[i].kind \in {"noMachineType", "unlisted"}

\* unmatched == len(zones) && !guessed
NoneMatches == ~guessed /\ \A i \in DOMAIN tried : tried[i].kind = "noMachineType"

GiveUp ==
    /\ pc = "placing"
    /\ Len(tried) = Len(zones)
    /\ IF NoneMatches THEN FailRun("zones") ELSE GoOn("retry")
    /\ UNCHANGED <<inputs, job, config, runner, zones, guessed, tried>>

\* The VM that an insert describes (runnerInstance, scheduling).
VM(t) == [zone |-> t.zone, type |-> t.type, spot |-> runner.spot,
          image |-> resolveSourceImage(runner.image, "images"),
          disk |-> parseDiskSize(runner.disk), life |-> lifetime(runner.timeout)]

-----------------------------------------------------------------------------
Next ==
    \/ Admit \/ SourceUnknown \/ LoadOwn \/ LoadBase \/ Resolve
    \/ PinnedZones \/ PoolZones \/ RegionZones
    \/ Unlisted \/ Unmatched \/ Insert \/ GiveUp

Spec == Init /\ [][Next]_vars

-----------------------------------------------------------------------------
(***************************************************************************)
(* What the job asks for, from its own settings and its preset's alone.    *)
(***************************************************************************)

Defines(file) ==
    job.runner # <<>> /\ Loaded(file) = "ok" /\ job.runner \in DOMAIN file.runners

Inherits == Loaded(Own) = "ok" /\ Own.extends # <<>>

\* What the job's preset sets: that of its own repository's file, else the shared one's.
Selected ==
    IF Defines(Own) THEN presetSettings(Own.runners[job.runner])
    ELSE IF Inherits /\ Defines(Base) THEN presetSettings(Base.runners[job.runner])
    ELSE NoSettings

Wanted(key) == IF key \in DOMAIN job.settings THEN job.settings[key] ELSE Value(Selected, key)

JobWants(key) == Set(job.settings, key)

InRange(n, value) ==
    \/ value = <<>>
    \/ Len(value) = 1 /\ (value[1] <= 0 \/ n = value[1])
    \/ Len(value) = 2 /\ n >= value[1] /\ (value[2] <= 0 \/ n <= value[2])
    \/ Len(value) > 2 /\ n >= value[1]

Fits(type, families) ==
    /\ \E i \in DOMAIN families : families[i] = Family(type.name)
    /\ Category(type.name) \notin SharedCore \cup GPU
    /\ InRange(type.vcpus, Wanted("cpu"))
    /\ InRange(type.memory \div 1024, Wanted("ram"))

\* The job's machine, then a family, then the job's constraint, then the preset's
\* machine, then the preset's constraint, then the default.
Accepts(type) ==
    IF JobWants("machine") /\ ~JobWants("family") THEN type.name = Wanted("machine")
    ELSE IF Wanted("family") # <<>> THEN Fits(type, Wanted("family"))
    ELSE IF JobWants("cpu") \/ JobWants("ram") THEN Fits(type, <<"n2d">>)
    ELSE IF Wanted("machine") # <<>> THEN type.name = Wanted("machine")
    ELSE IF Wanted("cpu") # <<>> \/ Wanted("ram") # <<>> THEN Fits(type, <<"n2d">>)
    ELSE "machine" \notin DOMAIN job.settings /\ type.name = defaultSettings["machine"]

Acceptable(zone) ==
    IF Exists(zone) THEN {i \in DOMAIN catalogue[zone] : Accepts(catalogue[zone][i])} ELSE {}

-----------------------------------------------------------------------------
(***************************************************************************)
(* Properties.                                                             *)
(***************************************************************************)

Kinds == {"created", "alreadyExists", "quota", "fatal", "permanent", "noMachineType", "retryable",
          "unlisted"}

TypeOK ==
    /\ pc \in {"new", "ignored", "load", "extend", "resolve", "zones", "placing",
              "accepted", "retry", "permanent", "failed"}
    /\ config.unreadable \in BOOLEAN
    /\ runner.mode \in {"exact", "family", "auto"} /\ runner.spot \in BOOLEAN
    /\ guessed \in BOOLEAN
    /\ \A i \in DOMAIN tried : tried[i].kind \in Kinds /\ tried[i].error \subseteq Marks
    /\ reason \in {"", "source", "invalid", "unreadable", "undefined", "image", "zones"}
    /\ (reason # "") = (pc = "failed")

\* The machine type that a zone is asked for is one that the job accepts: the
\* job's own way to pick a machine beats its preset's, and the preset of the
\* job's repository beats that of the shared one (runner, extend, ResolveMachineType).
MachineHonoured ==
    tried # <<>> /\ Offers(Last(tried).zone, Last(tried).type) =>
        \E k \in Acceptable(Last(tried).zone) : catalogue[Last(tried).zone][k].name = Last(tried).type

\* And it is the smallest of those that the zone has (ResolveMachineType).
SmallestFitting ==
    tried # <<>> =>
        LET types == {catalogue[Last(tried).zone][i] : i \in Acceptable(Last(tried).zone)}
        IN  \A type, other \in types : type.name = Last(tried).type =>
                \/ type.vcpus < other.vcpus
                \/ type.vcpus = other.vcpus /\ type.memory <= other.memory

\* A run is failed for want of a zone only if no zone that the job may use has a
\* machine type it accepts: a job that a retry could start is never failed.  Only
\* Compute saying so in every zone proves it, so a job that no zone can take goes
\* unfailed for as long as one of them says something else: its types cannot be
\* listed, it is short of quota, it denies the request, it cannot be reached, or it
\* holds the VM already (createRunnerInstance).
ConfigurationError ==
    LET hopeless ==
            ~guessed /\ \A i \in DOMAIN zones : Exists(zones[i]) /\ Acceptable(zones[i]) = {}
    IN  /\ reason = "zones" => hopeless
        /\ pc \in {"accepted", "retry", "permanent"} /\ zones # <<>> /\ hopeless =>
              \E i \in DOMAIN tried : tried[i].kind # "noMachineType"

\* A job is refused for its runner (and its run failed and cancelled, failRun) only
\* if no file that could be read defines it; the message says "unreadable" only if
\* one could not be (resolve, loadRepositoryConfig).
HeldOnlyIfUndefined ==
    reason \in {"unreadable", "undefined"} =>
        /\ job.runner # <<>>
        /\ ~Defines(Own) /\ ~(Inherits /\ Defines(Base))
        /\ (reason = "unreadable") =
               (Own.status = "forbidden" \/ (Inherits /\ Base.status \in {"missing", "forbidden"}))

\* An image by its name: what the repository defines, else what the shared one does.
ImageNamed(name) ==
    IF Loaded(Own) = "ok" /\ name \in DOMAIN Own.images THEN path(Own.images[name], "images")
    ELSE IF Inherits /\ Loaded(Base) = "ok" /\ name \in DOMAIN Base.images
         THEN path(Base.images[name], "images")
    ELSE name

OrDefault(key) ==
    IF key \in DOMAIN job.settings \cup DOMAIN Selected THEN Wanted(key) ELSE defaultSettings[key]

\* The VM that is created for the job is what the job and its preset ask for, and
\* what they leave alone is the default: a job that declines Spot never gets it; it
\* lives at least as long as the job may run, and never without an end (runner,
\* resolve, runnerInstance, lifetime).  A job that takes Spot gets nothing else, as
\* VM says, where labels.md:82 has it fall back to a VM on demand.
SettingsHonoured ==
    tried # <<>> /\ Last(tried).kind = "created" =>
        LET vm == VM(Last(tried))
            timeout == OrDefault("timeout")
        IN  /\ vm.spot => OrDefault("spot") # <<"false">>
            /\ OrDefault("disk") # <<>> /\ OrDefault("disk")[1] >= 10 => vm.disk = OrDefault("disk")[1]
            /\ vm.image = resolveSourceImage(ImageNamed(OrDefault("image")), "images")
            /\ vm.life > bootAllowance /\ vm.life <= longestTimeout + bootAllowance
            /\ timeout # <<>> /\ timeout[1] <= longestTimeout => vm.life >= timeout[1] + bootAllowance

Candidates ==
    IF runner.zone # <<>> THEN runner.zone
    ELSE IF configuredZones(pool) # <<>> THEN configuredZones(pool)
    ELSE IF guessed THEN Fallback ELSE region

\* No zone is asked twice that is named once, and none is left out before the job
\* is given up: being short of quota or capacity, or without the machine type, never
\* ends the search (createRunnerInstance, rotate, classifyInsertError).
EveryZoneTried ==
    /\ IsInjective(Candidates) =>
           \A i, j \in DOMAIN tried : tried[i].zone = tried[j].zone => i = j
    /\ (pc \in {"retry", "failed", "permanent"} /\ tried # <<>>) =>
          \/ \A i \in DOMAIN Candidates : \E j \in DOMAIN tried : tried[j].zone = Candidates[i]
          \/ Last(tried).error \cap {"denied", "sourceImage"} # {}
             /\ "quota" \notin Last(tried).error
=============================================================================
