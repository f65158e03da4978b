---------------------------- MODULE MCResolution ----------------------------
(***************************************************************************)
(* A small instance of Resolution: every way to combine the four settings  *)
(* that pick a machine, on the job and in two presets of the same name.    *)
(***************************************************************************)
EXTENDS Resolution

N2D2 == <<"n2d", "standard", "2">>
N2D4 == <<"n2d", "standard", "4">>
N2Dmem == <<"n2d", "highmem", "2">>
C34 == <<"c3", "standard", "4">>
E2micro == <<"e2", "micro">>
A2gpu == <<"a2", "highgpu", "1g">>

Type2(name, vcpus, gb) == [name |-> name, vcpus |-> vcpus, memory |-> gb * 1024]

Full == <<Type2(E2micro, 2, 1), Type2(C34, 4, 16), Type2(N2D4, 4, 16), Type2(N2Dmem, 2, 16),
          Type2(N2D2, 2, 8), Type2(A2gpu, 2, 8)>>
Small == <<Type2(E2micro, 2, 1), Type2(N2D2, 2, 8)>>

ThreeCatalogues == {[z \in {"a", "b"} |-> Full], [z \in {"a", "b"} |-> Small],
                  [z \in {"a", "b"} |-> IF z = "a" THEN Small ELSE Full]}

Pair(key, values) == {<<>>} \cup {<< <<key, v>> >> : v \in values}

\* The label begins with the run, then the runner it selects and its settings.
LabelsOf(own) == << << <<"ubuntu">> >>, << <<"gcrunner", <<"7">> >> >> \o own, << <<"gcrunner", <<"8">> >> >> >>

\* The job of another runner.
Foreign == << << <<"self-hosted">> >> >>

Chosen == {r \o m \o f \o c : r \in Pair("runner", {<<"big">>}),
                              m \in Pair("machine", {C34, <<>>}),
                              f \in Pair("family", {<<"c3", "n2d">>, <<>>}),
                              c \in Pair("cpu", {<<4>>}) \cup Pair("ram", {<<12, 16>>})}

Others == { << <<"runner", <<"big">> >>, <<"image", <<"custom">> >>, <<"timeout", <<-1>> >>, <<"word">> >>,
            << <<"image", <<"custom">> >>, <<"zone", <<"b", "a">> >>, <<"timeout", <<9000>> >> >>,
            << <<"family", <<"a2", "e2">> >> >>,
            << <<"runner", <<"huge">> >>, <<"spot", <<"false">> >>, <<"disk", <<5>> >> >>,
            << <<"cpu", <<2>> >>, <<"cpu", <<4, 2>> >> >>,
            << <<"ram", <<8, 16, 2>> >>, <<"zone", <<"nowhere", "b", "b">> >> >>,
            << <<"zone", <<"nowhere", "a">> >> >> }

Labels == {LabelsOf(own) : own \in Chosen \cup Others}

Empty == [k \in PresetKeys |-> <<>>]

With(key, value) == [Empty EXCEPT ![key] = value]

NoImages == [n \in {} |-> <<>>]
NoRunners == [n \in {} |-> <<>>]

FileOf(status, extends, runners, images) ==
    [status |-> status, known |-> TRUE, extends |-> extends, runners |-> runners, images |-> images]

BigIs(preset) == [n \in {<<"big">>} |-> preset]

Presets == {With("machine", N2D4), With("family", <<"c3">>), With("cpu", <<4, -1>>), With("cpu", <<4>>),
            [With("machine", N2Dmem) EXCEPT !["family"] = <<"n2d">>, !["ram"] = <<16>>, !["image"] = <<"custom">>]}

Custom(family, name) == [n \in {<<"custom">>} |-> [project |-> <<>>, family |-> family, name |-> name]]

OwnFiles ==
    {FileOf("ok", <<>>, BigIs(p), Custom(<<"mine">>, <<>>)) : p \in Presets}
    \cup {FileOf("ok", <<"shared">>, BigIs(With("ram", <<8>>)), Custom(<<"mine">>, <<>>)),
          FileOf("ok", <<"acme", "shared">>, NoRunners, NoImages),
          FileOf("ok", <<"shared">>, NoRunners, Custom(<<"mine">>, <<"mine">>)),
          [FileOf("ok", <<>>, NoRunners, NoImages) EXCEPT !.known = FALSE]}
    \cup {FileOf(s, <<>>, NoRunners, NoImages) : s \in {"missing", "forbidden", "down"}}

BaseFiles ==
    {FileOf("ok", <<"elsewhere">>, BigIs(With("machine", N2D4)), Custom(<<>>, <<"theirs">>)),
     FileOf("missing", <<>>, NoRunners, NoImages), FileOf("down", <<>>, NoRunners, NoImages),
     [FileOf("ok", <<>>, NoRunners, NoImages) EXCEPT !.known = FALSE]}

\* The file of the commit is the one under test, that of the branch is another.
Holding(own, base) ==
    [place \in {<<"acme", "app", "commit">>, <<"acme", "app", "branch">>, <<"acme", "shared", "branch">>} |->
        CASE place[3] = "commit" -> own
          [] place[2] = "shared" -> base
          [] OTHER -> FileOf("ok", <<>>, BigIs(With("machine", C34)), NoImages)]

\* The shared file only matters to a file that extends it.
Repositories ==
    {Holding(own, base) : own \in {f \in OwnFiles : f.extends # <<>>}, base \in BaseFiles}
    \cup {Holding(own, own) : own \in {f \in OwnFiles : f.extends = <<>>}}

Event(labels, private, same, contents) ==
    [labels |-> labels, private |-> private, sameRepository |-> same, contents |-> contents]

Anywhere == CHOOSE r \in Repositories : TRUE

SomeEvents ==
    {Event(l, TRUE, TRUE, r) : l \in Labels, r \in Repositories}
    \cup {Event(l, FALSE, TRUE, Anywhere) : l \in Labels}
    \cup {Event(l, TRUE, FALSE, Anywhere) : l \in Labels}
    \cup {Event(Foreign, TRUE, TRUE, Anywhere)}

SomePools == {<<"">>, <<"a", "", "b">>}
OneRegion == {<<"a", "b">>}
Guess == <<"a", "b">>

SomeErrors ==
    {{}, {"exhausted"}, {"quota", "denied"}, {"denied"}, {"exists"}, {"sourceImage"}, {"machineType"}}
=============================================================================
