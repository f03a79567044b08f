---------------------------- MODULE MCGenerator ----------------------------
(* Files with up to two services of up to two methods of every kind.  The   *)
(* sets named Clean leave out what the findings are about.                  *)
EXTENDS ExampleFiles

MCNames == {"GetFeature", "ListFeatures"}

Method(name, client, server) ==
  [name |-> name, client_streaming |-> client, server_streaming |-> server]

MCMethods == { Method(n, c, s) : n \in MCNames, c \in BOOLEAN, s \in BOOLEAN }

AllMethodLists ==
  { seq \in UNION { [1 .. n -> MCMethods] : n \in 1 .. 2 } :
      Len(seq) = 2 => seq[1].name # seq[2].name }

CleanMethodLists ==
  { seq \in AllMethodLists : \A i \in DOMAIN seq :
      /\ NoStreaming(seq[i]) => i = 1
      /\ ServerOnlyStreaming(seq[i]) => seq[i].name = "ListFeatures" }

ServiceLists(lists) ==
  { << >> } \cup { <<[name |-> "Greeter", methods |-> a]>> : a \in lists }
  \cup { <<[name |-> "Greeter", methods |-> a], [name |-> "RouteGuide", methods |-> b]>> :
           a \in lists, b \in { l \in lists : Len(l) = 1 /\ l[1].name = "ListFeatures" } }

MCFiles(lists, packages, lite, generic) ==
  { [name |-> <<"a">>, package |-> p, services |-> s, lite |-> l, generic |-> g] :
      p \in packages, s \in ServiceLists(lists), l \in lite, g \in generic }

Packages == { << >>, <<"a">>, <<"a", "b">> }

UnaryFiles == MCFiles({ l \in AllMethodLists : \A i \in DOMAIN l : NoStreaming(l[i]) },
                      { <<"a">> }, {FALSE}, {FALSE})
WriterFiles == MCFiles({ l \in AllMethodLists : \A i \in DOMAIN l : ServerOnlyStreaming(l[i]) },
                       { <<"a">> }, {FALSE}, {FALSE})

\* File names of up to three characters, of which some are hexadecimal digits.
Characters == {"a", "2", "e", "5", "f", "_", "."}

NamedFiles ==
  { [name |-> n, package |-> << >>, services |-> << >>, lite |-> FALSE, generic |-> FALSE] :
      n \in UNION { [1 .. k -> Characters] : k \in 1 .. 3 } }

CleanFiles ==
  MCFiles(CleanMethodLists, Packages, {FALSE}, BOOLEAN) \cup NamedFiles
  \cup { RouteGuideProto, HelloWorldProto }

Global == [key |-> "services_namespace", value |-> ""]
Unknown == [key |-> "generate_mock_code", value |-> "true"]

NoParameters == { << >> }
AllButNamespace == { << >>, <<Global>>, <<Unknown>>, <<Global, Unknown>> }
=============================================================================
