---------------------------- MODULE MCExecution ----------------------------
EXTENDS ExecutionProperties

Plain(name, deps) ==
  [name |-> name, deps |-> deps, matches |-> TRUE, status |-> {"passing"}, failure |-> "fail",
   detach |-> FALSE, limit |-> 0, mounts |-> {}, secrets |-> <<>>, faults |-> {}]

Bare ==
  [trusted |-> FALSE, barred |-> {}, namespace |-> "default", hosts |-> {}, debug |-> FALSE,
   cloneOnly |-> FALSE, netrc |-> FALSE, logins |-> {}, registry |-> FALSE, policies |-> <<>>,
   recovery |-> FALSE, request |-> 0, limit |-> 0, least |-> 0]

OfSteps(clone, services, steps) ==
  [clone |-> clone, services |-> services, steps |-> steps, namespace |-> "", volumes |-> <<>>,
   stageLimit |-> FALSE, pulls |-> {}, request |-> 0, setting |-> Bare]

Rule(name, matches) == [NoPolicy EXCEPT !.name = name, !.matches = matches]

(* Any dependencies of two steps, one of which may be called clone. *)
GraphCases ==
  {OfSteps(clone, <<>>, <<Plain(x, a), Plain("b", b)>>) :
     clone \in BOOLEAN, x \in {"a", "clone"}, a \in SUBSET {"a", "b", "clone"}, b \in SUBSET {"a", "b", "clone"}}
  \cup {OfSteps(TRUE, <<Plain("a", {})>>, <<Plain("b", b)>>) : b \in {{}, {"a"}, {"clone"}}}

(* A step, one beside it and one after it, with all ways to run. *)
WaysToRun ==
  {[Plain("b", {"clone"}) EXCEPT !.status = st] : st \in {{"passing"}, {"failing"}, {"passing", "failing"}}}
  \cup {[Plain("b", {"clone"}) EXCEPT !.matches = FALSE]}

PolicyCases ==
  {OfSteps(FALSE, <<>>,
     <<[Plain("clone", {}) EXCEPT !.failure = way[1]], [Plain("a", {}) EXCEPT !.detach = way[2]], b>>) :
     way \in {<<"fail", FALSE>>, <<"fail", TRUE>>, <<"fast", TRUE>>, <<"ignore", FALSE>>}, b \in WaysToRun}

ResourceCases ==
  {[OfSteps(FALSE, <<>>, <<[Plain("a", {}) EXCEPT !.limit = own], Plain("b", {})>>) EXCEPT
      !.request = yaml, !.setting.request = environment, !.setting.limit = 5, !.setting.least = least,
      !.setting.policies = <<[Rule("", TRUE) EXCEPT !.limit = policy]>>] :
     own \in {0, 4, 6}, yaml \in 0 .. 9, environment \in {0, 3}, policy \in {0, 3}, least \in {0, 2}}
  \cup {[OfSteps(TRUE, <<>>, <<Plain("a", {}), [Plain("b", {}) EXCEPT !.limit = own]>>) EXCEPT
           !.request = 2, !.setting.least = least,
           !.setting.policies = <<[Rule("", FALSE) EXCEPT !.request = 1], [Rule("default", FALSE) EXCEPT !.request = policy]>>] :
          own \in {0, 4}, policy \in 0 .. 13, least \in {0, 2}}
  \cup {[OfSteps(clone, <<>>, steps) EXCEPT !.request = yaml, !.setting.limit = limit, !.setting.least = least] :
          clone \in BOOLEAN, steps \in {<<>>, <<[Plain("a", {}) EXCEPT !.limit = -1]>>},
          yaml \in {-1, 5}, limit \in {-1, 0}, least \in {-1, 0}}

(* Where the Pod goes: YAML, configuration, rules and policies. *)
NamespaceCases ==
  {[OfSteps(TRUE, <<>>, <<Plain("a", {})>>) EXCEPT
      !.namespace = yaml, !.setting.namespace = configured, !.setting.barred = barred,
      !.setting.recovery = recovery,
      !.setting.policies = <<[Rule("", matches) EXCEPT !.namespace = x], [Rule(name, TRUE) EXCEPT !.namespace = y]>>] :
     yaml \in {"", "team", "drone-", "management"}, configured \in {"default", "drone-"},
     barred \in {{}, {"team"}}, recovery \in BOOLEAN, matches \in BOOLEAN, name \in {"", "default"},
     x \in {"", "team", "drone-", "management"}, y \in {"", "team", "drone-"}}

NamedVolumes == [name : {"v", "_addons"}, kinds : {{}, {"temp"}, {"temp", "host"}}]

VolumeCases ==
  {[OfSteps(TRUE, <<>>, <<[Plain("a", {}) EXCEPT !.mounts = mounts], Plain("b", {})>>) EXCEPT
      !.volumes = volumes, !.setting.trusted = trusted, !.setting.hosts = hosts, !.setting.debug = debug,
      !.setting.registry = TRUE] :
     mounts \in SUBSET {"v", "w", "_addons"}, trusted \in BOOLEAN, hosts \in {{}, {"drone-h", "drone-i"}},
     debug \in BOOLEAN,
     volumes \in {<<>>} \cup {<<v>> : v \in NamedVolumes} \cup {<<v, w>> : v, w \in NamedVolumes}}

(* Secrets of two steps, some the same, with the clone's login data and    *)
(* pull secrets.                                                           *)
SecretCases ==
  {[OfSteps(clone, <<>>, <<[Plain("a", {}) EXCEPT !.secrets = s], [Plain("b", {}) EXCEPT !.secrets = t]>>) EXCEPT
      !.pulls = pulls, !.setting.netrc = netrc, !.setting.cloneOnly = cloneOnly, !.setting.debug = debug,
      !.setting.logins = {"login"}] :
     clone \in BOOLEAN, netrc \in BOOLEAN, cloneOnly \in BOOLEAN, debug \in BOOLEAN,
     pulls \in {{}, {"login"}, {"s"}},
     s \in {<<>>, <<"s">>, <<"s", "t">>, <<"s", "s">>}, t \in {<<>>, <<"s">>, <<"t", "s">>}}

(* What the linter refuses, besides. *)
RefusedCases ==
  {[OfSteps(clone, services, <<[Plain(x, {}) EXCEPT !.faults = faults], Plain("b", {})>>) EXCEPT
      !.stageLimit = limited, !.setting.trusted = trusted, !.setting.registry = TRUE] :
     clone \in BOOLEAN, services \in {<<>>, <<Plain("a", {})>>}, x \in {"", "a", "b", "clone"},
     limited \in BOOLEAN, trusted \in BOOLEAN, faults \in SUBSET {"no image", "privileged", "run/drone"}}

TaskSpecCases == NamespaceCases \cup VolumeCases \cup SecretCases \cup RefusedCases

StagePipelines == GraphCases \cup PolicyCases \cup ResourceCases \cup TaskSpecCases

(* Pipelines that differ in memory, volumes, secrets or namespaces only    *)
(* run alike: those with a setting of their own are not executed.          *)
OneOfAKind == phase \in {"read", "linted", "compiled"} \/ pipeline.setting = Bare
=============================================================================
