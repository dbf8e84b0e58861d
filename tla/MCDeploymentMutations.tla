----------------------- MODULE MCDeploymentMutations -----------------------
(* Small instances of DeploymentMutations for TLC. *)
EXTENDS DeploymentMutations, TLC

Req(kind, deployment, id, change, image, setting, expected) ==
    [kind |-> kind, deployment |-> deployment, id |-> id, change |-> change, image |-> image,
     setting |-> setting, expected |-> expected]

MCImages == {"old", "new"}
MCSettings == {"off", "on"}

\* OctoBot: a rollout and a restart beside a first policy and two that follow it.
MCOctoBot ==
    {Req("rollout", "octobot", "up", "c1", "new", "off", "old"),
     Req("restart", "octobot", "r1", "c1", "old", "off", NoRequest),
     Req("policy", "octobot", "p1", "c1", "old", "on", NoRequest),
     Req("policy", "octobot", "p2", "c1", "old", "off", "p1"),
     Req("policy", "octobot", "p3", "c1", "old", "on", "p1")}

\* The web UI: two repairs under one identifier, a rollout, and one that asks for
\* the image it expects.
MCWebUi ==
    {Req("storage", "aarnn-web-ui", "f1", "c1", "new", "on", "old"),
     Req("storage", "aarnn-web-ui", "f1", "c2", "new", "on", "new"),
     Req("rollout", "aarnn-web-ui", "up", "c1", "new", "off", "old"),
     Req("rollout", "aarnn-web-ui", "stay", "c1", "old", "off", "old")}

\* Its workers: a repair that both servers may work on.
MCWorkers == {Req("storage", "aarnn-fpv-workers", "f1", "c1", "new", "on", "old")}

MCRequests == MCOctoBot \cup MCWebUi \cup MCWorkers

Symmetry == Permutations(Servers) \cup Permutations(Claims)
=============================================================================
