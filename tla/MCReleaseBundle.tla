--------------------------- MODULE MCReleaseBundle ---------------------------
EXTENDS ReleaseBundle

MCTools == {"generator", "checker", "helper"}
MCRoots == {"generator"}
MCReviewed == {"generator", "checker"}
MCExternal == {"json"}
MCValues == {"callback"}
MCShadows == {}

Tool(imports, uses) ==
    [form |-> "plain", imports |-> imports, external |-> {"json"}, subprocess |-> FALSE,
     reviewed |-> FALSE, uses |-> uses, members |-> {}, values |-> {"callback"},
     shadows |-> {}]
Text(form) == [form |-> form]

(* Two margins on either side of the minimum, two states of the evidence,  *)
(* an inventory without and with a reference, and tool sources that change *)
(* a call, the imports, or the closure grammar's verdict.                  *)
MCFacts ==
    [changelog1 |-> Text("plain"), mixed |-> Text("mixed"),
     blocked |-> [form |-> "plain", readiness |-> "blocked"],
     complete |-> [form |-> "plain", readiness |-> "complete"],
     narrow |-> [form |-> "plain", margin |-> 1], wide |-> [form |-> "plain", margin |-> 2],
     unmeasured |-> [form |-> "plain", reference |-> NoReference],
     measured |-> [form |-> "plain", reference |-> "measurement"],
     measurement |-> Text("plain"), remeasurement |-> Text("plain"),
     template |-> Text("plain"), signature |-> Text("plain"),
     generator1 |-> Tool({"checker"}, {}), generator2 |-> Tool({"helper"}, {}),
     checker1 |-> Tool({}, {}), checker2 |-> Tool({}, {"exec"}),
     link |-> [Tool({}, {}) EXCEPT !.form = "link"],
     helper1 |-> Tool({}, {})]

MCInitial ==
    [changelog |-> "changelog1", evidence |-> "blocked", abi |-> "narrow",
     status |-> "narrow", inventory |-> "unmeasured", reference |-> "measurement",
     signatures |-> "template", generator |-> "generator1", checker |-> "checker1",
     helper |-> "helper1"]

MCPatches ==
    {[changelog |-> "mixed"], [abi |-> "wide"],
     [abi |-> "wide", status |-> "wide", evidence |-> "complete"], [inventory |-> "measured"],
     [inventory |-> "measured", reference |-> "remeasurement"],
     [reference |-> "remeasurement"], [generator |-> "generator2"],
     [checker |-> "checker2"], [checker |-> "link"]}
=============================================================================
