---------------------------- MODULE MCTemplates ----------------------------
(* A small instance of Templates for TLC.                                  *)
EXTENDS Templates

CONSTANTS r1, p1, p2

MCNames == {"rep", "agg", "body", ""}
MCVersions == {"1.0", "1.0.0", "v2", "wip", "latest", ""}
\* "1.0" and "1.0.0" are equal once parsed; "wip" and "latest" do not parse.
MCRank == [v \in MCVersions |-> CASE v \in {"1.0", "1.0.0"} -> 1 [] v = "v2" -> 2 [] OTHER -> 0]

K(n, v) == [name |-> n, version |-> v]
E(n, v) == [key |-> K(n, v), ok |-> TRUE, schema |-> "none"]
Strict(n, v) == [E(n, v) EXCEPT !.schema = "strict"]

Unresolvable(n, v) == [E(n, v) EXCEPT !.schema = "unresolvable"]

\* Every version; the same without the newest one, without the default body
\* template and without tags, and with a schema that refers to nowhere; and
\* files the service does not start with, a key given twice and a tag that is none.
MCFiles ==
  {[templates |-> <<Strict("rep", "v2"), E("rep", "1.0"), E("rep", "1.0.0"), E("agg", "1.0"),
                    E("body", "1.0"), E("body", "v2")>>,
    tags |-> <<[tag |-> "nightly", ok |-> TRUE]>>],
   [templates |-> <<E("rep", "1.0.0"), Unresolvable("rep", "1.0"), E("rep", "wip"), E("agg", "1.0"),
                    E("body", "v2")>>,
    tags |-> <<>>],
   [templates |-> <<E("rep", "v2"), E("agg", "v2"), E("body", "v2"), E("body", "v2")>>,
    tags |-> <<[tag |-> "Nightly!", ok |-> FALSE]>>]}
MCEdits == {<<K("rep", "1.0"), "b">>, <<K("rep", "1.0"), "undecodable">>}

MCContexts == {"plain", "odd", "swelling", "dividing", "infinite"}
MCSize == [c \in MCContexts |-> 1]
MCGrown == [c \in MCContexts |-> IF c = "swelling" THEN 3 ELSE 1]
MCDefaultBody == K("body", "1.0")
MCOverrides == [p \in {p2} |-> K("body", "v2")]

D(s, o, ref) == [stage_id |-> s, stage_order |-> o, ref |-> ref]
Good == [pipeline |-> p1, tags |-> {}, mode |-> "UNSPECIFIED", agg |-> K("agg", "latest"),
         declared |-> <<D(2, 0, K("rep", "latest")), D(1, 1, K("rep", "1.0"))>>]
PerStage == [Good EXCEPT !.pipeline = p2, !.tags = {"nightly"}, !.mode = "PER_STAGE", !.agg = K("none", "latest"),
             !.declared = <<D(2, 0, K("rep", "1.0")), D(1, 0, K("rep", "latest"))>>]
MCBeginRequests ==
  {Good, PerStage, [Good EXCEPT !.declared[2].stage_id = 3],
   [Good EXCEPT !.mode = "7"], [Good EXCEPT !.pipeline = ""],
   [Good EXCEPT !.pipeline = "unregistered"], [Good EXCEPT !.tags = {"unlisted"}],
   [Good EXCEPT !.agg = K("", "")], [Good EXCEPT !.agg = K("agg", "")],
   [Good EXCEPT !.agg = K("agg", "wip")],
   [Good EXCEPT !.declared[1].stage_id = 1], [Good EXCEPT !.declared[1].stage_id = 0],
   [Good EXCEPT !.declared[1].stage_order = -1],
   [Good EXCEPT !.declared[1].ref = K("", "1.0")],
   [Good EXCEPT !.declared[1].ref = K("none", "latest")]}

S(s, report, body, position) ==
  [stage_id |-> s, report |-> report, body |-> body, position |-> position]
MCSubmissions ==
  {S(1, c, NULL, "UNSPECIFIED") : c \in {"odd", "dividing", "infinite"}}
    \union {S(1, NULL, "plain", "UNSPECIFIED"), S(1, "plain", "plain", "9"),
            S(2, "plain", "swelling", "BEFORE_STAGES_SUMMARY"),
            S(2, NULL, NULL, "UNSPECIFIED"), S(0, NULL, NULL, "UNSPECIFIED"),
            S(3, "swelling", NULL, "UNSPECIFIED")}
=============================================================================
