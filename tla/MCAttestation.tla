---------------------------- MODULE MCAttestation ----------------------------
(***************************************************************************)
(* Instances of Attestation for TLC.                                       *)
(***************************************************************************)
EXTENDS Attestation, TLC
CONSTANTS r1, r2

MCMinVersion == <<16, 5, 0>>

All(p) ==
    Settings(p) \ {"age_300", "days_30", "reject_untrusted", "no_challenge",
                     "no_expiry", "no_not_future", "no_cn"}
Configs ==
    [android |-> {{}, All("android") \cup {"reject_untrusted"},
                  {"reject_unlicensed", "reject_unrecognized", "age_300"}},
     ios     |-> {{"bundles", "min_version", "reject_untrusted"}, All("ios"),
                  {"min_version", "accept_untrusted"}, {"accept_untrusted", "days_30"}},
     iot     |-> {{}, All("iot"), {"no_challenge", "elements", "idle", "strict"},
                  {"no_challenge", "no_expiry", "no_not_future", "no_cn"}}]

Largest(cfgs) == CHOOSE cfg \in cfgs : \A d \in cfgs : Cardinality(d) <= Cardinality(cfg)
Shows(p) == [c \in CheckNames(p) |-> "good"]
FromRow == {"active", "unrevoked", "seen"}
Try(p, cfg, shows, version) == [p |-> p, cfg |-> cfg, shows |-> shows, version |-> version]
New == <<17, 2, 1>>

\* Nothing wrong; one thing wrong; old and odd versions; unreadable; the wrong application.
\* The configurations without bundle ids refuse every iOS device.
Tries(p) ==
    {Try(p, cfg, Shows(p), New) : cfg \in Configs[p]}
    \cup {Try(p, cfg, [Shows(p) EXCEPT ![c] = "bad"], New) :
             cfg \in {Largest(Configs[p])}, c \in CheckNames(p) \ FromRow}
Odd == {Try("ios", All("ios"), Shows("ios"), v) : v \in {<<16, 5, 0>>, <<16, 4, 99>>, <<15, 150, 0>>, <<17, -200, 0>>}}
    \cup {Try("ios", All("ios") \cup {g}, Shows("ios"), New) : g \in General}
    \cup {Try("iot", All("iot"), [Shows("iot") EXCEPT ![c] = "absent"], New) : c \in {"issuer", "model"}}
    \cup {Try("iot", {}, [Shows("iot") EXCEPT !.challenge = "bad"], New),
          Try("iot", {}, [Shows("iot") EXCEPT !.valid_now = "bad"], New),
          Try("iot", {"no_cn"}, [Shows("iot") EXCEPT !.cn = "bad"], New),
          Try("android", {}, [Shows("android") EXCEPT !.recognized = "staged"], New),
          Try("android", All("android"), [Shows("android") EXCEPT !.package = "bad", !.certificate = "bad"], New)}

Broad == UNION {Tries(p) : p \in Platforms} \cup Odd
Narrow == {Try("android", {"age_60"}, Shows("android"), New), Try("iot", {"idle"}, Shows("iot"), New)}
MCAttempts == [r \in Requests |-> [h \in 0..MaxHour |-> IF r = r1 /\ h = 0 THEN Broad ELSE Narrow]]
===============================================================================
