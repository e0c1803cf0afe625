----------------------------- MODULE MCServices -----------------------------
(* A small instance of Services for TLC; the cfg gives the other constants.   *)
EXTENDS Services

CONSTANTS one, other,        \* the two clients, threads or analysts of the service that runs
          bg1, bg2,          \* background threads
          key1, key2, noKey  \* addresses in a log, and none

(* The threads, clients and analysts of a service are alike. *)
Alike == Permutations({one, other}) \union Permutations({bg1, bg2})

(* LogRuleEngine: one rule that counts and one that fires at once. *)
LoginPost == [methods |-> {"POST"}, paths |-> {"/login", "/"}, statuses |-> {200}]
MCLogRules ==
    [brute |-> [service |-> "gitea", severity |-> "high", groupBy |-> "ip", threshold |-> 2, window |-> 2,
                cooldown |-> 2, untrustedOnly |-> FALSE, conditions |-> {LoginPost}],
     spray |-> [service |-> "gitea", severity |-> "low", groupBy |-> "ip", threshold |-> 1, window |-> 1,
                cooldown |-> 3, untrustedOnly |-> TRUE,
                conditions |-> {[LoginPost EXCEPT !.methods = {"GET", "POST"}]}]]
MCLogEvents == [service : {"gitea"}, ip : {key1, key2}, user : {noKey}, method : {"POST", "GET"},
                path : {"/login"}, status : {200}]

(* AlertsApi: two alerts of equal or different times, pages of one. *)
MCNewAlerts == {[src |-> "src1", severity |-> "high", engine |-> "rules", features |-> TRUE],
                [src |-> "src2", severity |-> "critical", engine |-> "lstm", features |-> FALSE]}
MCBodies == {[acked |-> "yes", label |-> "fp", incident |-> 0]}
MCWalks == {[via |-> "mcp", acked |-> "no", limit |-> 1], [via |-> "rest", acked |-> "any", limit |-> -1]}

(* TriageRunner: two processes, a budget of one call. *)
MCKinds == {[severity |-> "high", whitelisted |-> w] : w \in BOOLEAN}
Advice == [verdict |-> "likely_benign", confidence |-> 90, summary |-> 5, evidence |-> <<>>, recommendation |-> "confirm_block"]
MCOutputs == {Advice, [Advice EXCEPT !.confidence = 20, !.recommendation = "undo_block"], [Advice EXCEPT !.confidence = 101]}
MCNamedLists == {<<2, 1>>}

(* ModelLoading: what each file can be, with and without a manifest, MLflow and torch. *)
Disk(pickle, scaler, weights) ==
    [rf |-> pickle, if |-> pickle, ifScaler |-> scaler, ftScaler |-> scaler, ft |-> weights, lstm |-> weights, rfLite |-> "good"]
MCSites == [mode : {"off", "auto", "enforce"}, manifest : BOOLEAN,
            listed : {{"rf"}, {"rf", "if", "rfLite", "ifScaler", "ftScaler"}},
            mlflow : {{}, {"supervised", "iforest", "lstm"}, {"ft"}}, torch : BOOLEAN,
            disk : {Disk(p, s, w) : p \in {"absent", "good", "broken", "changed"}, s \in {"absent", "good", "changed"},
                                    w \in {"absent", "good", "misfit"}}]
MCClassScores == {[Benign |-> 95, DoS |-> 5], [Benign |-> 5, DoS |-> 95], [Benign |-> 40, DoS |-> 30, Worms |-> 30],
                  [DoS |-> 60, Worms |-> 40]}

(* DriftMonitor: no feature, one or both are drifted, or one is missing. *)
MCVectors == {[a |-> 0, b |-> 0], [a |-> 4, b |-> 0], [a |-> 4, b |-> 4], [a |-> 1]}
MCTrainMean == [a |-> 0, b |-> 0]
MCTrainStd == [a |-> 2, b |-> 0]

(* FlowFeatures: gaps within and beyond the idle threshold, and a late timestamp. *)
MCFlowPackets == {[forward |-> TRUE, size |-> 2, header |-> 20, flags |-> {"psh"}, win |-> 5, payload |-> TRUE],
                  [forward |-> FALSE, size |-> 1, header |-> 20, flags |-> {"psh", "ack"}, win |-> 0, payload |-> TRUE],
                  [forward |-> TRUE, size |-> 1, header |-> 20, flags |-> {}, win |-> -1, payload |-> FALSE]}
MCGaps == {-1, 0, 1, 3}

(* HostFeatures: two addresses where one is tracked. *)
MCHostPackets == {[size |-> 3, proto |-> "tcp", port |-> 80, payload |-> 2, entropy |-> 1],
                  [size |-> 1, proto |-> "icmp", port |-> 0, payload |-> 0, entropy |-> 0]}

(* PacketInspection: two hellos, one without extensions, and two payloads that match a pattern. *)
MCHellos == {[sid |-> 0, comp |-> 1, ciphers |-> <<5, 100, 6>>,
              exts |-> <<[type |-> 100, items |-> <<>>], [type |-> 10, items |-> <<100, 7, 8>>],
                         [type |-> 11, items |-> <<1>>], [type |-> 3, items |-> <<>>]>>],
             [sid |-> 1, comp |-> 1, ciphers |-> <<5>>, exts |-> <<>>]}
MCPayloads == {[tls |-> FALSE, len |-> 300, entropy |-> 5, matches |-> {"xss"}, control |-> 1],
               [tls |-> FALSE, len |-> 300, entropy |-> 8, matches |-> {"sqli"}, control |-> 0]}

(* ScrubbedText: up to four delimiters in any order, and some well-formed and ordinary texts. *)
MCAlertTexts == UNION {[1..n -> {"tick", "<", "esc"}] : n \in 0..4}
                \cup {<<" ", "A">>, <<"a">>, <<"a", "a", "a", "a", " ">>, <<"1", ",", "1", ",", "1">>, <<"a", "a", " ", ">">>}
MCAskedTexts == {<<" ", "A">>, <<"a", " ">>, <<"esc">>}
MCIpForms == [t \in {<<"A">>, <<"a">>} |-> <<"a">>]
MCHashForms == IpForms
(* In the order of their bounds in the code, though not in their size. *)
MCTextBounds == [malformed |-> 1, label |-> 2, title |-> 3, ja3 |-> 3, free |-> 4, summary |-> 5]
MCCanonical == {<<"1", ",", "1", ",", "1">>}

(* BaselineScrape: two flows to different ports fill a window, or three to one. *)
MCFireAt == [vectors |-> 2, ips |-> 0, time |-> 1, entropy |-> 90]
MCPortBits(counts) == IF counts[80] = 0 \/ counts[443] = 0 THEN 0 ELSE IF counts[80] = counts[443] THEN 100 ELSE 92

(* BaselineBench: three windows, with a vector that is not finite and rows out of order; two files are kept. *)
Row(h, v, t) == [host |-> h, x |-> v, ts |-> t]
MCWindows == {<<Row("h1", 1, 0), Row("h1", 3, 1), Row("h2", 1, 1)>>,
              <<Row("h2", 2, 1), Row("h1", 0, 0), Row("h2", 0, 2)>>,
              <<Row("h1", 9, 2), Row("h1", 3, 2)>>}
MCAttacks == <<<<Row("h3", 3, 90), Row("h3", 0, 91)>>, <<Row("h3", 2, 90)>>>>
MCPointScore == 0 :> 10 @@ 1 :> 20 @@ 2 :> 50 @@ 3 :> 90
=============================================================================
