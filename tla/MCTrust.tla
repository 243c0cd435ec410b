------------------------------ MODULE MCTrust ------------------------------
(***************************************************************************)
(* TLC instances of Trust: a small public key infrastructure and worlds    *)
(* that each bring out one part of it.                                     *)
(***************************************************************************)
EXTENDS Trust

www == <<"www", "ex">>
WWW == <<"WWW", "ex">>
api == <<"api", "ex">>
star == <<"*", "ex">>
host == <<"host">>
addr == <<"10", "0", "0", "1">>

Dns(n) == <<"DNS", n>>
Utf8(n) == <<"UTF8", n>>

A(subject, issuer, key, signer) ==
    [subject |-> subject, issuer |-> issuer, key |-> key, signer |-> signer, kind |-> "RSA",
     scheme |-> "rsa_sha256", san |-> <<>>, cn |-> <<>>, from |-> 0, until |-> 9000, ca |-> TRUE]
L(key, san, cn) ==
    [A(key, "root", key, "kroot") EXCEPT !.san = san, !.cn = cn, !.ca = FALSE]

MCCert ==
    [root |-> A("root", "root", "kroot", "kroot"), inter |-> A("inter", "root", "kinter", "kroot"),
     alien |-> A("alien", "alien", "kalien", "kalien"),
     www |-> L("kwww", <<Dns(WWW)>>, <<Utf8(api)>>),
     wild |-> L("kwild", <<Dns(star)>>, <<>>),
     host |-> L("khost", <<Dns(host)>>, <<>>),
     short |-> [L("kshort", <<Dns(www)>>, <<>>) EXCEPT !.until = 1050],
     ecdsa |-> [L("kecdsa", <<Dns(www), Dns(api)>>, <<>>) EXCEPT !.kind = "ECDSA"],
     cn |-> L("kcn", <<>>, <<Utf8(www)>>), twocn |-> L("ktwo", <<>>, <<Utf8(www), Utf8(api)>>),
     wide |-> L("kwide", <<>>, << <<"BMP", www>> >>), long |-> L("klong", <<>>, << <<"LONG", api>> >>),
     uri |-> L("kuri", << <<"URI", api>> >>, <<Utf8(www)>>),
     ip |-> L("kip", << <<"IP", <<10, 0, 0, 1>> >> >>, <<Utf8(www)>>),
     under |-> [L("kunder", <<Dns(www)>>, <<>>) EXCEPT !.issuer = "inter", !.signer = "kinter"],
     forged |-> [L("kforged", <<Dns(www)>>, <<>>) EXCEPT !.signer = "kalien"],
     other |-> [L("kother", <<Dns(www)>>, <<>>) EXCEPT !.issuer = "alien", !.signer = "kalien"],
     sha1 |-> [L("ksha1", <<Dns(www)>>, <<>>) EXCEPT !.scheme = "rsa_sha1"],
     weak |-> [L("kweak", <<Dns(www)>>, <<>>) EXCEPT !.scheme = "rsa_md5"],
     dsa |-> [L("kdsa", <<Dns(www)>>, <<>>) EXCEPT !.kind = "DSA"],
     mine |-> L("kmine", <<Dns(www)>>, <<>>)]

Of(certs, priv) == [certs |-> certs, priv |-> priv, junk |-> FALSE]
MCChain ==
    [www |-> Of(<<"www">>, "kwww"), wild |-> Of(<<"wild">>, "kwild"), host |-> Of(<<"host">>, "khost"),
     short |-> Of(<<"short", "root">>, "kshort"), ecdsa |-> Of(<<"ecdsa">>, "kecdsa"),
     cn |-> Of(<<"cn">>, "kcn"), twocn |-> Of(<<"twocn">>, "ktwo"), wide |-> Of(<<"wide">>, "kwide"),
     long |-> Of(<<"long">>, "klong"),
     uri |-> Of(<<"uri">>, "kuri"), ip |-> Of(<<"ip">>, "kip"),
     under |-> Of(<<"under", "inter">>, "kunder"), full |-> Of(<<"under", "inter", "root">>, "kunder"),
     bare |-> Of(<<"under">>, "kunder"), forged |-> Of(<<"forged", "root">>, "kforged"),
     other |-> Of(<<"other", "alien">>, "kother"),
     sha1 |-> Of(<<"sha1">>, "ksha1"), weak |-> Of(<<"weak">>, "kweak"), dsa |-> Of(<<"dsa">>, "kdsa"),
     mine |-> Of(<<"mine">>, "kmine"), mismatch |-> Of(<<"www">>, "kmine"),
     junk |-> [Of(<<"www">>, "kwww") EXCEPT !.junk = TRUE]]

At(t, zone, h) == [at |-> t, zone |-> zone, hours |-> h, minutes |-> 0]
Absent == At(0, "absent", 0)
R(about, signer, status, this, next) ==
    [about |-> about, signer |-> signer, status |-> status, this |-> this, next |-> next]
MCResponse ==
    [good |-> R("www", "kroot", "GOOD", At(1000, "Z", 0), At(1140, "Z", 0)),
     hour |-> R("www", "kroot", "GOOD", At(1110, "+", 2), Absent),
     stale |-> R("www", "kroot", "GOOD", At(800, "Z", 0), At(1080, "+", 1)),
     skipped |-> R("www", "kroot", "GOOD", At(1000, "Z", 0), At(1180, "+", 2)),
     future |-> R("www", "kroot", "GOOD", At(960, "-", 2), Absent),
     revoked |-> R("www", "kroot", "REVOKED", At(1000, "Z", 0), At(1140, "Z", 0)),
     elsewhere |-> R("wild", "kroot", "GOOD", At(1000, "Z", 0), At(1140, "Z", 0)),
     unsigned |-> R("www", "kalien", "GOOD", At(1000, "Z", 0), At(1140, "Z", 0))]

C(op, end, arg) == [op |-> op, end |-> end, arg |-> arg]
Load(chains) == {C("add_cert", "server", c) : c \in chains}
Trusting(c) == {C("add_pem", "client", c)}
W(menu, names, strangers) ==
    [menu |-> menu, names |-> names, versions |-> {12}, kinds |-> {"RSA"}, strangers |-> strangers,
     responses |-> {}, callback |-> {api}, system |-> {}, depth |-> 1,
     own |-> [client |-> {}, server |-> {}]]

\* Which of several chains a server picks, whatever order they come in.
Naming == W(Load({"www", "wild", "host"}) \cup Trusting("root") \cup {C("set_defaults", "server", "host")},
            {www, WWW, api, host}, {})
\* Common names, one of 255 bytes or more among them, addresses, URIs.
OddNames == W(Load({"cn", "ip"}) \cup Trusting("root"), {www, api, addr}, {"twocn", "wide", "uri", "www", "long"})
\* Two kinds of key for a name, two chains for a name, chains that do not load.
Kinds == [W(Load({"ecdsa", "wild", "cn", "short", "mismatch"}) \cup Trusting("root")
            \cup {C("tiebreak", "server", None)}, {www, api}, {}) EXCEPT !.kinds = {"RSA", "ECDSA"}]
\* What the trust store is made of.
Stores == W(Load({"full", "junk", "dsa"}) \cup Trusting("root") \cup
            {C("ca_file", "client", "inter"), C("ca_file", "client", "missing"), C("wipe", "client", None),
             C("disable", "client", None), C("depth", "client", None)},
            {www}, {"under", "bare", "forged", "other"})
\* Signatures and time.
Times == [W(Load({"short", "sha1"}), {www}, {"weak", "short"}) EXCEPT !.versions = {12, 13}, !.system = {"root"}]
\* Responses, good and bad, and one that runs out in an hour that daylight saving skips.
Ocsp == [W(Load({"www"}) \cup {C("ocsp_data", "server", "hour"), C("ocsp_data", "server", "stale"),
            C("status_request", "client", None), C("no_ocsp", "client", None)},
           {www}, {"www"}) EXCEPT !.versions = {12, 13}, !.system = {"root"},
           !.responses = {"good", "skipped", "future", "revoked", "elsewhere", "unsigned"}]
\* Client authentication, and settings of the connections themselves.
Mutual == [W(Load({"www"}) \cup {C("add_cert", "client", "mine"), C("auth", "client", "OPTIONAL"),
             C("auth", "server", "OPTIONAL"), C("verify_host", "server", None), C("wipe", "server", None)},
             {www}, {"under", "ecdsa"})
           EXCEPT !.system = {"root"}, !.own = [client |-> {}, server |-> {"auth", "verify_host"}]]
Callbacks == [W(Load({"www", "wild"}) \cup {C("verify_host", "client", None)}, {www}, {"ecdsa", "twocn", "other"})
              EXCEPT !.system = {"root"}, !.own = [client |-> {"verify_host"}, server |-> {}],
                     !.kinds = {"RSA", "ECDSA"}]

AllWorlds == [naming |-> Naming, odd_names |-> OddNames, kinds |-> Kinds, stores |-> Stores, times |-> Times,
              ocsp |-> Ocsp, mutual |-> Mutual, callbacks |-> Callbacks]

Hashes == [n \in {www, WWW, api, star, host, addr, <<"*", "0", "0", "1">>} |->
             CASE n = www -> 3 [] n = api -> 7 [] n = star -> 5 [] n = host -> 2 [] OTHER -> 1]
Lowering == [WWW |-> "www"]
Clock == <<1000, 1100>>
HereAndNow == [base |-> 120, from |-> 1050, until |-> 5000]
=============================================================================
