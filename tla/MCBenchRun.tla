------------------------------ MODULE MCBenchRun ------------------------------
(* Instances of BenchRun for TLC. *)
EXTENDS BenchRun

Http(host, port, path)  == Url("http", host, port, path)
Https(host, port, path) == Url("https", host, port, path)
Path(path)              == Url("", "", 0, path)

Str(url) == [type |-> "string", url |-> url]
Obj(url) == [type |-> "object", url |-> url, method |-> "POST", headers |-> {"json"},
             body |-> 3]

Second(n)  == [number |-> n, unit |-> "s"]
NoDuration == Second(0)

Bench(connections, threads) ==
  [connections |-> connections, threads |-> threads, duration |-> Second(1),
   hasTarget |-> FALSE, target |-> NoUrl, host |-> ""]

Script(type, items, bench) ==
  [ends |-> "returns", default |-> [type |-> type, items |-> items], bench |-> bench]

Plain  == Http("a", 0, "/")
Odd    == Http("a", 8080, "/p")
Secure == Https("b", 0, "")

\* How the connections are dealt.
Crowds ==
  {Script("string", <<Str(Plain)>>, Bench(pair[1], pair[2])) :
     pair \in {<<0, -1>>, <<2, 5>>, <<5, 3>>}}

\* How the export becomes requests, with and without a target.
Exports ==
  {<<"string", <<Str(Odd)>>>>, <<"string", <<Str(Path("/q"))>>>>,
   <<"object", <<Obj(Secure)>>>>, <<"object", <<Obj(NoUrl)>>>>,
   <<"array", <<>>>>, <<"array", <<Obj(Path("/q")), Str(Secure)>>>>,
   <<"array", <<Str(Odd), Obj(Odd)>>>>, <<"array", <<Str(Plain), Str(NoUrl)>>>>,
   <<"array", <<Obj(Odd), Obj(Secure), [type |-> "other"]>>>>,
   <<"function", <<>>>>, <<"none", <<>>>>}

Targets == {<<FALSE, NoUrl>>, <<TRUE, NoUrl>>, <<TRUE, Https("t", 8443, "/base")>>,
            <<TRUE, Http("t", 0, "")>>}

Shapes ==
  {Script(e[1], e[2],
     [Bench(1, 1) EXCEPT !.hasTarget = t[1], !.target = t[2], !.host = h]) :
       e \in Exports, t \in Targets, h \in {"", "v"}}

Durations ==
  {Script("string", <<Str(Plain)>>, [Bench(1, 1) EXCEPT !.duration = d]) :
     d \in {Second(-5), NoDuration, [number |-> 1, unit |-> "m"],
            [number |-> 1, unit |-> "h"], [number |-> 20, unit |-> "ms"]}}

Broken == {[Script("none", <<>>, Bench(1, 1)) EXCEPT !.ends = "fails"]}

EveryScript == Crowds \cup Shapes \cup Durations \cup Broken

\* Latencies on both sides of the ends of the resolutions: fine up to 6 ticks,
\* coarse up to 18.
Outcome(path, kind, ticks) == [path |-> path, kind |-> kind, ticks |-> ticks]

EveryOutcome ==
  {Outcome("c", "status_2xx", 0), Outcome("c", "status_2xx", 5),
   Outcome("c", "status_3xx", 6), Outcome("c", "status_4xx", 17),
   Outcome("c", "status_5xx", 18), Outcome("c", "other", 11),
   Outcome("c", "error", 0),
   Outcome("js", "ok", 7), Outcome("js", "failed", 20), Outcome("js", "threw", 0)}
=============================================================================
