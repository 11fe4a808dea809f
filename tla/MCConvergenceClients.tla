------------------------- MODULE MCConvergenceClients ------------------------
(* An instance of ConvergenceClients for TLC.                                *)
EXTENDS ConvergenceClients, TLC

SomeConfigs == [RequiredConsecutiveSuccesses : {0, 1, 2}, MaxTimeToConsistency : {0, 2}]

Url == [scheme |-> "http", path |-> "/old"]
Redirect(h, p, s, t) == [host |-> h, port |-> p, scheme |-> s, path |-> t]

Expect(status, target) ==
    [url |-> Url,
     expected |->
        [status |-> status,
         request |-> [host |-> "", path |-> "/old", method |-> "",
                      headers |-> "x" :> "1", absent |-> {"y"}],
         namespace |-> "infra", backend |-> "v1",
         headers |-> "r" :> "1", absent |-> {}, redirect |-> target]]

\* A backend's answer; its headers are h and those of its answer are r.
Echo(pod, h, r) ==
    [status |-> 200, host |-> "any", path |-> "/old", method |-> "GET",
     namespace |-> "infra", headers |-> h, pod |-> pod, responseHeaders |-> r]

Redirected(h, p, s, t) == [status |-> 302, redirect |-> Redirect(h, p, s, t)]

AllCases ==
    {Expect(200, <<>>), Expect(504, <<>>), Expect(302, <<>>),
     Expect(302, <<Redirect("new", "", "https", "")>>),
     Expect(302, <<Redirect("gw", "8080", "", "/new")>>)}

\* What a proxy without and with the configuration of the test may say.
AllAnswers(p, new) ==
    IF new
    THEN {Echo("v1", "x" :> "1" @@ "z" :> "1", "r" :> "1"),
          Echo("v1", "x" :> "1" @@ "y" :> "1", "r" :> "1"),
          [status |-> 408], [status |-> 504],
          Redirected("new", "", "https", "/old"),
          Redirected("new", "8080", "https", "/old"),
          Redirected("gw", "8080", "http", "/new")}
    ELSE {[status |-> 404], Echo("v2", "x" :> "1", "r" :> "1"),
          Echo("v1", <<>>, "r" :> "1"), Echo("v1", "x" :> "1", <<>>),
          Redirected("gw", "8080", "http", "/old"),
          Redirected("gw", "", "https", "/new")}

ExpectCode(requests, code) ==
    [requests |-> requests, code |-> code, namespace |-> "infra", backend |-> "v1"]

SomeExpectations ==
    {ExpectCode({"Echo"}, "OK"), ExpectCode({"EchoTwo"}, "OK"),
     ExpectCode({"EchoThree"}, "Unimplemented"), ExpectCode({"Echo"}, "Internal"),
     ExpectCode({}, "OK"), ExpectCode({"Echo", "EchoTwo"}, "OK")}

Answer(method, pod) ==
    [code |-> "OK", method |-> method, namespace |-> "infra", pod |-> pod]

SomeResponses ==
    {Answer("Echo", "v1"), Answer("Echo", "v2"), Answer("EchoTwo", "v1")}
    \cup [code : {"Internal", "Unimplemented", "DeadlineExceeded"}]

SomeMeshCases ==
    {[status |-> "200", headers |-> "r" :> "1", absent |-> {"y"}, backend |-> "v1"],
     [status |-> "404", headers |-> <<>>, absent |-> {}, backend |-> ""]}

Output(status, lines, from) == [status |-> status, lines |-> lines, pod |-> from]

\* Nothing but a status; a header twice, the right value first or last; an
\* unwanted header; another backend.
SomeOutputs ==
    {Output("", <<>>, ""), Output("404", <<>>, ""),
     Output("200", << <<"r", "1">> >>, "v1"),
     Output("200", << <<"r", "1">>, <<"r", "2">> >>, "v1"),
     Output("200", << <<"r", "2">>, <<"r", "1">> >>, "v1"),
     Output("200", << <<"r", "1">>, <<"y", "1">> >>, "v1"),
     Output("200", << <<"r", "1">> >>, "v2")}

SomeTargets == {{}, {"m1"}, {"m1", "m2"}, {"m1", ""}}
=============================================================================
