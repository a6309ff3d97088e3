------------------------------- MODULE MCHosts -------------------------------
(* Instances of HostsFile for TLC. *)
EXTENDS HostsFile, TLC

CONSTANTS window, cli

\* Appliers differ in nothing the module looks at.
AnyApplier == Permutations({window, cli})

Other(l) == [kind |-> "other", of |-> l]
Raw(l) == [kind |-> "raw", of |-> l]
Entry(e) == [kind |-> "entry", of |-> e]

\* The file as Windows ships it, with a comment in the code page of the machine;
\* with two groups around a line of the user; and with a group whose END line
\* the user deleted.
HostsTexts ==
    {<<Other("localhost"), Raw("comment")>>,
     <<BeginOf("dev")>> \o <<Entry("a1"), EndOf("dev"), Other("localhost")>>
        \o RenderGroup("ads", <<"a2", "a1">>),
     <<Other("localhost"), BeginOf("dev"), Entry("a1"), Other("nas")>>}

Job(g, e, on) == [group |-> g, entries |-> e, enabled |-> on]

HostsRequests ==
    {Job("dev", <<"a2">>, TRUE), Job("ads", <<"a1", "a2">>, TRUE),
     Job("dev", <<>>, FALSE), Job("dev", <<"bad">>, TRUE)}
=============================================================================
