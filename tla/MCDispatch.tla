------------------------------ MODULE MCDispatch ------------------------------
(***************************************************************************)
(* Small deployments for Dispatch, each with the lists its providers and   *)
(* ChatGPT may serve: one as the example configuration describes, with and *)
(* without discovery, and configurations whose entries answer to names     *)
(* that another process resolves otherwise.                                *)
(***************************************************************************)
EXTENDS MCConfigValidation, Dispatch

(* As config/router.example.yaml: a managed model with variants, a native   *)
(* one with variants and a short alias, the fallback.                      *)
Native ==
    [Plain(<<"openai", "gpt">>) EXCEPT !.aliases = <<N(<<"sol">>)>>, !.maxWindow = 400000,
                                       !.variants = <<400000>>]

Deployment(ms, ps) ==
    [version |-> 1, fallback |-> NoName, routeValid |-> TRUE, models |-> ms, providers |-> ps]

Example == <<Catalogue[2], Native, Catalogue[7]>>

Unreachable == <<[Catalogue[4] EXCEPT !.mode = "unsupported"], Catalogue[7]>>

(* A model that converts, of a provider that does not.                      *)
Converted == [Plain(<<"plain", "chat">>) EXCEPT !.mode = "chat_polyfill"]

(* And any one or two entries that pass their checks by themselves.         *)
Entry == {2, 4, 6, 7, 8, 9, 12, 13}

DeployedModels ==
    {Example, Unreachable, <<Converted>>, <<Catalogue[7], Converted>>} \cup {Chosen({i, j}) : i, j \in Entry}

PlainProvider == [Managed EXCEPT !.mode = "", !.discovers = FALSE]

SomeDiscovered == "plain" :> PlainProvider @@ "openai" :> OpenAI @@ "managed" :> [Managed EXCEPT !.discovers = FALSE] @@ "router" :> Managed

AllDiscovered == "plain" :> PlainProvider @@ "openai" :> Discovering @@ "managed" :> Managed

DeployedConfigs == {Deployment(ms, ps) : ms \in DeployedModels, ps \in {SomeDiscovered, AllDiscovered}}

MCAutoNames == {N(<<"auto">>), N(<<"auto:code">>), N(<<"auto:mine">>)}

DispatchAsked ==
    LET paths == { <<"chat">>, <<"managed", "chat">>, <<"gpt">>, <<"openai", "gpt">>, <<"sol">>,
                   <<"managed", "gpt">>, <<"new">>, <<"managed", "new">>, <<"managed", "openai", "new">>,
                   <<"openai", "managed", "new">>, <<"router", "openai", "new">>, <<"plain", "chat">>, <<"x", "sol">>, <<"">> }
    IN  {N(p) : p \in paths}
            \cup {Marked(<<"sol">>, 400, "k"), Marked(<<"gpt">>, 400, "k"), Marked(<<"openai", "gpt">>, 400, "k"),
                  Marked(<<"managed", "chat">>, 1, "m"), Marked(<<"chat">>, 512, "k")}
            \cup MCAutoNames

MCAliases == <<N(<<"auto">>), N(<<"auto:code">>)>>

(* The fallback for hosted tools is not to be routed to.                   *)
MCDisabled == {N(<<"openai", "gpt-6-luna">>)}

MCAdapters == (N(<<"managed">>) :> "chat") @@ (N(<<"router", "openai", "gpt">>) :> "native")

MCEditorial == (<<"managed", N(<<"new">>)>> :> 64000) @@ (<<"openai", N(<<"gpt">>)>> :> 128000)

Bare(path) == [name |-> N(path), window |-> 0, label |-> <<>>]

MCOffers ==
    { <<>>,
      \* a provider may put its own name into the display name
      <<[Bare(<<"managed", "chat">>) EXCEPT !.label = <<"managed">>], Bare(<<"managed", "new">>)>>,
      <<[Bare(<<"managed", "new">>) EXCEPT !.window = 32000], Bare(<<"openai", "gpt">>),
        Bare(<<"managed", "new">>), Bare(<<"nobody", "new">>)>> }

MCDirectLists ==
    { <<[Bare(<<"gpt">>) EXCEPT !.window = 272000], Bare(<<"gpt-6-luna">>)>>,
      <<Bare(<<"new">>), Bare(<<"chat">>)>> }
=============================================================================
