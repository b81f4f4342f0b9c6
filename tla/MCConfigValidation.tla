-------------------------- MODULE MCConfigValidation --------------------------
(***************************************************************************)
(* Small configurations for ConfigValidation: every choice of up to two    *)
(* entries of a catalogue, with every choice of providers and of fallback. *)
(* The catalogue holds one good entry of each kind and entries that        *)
(* collide with them in every way names can collide, or break one rule.    *)
(***************************************************************************)
EXTENDS ConfigValidation, FiniteSets, TLC

N(path) == [path |-> path, marks |-> <<>>]

Marked(path, count, unit) == [path |-> path, marks |-> <<[count |-> count, unit |-> unit]>>]

Plain(path) ==
    [slug |-> N(path), aliases |-> <<>>, provider |-> "", upstream |-> NoName,
     mode |-> "", nativeOnly |-> FALSE, wellFormed |-> TRUE,
     window |-> 0, maxWindow |-> 0, variants |-> <<>>]

(* In name order.                                                          *)
Catalogue ==
    << \* a model of a provider nobody configured
       Plain(<<"ghost", "x">>),
       \* chat completions, a short alias, both forms of the suffix
       [Plain(<<"managed", "chat">>) EXCEPT !.aliases = <<N(<<"chat">>)>>, !.maxWindow = 1000000,
                                            !.variants = <<256000, 1000000>>],
       \* its slug is a variant's name of the entry before
       [Plain(<<"managed", "chat">>) EXCEPT !.slug = Marked(<<"managed", "chat">>, 1, "m")],
       \* the same short name as an OpenAI model
       Plain(<<"managed", "gpt">>),
       \* claims what chat completions cannot do, unless the entry is native
       [Plain(<<"managed", "seen">>) EXCEPT !.nativeOnly = TRUE],
       [Plain(<<"managed", "seer">>) EXCEPT !.nativeOnly = TRUE, !.mode = "native"],
       \* the entry the fallback defaults to
       Plain(<<"openai", "gpt-6-luna">>),
       \* its provider calls it by another name
       [Plain(<<"openai", "gpt">>) EXCEPT !.upstream = N(<<"gpt-up">>), !.window = 400000,
                                          !.variants = <<400000>>],
       \* two variants with one window, a window above the maximum, an odd one
       [Plain(<<"openai", "sol">>) EXCEPT !.aliases = <<N(<<"x", "sol">>), N(<<"sun">>)>>,
                                          !.window = 1000000, !.variants = <<1000000>>],
       [Plain(<<"openai", "twice">>) EXCEPT !.variants = <<100000, 100000>>],
       [Plain(<<"openai", "wide">>) EXCEPT !.variants = <<132000>>],
       \* the upstream name of a router's model begins with another provider
       Plain(<<"router", "openai", "gpt">>),
       [Plain(<<"router", "openai", "new">>) EXCEPT !.provider = "managed", !.mode = "native"] >>

Selections == {{}, {2, 7, 9}, {8, 12, 13}} \cup {{i, j} : i, j \in 1 .. Len(Catalogue)}

(* The entries of I, in name order.                                        *)
Chosen(I) ==
    [r \in 1 .. Cardinality(I) |->
        Catalogue[CHOOSE i \in I : Cardinality({j \in I : j <= i}) = r]]

OpenAI == [credential |-> Passthrough, mode |-> "", discovers |-> FALSE,
           nativeOnly |-> FALSE, wellFormed |-> TRUE]

Managed == [credential |-> "", mode |-> "chat_polyfill", discovers |-> TRUE,
            nativeOnly |-> FALSE, wellFormed |-> TRUE]

Discovering == [OpenAI EXCEPT !.discovers = TRUE]

(* The last three break a rule about providers.                            *)
MCProviders ==
    { "openai" :> OpenAI @@ "managed" :> Managed @@ "router" :> [Managed EXCEPT !.discovers = FALSE],
      "openai" :> Discovering @@ "managed" :> Managed @@ "router" :> Managed,
      "openai" :> Discovering @@ "managed" :> [Managed EXCEPT !.nativeOnly = TRUE],
      "openai" :> OpenAI @@ "managed" :> [Managed EXCEPT !.credential = Passthrough],
      "openai" :> [OpenAI EXCEPT !.wellFormed = FALSE] }

Fallbacks == {NoName, N(<<"gpt">>), N(<<"managed", "chat">>), Marked(<<"sun">>, 1, "m")}

MCConfigs ==
    {[version |-> 1, fallback |-> f, routeValid |-> I # {4}, models |-> Chosen(I), providers |-> ps] :
        f \in Fallbacks, I \in Selections, ps \in MCProviders}

MCAsked ==
    LET paths == { <<"chat">>, <<"managed", "chat">>, <<"gpt">>, <<"openai", "gpt">>, <<"gpt-up">>,
                   <<"sol">>, <<"sun">>, <<"x", "sol">>, <<"openai", "new">>, <<"new">>,
                   <<"managed", "new">>, <<"router", "openai", "gpt">>, <<"openai", "">>, <<"">> }
    IN  {N(p) : p \in paths}
            \cup {Marked(p, c, u) : p \in paths, c \in {1, 256, 400}, u \in {"k", "m"}}
=============================================================================
