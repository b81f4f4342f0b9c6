--------------------------- MODULE MCDecisionAudit ---------------------------
(***************************************************************************)
(* A small deployment for DecisionAudit, in name order: "a", which scores  *)
(* best while healthy and ties after one failure, "b", a chat completions *)
(* model that runs locally, and "c", which no automatic request may use.   *)
(* One goroutine is given every kind of automatic request and preview, the *)
(* other the concrete-model traffic that drives the health meanwhile.      *)
(***************************************************************************)
EXTENDS DecisionAudit, TLC

Reviewed ==
    [upstream |-> "up", disabled |-> FALSE, mode |-> "native",
     maxContext |-> 10, contextPercent |-> 100,
     vision |-> FALSE, search |-> FALSE, local |-> FALSE,
     quality |-> 80, reliability |-> 90, inputCost |-> 3, outputCost |-> 3,
     strengths |-> {"code"}]

MCModelNames == <<"a", "b", "c">>

MCRoute ==
    "a" :> [Reviewed EXCEPT !.upstream = "ua", !.contextPercent = 50, !.inputCost = 5,
                            !.vision = TRUE, !.search = TRUE]
 @@ "b" :> [Reviewed EXCEPT !.upstream = "ub", !.mode = "chat_polyfill", !.local = TRUE,
                            !.quality = 0, !.strengths = {}]
 @@ "c" :> [Reviewed EXCEPT !.upstream = "uc", !.disabled = TRUE]

MCProfiles ==
    "balanced" :> [minQuality |-> 0, maxInputCost |-> 0, maxOutputCost |-> 0, reliabilityWeight |-> 1]
 @@ "strict" :> [minQuality |-> 55, maxInputCost |-> 4, maxOutputCost |-> 0, reliabilityWeight |-> 1]

(* "a" is the better answer to a chat, "b" to code.                        *)
MCMerit ==
    [p \in {"balanced", "strict"} |->
        "chat" :> ("a" :> 40 @@ "b" :> 22 @@ "c" :> 90)
     @@ "code" :> ("a" :> 20 @@ "b" :> 30 @@ "c" :> 90)]

MCAliases == "auto" :> "balanced" @@ "auto:strict" :> "strict"

MCAutoSuffix == "auto:strict" :> "strict" @@ "auto:nothing" :> "nothing"

Plain ==
    [model |-> "auto", profile |-> "", task |-> "chat", minQuality |-> 0, maxInputCost |-> 0, maxOutputCost |-> 0,
     requireLocal |-> FALSE, strengths |-> {}, exclude |-> {}, tokens |-> 1,
     vision |-> FALSE, hosted |-> FALSE, search |-> FALSE]

(* Each body exercises one filter or one branch of Rewrite and Preview.    *)
AutoBodies ==
    { Plain,
      [Plain EXCEPT !.model = "auto:strict", !.maxInputCost = 9],
      [Plain EXCEPT !.profile = "strict"],
      [Plain EXCEPT !.profile = "missing"],
      [Plain EXCEPT !.minQuality = 101],
      [Plain EXCEPT !.model = "unknown"],
      [Plain EXCEPT !.tokens = 6, !.minQuality = 60],
      [Plain EXCEPT !.tokens = 6, !.minQuality = 61],
      [Plain EXCEPT !.exclude = {"ub"}, !.tokens = 5],
      [Plain EXCEPT !.hosted = TRUE],
      [Plain EXCEPT !.search = TRUE, !.vision = TRUE, !.strengths = {"code"}],
      [Plain EXCEPT !.requireLocal = TRUE, !.maxOutputCost = 3],
      [Plain EXCEPT !.task = "code", !.maxInputCost = 5] }

(* A concrete model may be asked for by its slug or an alias of it.        *)
MCObservedAs == [m \in {"a", "b", "c"} |-> m] @@ "alias-b" :> "b"

MCPolyfilled == {"b", "alias-b"}

LoadBodies ==
    { [Plain EXCEPT !.model = "alias-b"],
      [Plain EXCEPT !.model = "alias-b", !.hosted = TRUE] }

MCArrivals ==
    "r1" :> [kind : Kinds, body : AutoBodies]
 @@ "load" :> [kind : {"inference"}, body : LoadBodies]
=============================================================================
