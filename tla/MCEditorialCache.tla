--------------------------- MODULE MCEditorialCache ---------------------------
(***************************************************************************)
(* Catalogs with variants before and after the canonical listing, a leaf   *)
(* of two creators, an entry without a name, an id without a creator; and  *)
(* lookups that find each of them or nothing.                              *)
(***************************************************************************)
EXTENDS EditorialCache

Id(creator, leaf) == [creator |-> creator, leaf |-> leaf]

Entry(creator, leaf, name, context) ==
    [id |-> Id(creator, leaf), variant |-> FALSE, name |-> name, context |-> context]

Variant(creator, leaf, name, context) ==
    [Entry(creator, leaf, name, context) EXCEPT !.variant = TRUE]

MCCatalogs ==
    { << Variant("a", "m", "M free", 100), Entry("a", "m", "M", 200),
         Entry("b", "s", "S of b", 300), Entry("c", "s", "S of c", 400) >>,
      << Entry("a", "m", "M", 500), Variant("a", "m", "M free", 100),
         Entry("b", "s", "S of b", 600), Entry("c", "s", "", 700) >>,
      << Variant("c", "m", "M first", 800), Variant("c", "m", "M second", 900),
         Entry("", "s", "S of nobody", 1000), Entry("c", "s", "S of c", 0) >> }

MCAsked == {Id("", "m"), Id("a", "m"), Id("", "s"), Id("c", "s")}
=============================================================================
