-------------------------- MODULE OpenRouterCatalog --------------------------
(***************************************************************************)
(* What internal/editorial makes of one answer of OpenRouter: a map from   *)
(* model ids and one from the leaves that belong to a single id, and what  *)
(* a lookup finds in them.                                                 *)
(***************************************************************************)
EXTENDS Integers, Sequences, SequencesExt

(* normalizeID: creator/leaf in lower case without a marketplace variant;  *)
(* an id without a slash has no creator, and none begins with a slash.  An *)
(* entry remembers whether it was listed as a variant (creator/leaf:free). *)
ModelID == [creator : STRING, leaf : STRING]

CatalogEntry == [id : ModelID, variant : BOOLEAN, name : STRING, context : Int]

Metadata == [name : STRING, context : Int]

NotFound == [name |-> "", context |-> 0]

MetadataOf(entry) == [name |-> entry.name, context |-> entry.context]

Blank == [creator |-> "", leaf |-> ""]

Usable(entry) == entry.id # Blank /\ entry.name # ""

With(ids, entry) ==
    [id \in DOMAIN ids \cup {entry.id} |-> IF id = entry.id THEN MetadataOf(entry) ELSE ids[id]]

ListedLastWins(ids, entry) == IF ~Usable(entry) THEN ids ELSE With(ids, entry)

(* One turn of the loop of refresh: a variant replaces nothing.            *)
Listed(ids, entry) ==
    IF ~Usable(entry) \/ (entry.variant /\ entry.id \in DOMAIN ids) THEN ids ELSE With(ids, entry)

IDs(catalog) == FoldLeft(Listed, [id \in {} |-> NotFound], catalog)

(* A leaf stands for its id if it is the leaf of no other.                 *)
Leaves(ids) ==
    LET alone == {id \in DOMAIN ids : \A other \in DOMAIN ids : other.leaf = id.leaf => other = id}
    IN  [leaf \in {id.leaf : id \in alone} |-> ids[CHOOSE id \in alone : id.leaf = leaf]]

(* LookupMetadata, once it has the lock: exact, or by the leaf.            *)
Found(ids, leaves, id) ==
    IF id \in DOMAIN ids THEN ids[id]
    ELSE IF id.creator = "" /\ id.leaf \in DOMAIN leaves THEN leaves[id.leaf]
    ELSE NotFound

-----------------------------------------------------------------------------
(* The same without a loop: a model is listed by its last canonical entry, *)
(* or if there is none by its first variant.                               *)
Listings(catalog, id) == {i \in DOMAIN catalog : Usable(catalog[i]) /\ catalog[i].id = id}

Canonical(catalog, id) == {i \in Listings(catalog, id) : ~catalog[i].variant}

Listing(catalog, id) ==
    IF Canonical(catalog, id) # {}
    THEN CHOOSE i \in Canonical(catalog, id) : \A j \in Canonical(catalog, id) : j <= i
    ELSE CHOOSE i \in Listings(catalog, id) : \A j \in Listings(catalog, id) : i <= j

(* An exact match, or the only id that ends in what is asked.              *)
Matches(catalog, id) ==
    IF Listings(catalog, id) # {} \/ id.creator # "" THEN {id}
    ELSE {catalog[i].id : i \in {j \in DOMAIN catalog : Usable(catalog[j]) /\ catalog[j].id.leaf = id.leaf}}

Described(catalog, id) ==
    LET best == Matches(catalog, id)
    IN  IF \E match \in best : best = {match} /\ Listings(catalog, match) # {}
        THEN MetadataOf(catalog[Listing(catalog, CHOOSE match \in best : TRUE)])
        ELSE NotFound
=============================================================================
