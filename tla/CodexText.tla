------------------------------ MODULE CodexText ------------------------------
(***************************************************************************)
(* The text of a Codex config.toml as internal/codexprofile sees it: the   *)
(* user's lines, line ends, and the managed block between its markers.     *)
(***************************************************************************)
EXTENDS Integers, Sequences, SequencesExt

CONSTANTS
    OwnLine,      \* lines of the user
    Body          \* what Render puts between the markers, for some Options

Marker == {"begin", "end"}

White == {"\n", "\r\n"}

ASSUME TextConstants ==
    /\ OwnLine \cap (Marker \cup White) = {}
    /\ Body \cap (OwnLine \cup Marker \cup White) = {}

Text == Seq(OwnLine \cup Body \cup Marker \cup White)

(* strings.Index, with 0 for nowhere.                                      *)
Position(text, token) ==
    LET places == {i \in DOMAIN text : text[i] = token}
    IN  IF places = {} THEN 0 ELSE Min(places)

UpTo(text, n) == SubSeq(text, 1, n)

After(text, n) == SubSeq(text, n + 1, Len(text))

LastInk(text) == Max({0} \cup {i \in DOMAIN text : text[i] \notin White})

TrimRight(text) == UpTo(text, LastInk(text))

HasMarker(text) == \E i \in DOMAIN text : text[i] \in Marker

MalformedOnlyIfTwice(text) == HasMarker(After(text, Position(text, "end"))) /\ HasMarker(text)

(* The errors of removeManaged: one marker without the other, the wrong    *)
(* order, a second block.                                                  *)
Malformed(text) ==
    LET start == Position(text, "begin")
        end == Position(text, "end")
    IN  HasMarker(text) /\ (start = 0 \/ end < start \/ HasMarker(After(text, end)))

(* strings.TrimPrefix with a line end of the other convention.             *)
TrimPrefix(text) == IF text # <<>> /\ text[1] = "\r\n" THEN After(text, 1) ELSE text

(* What removeManaged leaves of a text that is not malformed.              *)
Cleaned(text) ==
    IF HasMarker(text)
    THEN UpTo(text, Position(text, "begin") - 1) \o TrimPrefix(After(text, Position(text, "end")))
    ELSE text

Block(body) == <<"begin", body, "end", "\n">>

Merged(cleaned, body) == IF cleaned = <<>> THEN Block(body) ELSE cleaned \o <<"\n", "\n">> \o Block(body)

MergeAppending(text, body) == Merged(TrimRight(text), body)

MergeUntrimmed(text, body) == Merged(Cleaned(text), body)

Merge(text, body) == Merged(TrimRight(Cleaned(text)), body)

LineEnded(cleaned) == IF cleaned = <<>> THEN <<>> ELSE cleaned \o <<"\n">>

(* Remove, where there is something to remove.                             *)
Remaining(text) == LineEnded(TrimRight(Cleaned(text)))

-----------------------------------------------------------------------------
(* The user's lines, wherever they are.                                    *)
AddOwn(lines, token) == IF token \in OwnLine THEN Append(lines, token) ELSE lines

OwnLines(text) == FoldLeft(AddOwn, <<>>, text)
=============================================================================
