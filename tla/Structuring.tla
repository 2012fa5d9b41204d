----------------------------- MODULE Structuring -----------------------------
(***************************************************************************)
(* What the Hub takes for the JSON object in an answer of the LLM          *)
(* (app/services/structuring.py, extract_json_object), and what it should. *)
(*                                                                         *)
(* A text is a sequence of the characters that matter; a run of three      *)
(* backticks is one of them, and blanks around the text are left out.      *)
(***************************************************************************)
EXTENDS Integers, Sequences

CONSTANT MaxText      \* bound: length of a text

ASSUME StructuringAssumption == MaxText \in Nat

Open == "{"
Close == "}"
Quote == "quote"
Backslash == "backslash"
Fence == "fence"
Other == "x"
Chars == {Open, Close, Quote, Backslash, Fence, Other}

NoText == <<>>      \* ValueError

Positions(text, ch) == {i \in DOMAIN text : text[i] = ch}
First(S) == CHOOSE i \in S : \A j \in S : i <= j

\* _JSON_FENCE_RE: what stands between the first two fences.
Fenced(text) ==
  LET a == First(Positions(text, Fence)) IN
  SubSeq(text, a + 1, First(Positions(text, Fence) \ {a}) - 1)

\* A mistake: a backslash in a string is a character like the others.
ReadCharUnescaped(s, ch) ==
  IF s.inString
  THEN [s EXCEPT !.inString = ch # Quote]
  ELSE [s EXCEPT !.inString = ch = Quote,
                 !.depth = IF ch = Open THEN @ + 1 ELSE IF ch = Close THEN @ - 1 ELSE @]

\* One turn of the scanner.
ReadChar(s, ch) ==
  IF s.inString
  THEN [s EXCEPT !.inString = s.escape \/ ch # Quote,
                 !.escape = ~s.escape /\ ch = Backslash]
  ELSE [s EXCEPT !.inString = ch = Quote,
                 !.depth = IF ch = Open THEN @ + 1 ELSE IF ch = Close THEN @ - 1 ELSE @]

\* The scanner from position start: its state after each character.
Scanned(text, start) ==
  LET scan[i \in start - 1 .. Len(text)] ==
        IF i < start THEN [depth |-> 0, inString |-> FALSE, escape |-> FALSE]
        ELSE ReadChar(scan[i-1], text[i])
  IN  scan

\* The first closing brace that ends what the brace at start has begun.
Balanced(text, start) ==
  LET scan == Scanned(text, start)
      ends == {i \in start .. Len(text) :
                 text[i] = Close /\ ~scan[i-1].inString /\ scan[i].depth = 0}
  IN  IF ends = {} THEN NoText ELSE SubSeq(text, start, First(ends))

Extract(raw, strict) ==
  LET fenced == \E i, j \in DOMAIN raw : i # j /\ raw[i] = Fence /\ raw[j] = Fence
      text == IF fenced THEN Fenced(raw) ELSE raw
      opens == Positions(text, Open)
  IN  IF (strict /\ (fenced \/ 1 \notin opens)) \/ opens = {}
      THEN NoText ELSE Balanced(text, First(opens))

-----------------------------------------------------------------------------
(* A grammar of objects, as far as braces and strings go: the texts of each *)
(* length.                                                                 *)

StringBodies[n \in 0 .. MaxText] ==
  IF n = 0 THEN {<<>>}
  ELSE {<<ch>> \o rest : ch \in Chars \ {Quote, Backslash}, rest \in StringBodies[n-1]}
       \cup (IF n = 1 THEN {}
             ELSE {<<Backslash, ch>> \o rest : ch \in Chars, rest \in StringBodies[n-2]})

JsonStrings(n) == {<<Quote>> \o body \o <<Quote>> : body \in StringBodies[n-2]}

Members[n \in 0 .. MaxText] ==
  IF n = 0 THEN {<<>>}
  ELSE {<<ch>> \o rest : ch \in {Other, Backslash, Fence}, rest \in Members[n-1]}
       \cup UNION {{part \o rest :
                      part \in JsonStrings(k) \cup {<<Open>> \o inner \o <<Close>> : inner \in Members[k-2]},
                      rest \in Members[n-k]} : k \in 2 .. n}

Objects == {<<Open>> \o inner \o <<Close>> : inner \in UNION {Members[n] : n \in 0 .. MaxText - 2}}
=============================================================================
