----------------------------- MODULE Validation -----------------------------
(***************************************************************************)
(* validate_and_parse_json (src/network/validation.rs): the size check, the *)
(* one-pass scan of the structure, one byte a step, and serde behind them,  *)
(* against a definition of the verdict that looks at the whole document.    *)
(***************************************************************************)
EXTENDS Naturals, Sequences, FiniteSets

CONSTANTS Documents,  \* what may be validated: sequences of Bytes
          MaxBody,    \* max_request_body_size
          Depths      \* the values of max_json_depth

\* Bytes, as far as the scan tells them apart; '{' and '[' share a budget.
Bytes == {"quote", "backslash", "open", "close", "other"}

ASSUME DocumentsType == Documents \subseteq Seq(Bytes) /\ MaxBody \in Nat /\ Depths \subseteq Nat

VARIABLES data, max_depth, position, current_depth, inside_string, escaped, result

validationVars == <<data, max_depth, position, current_depth, inside_string, escaped, result>>

ValidationInit ==
  /\ data \in Documents /\ max_depth \in Depths
  /\ position = 0 /\ current_depth = 0 /\ inside_string = FALSE /\ escaped = FALSE
  /\ result = "none"

-----------------------------------------------------------------------------
(* Variants with a bug the code does not have; no step of ValidationSpec.    *)

\* The flag is set by every backslash and not toggled.
EscapeSticks(byte) ==
  /\ escaped' = (byte = "backslash")
  /\ inside_string' = (escaped \/ byte # "quote")
  /\ UNCHANGED <<current_depth, result>>

-----------------------------------------------------------------------------
(* The steps.                                                                *)

CheckSize ==
  /\ result = "none"
  /\ result' = IF Len(data) > MaxBody THEN "too large" ELSE "scanning"
  /\ UNCHANGED <<data, max_depth, position, current_depth, inside_string, escaped>>

\* Inside a string literal a byte that follows an escape means nothing.
InString(byte) ==
  /\ escaped' = (~escaped /\ byte = "backslash")
  /\ inside_string' = (escaped \/ byte # "quote")
  /\ UNCHANGED <<current_depth, result>>

OpenQuote(byte) ==
  /\ byte = "quote" /\ inside_string' = TRUE
  /\ UNCHANGED <<current_depth, escaped, result>>

Open(byte) ==
  /\ byte = "open" /\ current_depth' = current_depth + 1
  /\ result' = IF current_depth' > max_depth THEN "too deep" ELSE "scanning"
  /\ UNCHANGED <<inside_string, escaped>>

Close(byte) ==
  /\ byte = "close"
  /\ IF current_depth = 0
     THEN result' = "unmatched closing bracket" /\ UNCHANGED current_depth
     ELSE current_depth' = current_depth - 1 /\ UNCHANGED result
  /\ UNCHANGED <<inside_string, escaped>>

Skip(byte) ==
  /\ byte \in {"backslash", "other"}
  /\ UNCHANGED <<current_depth, inside_string, escaped, result>>

Scan ==
  /\ result = "scanning" /\ position < Len(data) /\ position' = position + 1
  /\ LET byte == data[position']
     IN  IF inside_string THEN InString(byte)
         ELSE OpenQuote(byte) \/ Open(byte) \/ Close(byte) \/ Skip(byte)
  /\ UNCHANGED <<data, max_depth>>

\* The string first, then the brackets.
EndOfInput ==
  /\ result = "scanning" /\ position = Len(data)
  /\ result' = CASE inside_string -> "unterminated string"
                 [] ~inside_string /\ current_depth # 0 -> "unmatched opening bracket"
                 [] OTHER -> "valid"
  /\ UNCHANGED <<data, max_depth, position, current_depth, inside_string, escaped>>

\* serde_json has the last word.
Deserialize ==
  /\ result = "valid" /\ \E r \in {"ok", "deserialization failed"} : result' = r
  /\ UNCHANGED <<data, max_depth, position, current_depth, inside_string, escaped>>

ValidationNext == CheckSize \/ Scan \/ EndOfInput \/ Deserialize

ValidationSpec == ValidationInit /\ [][ValidationNext]_validationVars
-----------------------------------------------------------------------------
(* What a document deserves, by its string literals and their surroundings.  *)

\* A quote after an odd number of backslashes does not end the literal that is
\* opened at `open`.
Backslashes(d, open, k) ==
  Cardinality({i \in open+1..k-1 : \A j \in i..k-1 : d[j] = "backslash"})
Ends(d, open) ==
  {k \in open+1..Len(d) : d[k] = "quote" /\ Backslashes(d, open, k) % 2 = 0}
Within(d, open, k) == open <= k /\ \A end \in Ends(d, open) : k <= end

\* A quote opens a literal unless it lies within one that was opened before it.
Quotes(d) == {k \in 1..Len(d) : d[k] = "quote"}
AreOpenings(d, opens) ==
  \A k \in Quotes(d) : k \in opens <=> \A o \in opens : o < k => ~Within(d, o, k)
Openings(d) == CHOOSE opens \in SUBSET Quotes(d) : AreOpenings(d, opens)

InLiteral(d) == {k \in 1..Len(d) : \E o \in Openings(d) : Within(d, o, k)}
Unterminated(d) == \E o \in Openings(d) : Ends(d, o) = {}

\* How often a bracket opens or closes outside of them up to position k.
Outside(d, kind, k) == {i \in 1..k : d[i] = kind} \ InLiteral(d)
Brackets(d, kind, k) == Cardinality(Outside(d, kind, k))
Deeper(d, k, n) == Brackets(d, "open", k) > Brackets(d, "close", k) + n
Broken(d, k)    == Brackets(d, "close", k) > Brackets(d, "open", k)

\* The positions at which the nesting is at fault.
Bad(d, max) == {k \in 1..Len(d) : Deeper(d, k, max) \/ Broken(d, k)}

Deserved(d, max) ==
  LET bad == Bad(d, max) IN
  CASE Len(d) > MaxBody -> "too large"
    [] Len(d) <= MaxBody /\ bad # {} ->
         IF Broken(d, CHOOSE k \in bad : \A l \in bad : k <= l)
         THEN "unmatched closing bracket" ELSE "too deep"
    [] Len(d) <= MaxBody /\ bad = {} /\ Unterminated(d) -> "unterminated string"
    [] Len(d) <= MaxBody /\ bad = {} /\ ~Unterminated(d) ->
         IF Deeper(d, Len(d), 0) THEN "unmatched opening bracket" ELSE "valid"

-----------------------------------------------------------------------------
(* Properties. *)

\* No fault of the structure lies behind the scan: it reports one where it meets
\* it, and never reads on (validation.rs:61-72).
StopsAtOnce ==
  position > 0 => \A k \in 1..position - 1 : ~Deeper(data, k, max_depth) /\ ~Broken(data, k)

\* The scan gives the document what it deserves, first fault first, and serde is
\* handed only what is within both limits: no nesting that a string hides counts,
\* and none escapes the limit (validation.rs:25-34, 97-130).
VerdictIsRight ==
  /\ StopsAtOnce
  /\ result \notin {"none", "scanning"} =>
       IF result \in {"ok", "deserialization failed"} THEN Deserved(data, max_depth) = "valid"
       ELSE Deserved(data, max_depth) = result
=============================================================================
