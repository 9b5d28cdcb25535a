----------------------------- MODULE RoutingKey -----------------------------
(***************************************************************************)
(* Which patterns match which routing keys: the regular expression that    *)
(* MatchRoutingKey makes of a pattern, against the topic matching that the *)
(* broker routes by and the comments in MatchRoutingKey describe ("*" is   *)
(* one word, "#" any number of words).                                     *)
(*                                                                         *)
(* A message that the broker routes to the process but no pattern matches  *)
(* in MatchRoutingKey is dropped by topicHandleMessage.                    *)
(*                                                                         *)
(* Patterns and keys are sequences of words and words are sequences of     *)
(* characters, so that both grow by a word per step; the texts the code    *)
(* sees have a dot between two words.                                      *)
(***************************************************************************)
EXTENDS Naturals, Sequences, SequencesExt

CONSTANTS
  KeyWords,     \* words of a routing key
  MaxWords      \* bound: words in a pattern, and in a key

Star == <<"*">>
Hash == <<"#">>
PatternWords == KeyWords \cup {Star, Hash}

\* Characters with a meaning: for the broker, for MatchRoutingKey, or for
\* std::regex, which gets the words as they are; a line end is no "." of it.
Special ==
  {".", "*", "#", "\\", "^", "$", "+", "?", "|", "(", ")", "[", "]", "{", "}", "\n", "\r"}

\* Words of a routing key have at least one character, and none with a meaning.
ASSUME RoutingAssumption ==
  /\ MaxWords \in Nat
  /\ \A w \in KeyWords : w \in Seq(STRING) /\ w # << >> /\ ToSet(w) \cap Special = {}

\* The text of the first i words.
Texts(words) ==
  LET T[i \in 0 .. Len(words)] ==
        CASE i = 0 -> << >>
          [] i = 1 -> words[1]
          [] OTHER -> T[i - 1] \o <<".">> \o words[i]
  IN  T
Text(words) == Texts(words)[Len(words)]

-----------------------------------------------------------------------------
\* The client.

\* What one character of the pattern stands for in the regular expression:
\* which characters of the key it may consume, and how many of them.  A dot is
\* left as it is and means any character.
Allows(c, x) ==
  CASE c = "*" -> x # "."
    [] c = "#" -> TRUE
    [] c = "." -> TRUE
    [] OTHER -> x = c

\* Variant: "*" becomes "[^\.]", without the plus.
Repeats_Single(c, n) == c = "#" \/ n = 1

Repeats(c, n) ==
  CASE c = "*" -> n >= 1
    [] c = "#" -> TRUE
    [] OTHER -> n = 1

\* Where a match of c may end that begins behind the first h characters of k.
After(c, k, h) ==
  {j \in h .. Len(k) : Repeats(c, j - h) /\ \A x \in (h + 1) .. j : Allows(c, k[x])}

\* Where a match of the first i characters of p may end.
Ends(p, k) ==
  LET E[i \in 0 .. Len(p)] ==
        IF i = 0 THEN {0} ELSE UNION {After(p[i], k, h) : h \in E[i - 1]}
  IN  E

\* std::regex_match of the whole key k against the pattern p.
MatchRoutingKey(p, k) == Len(k) \in Ends(p, k)[Len(p)]

-----------------------------------------------------------------------------
\* The broker, on words.  fewest is what "#" must match at least.

WordsAfter(w, k, h, fewest) ==
  {j \in h .. Len(k) :
     CASE w = Hash -> j >= h + fewest
       [] w = Star -> j = h + 1
       [] OTHER -> j = h + 1 /\ k[j] = w}

WordEnds(p, k, fewest) ==
  LET E[i \in 0 .. Len(p)] ==
        IF i = 0 THEN {0} ELSE UNION {WordsAfter(p[i], k, h, fewest) : h \in E[i - 1]}
  IN  E

TopicMatch(p, k, fewest) == Len(k) \in WordEnds(p, k, fewest)[Len(p)]

-----------------------------------------------------------------------------
\* All patterns and keys of up to MaxWords words.

VARIABLES pattern, key

vars == <<pattern, key>>

Init ==
  /\ pattern \in {<<w>> : w \in PatternWords}
  /\ key \in {<<w>> : w \in KeyWords}

Next ==
  \/ /\ Len(pattern) < MaxWords
     /\ \E w \in PatternWords : pattern' = Append(pattern, w)
     /\ UNCHANGED key
  \/ /\ Len(key) < MaxWords
     /\ \E w \in KeyWords : key' = Append(key, w)
     /\ UNCHANGED pattern

Spec == Init /\ [][Next]_vars

-----------------------------------------------------------------------------
\* Properties.

Client == MatchRoutingKey(Text(pattern), Text(key))

\* A message that was routed because of a pattern meets the callback of that
\* pattern, as long as no "#" has to stand for no word at all.
RoutedIsMatched == TopicMatch(pattern, key, 1) => Client

\* "#": "zero or more words" (rabbitmqclient.cpp:401): the client matches where
\* "#" stands for no word, too.
HashMatchesZeroWords == TopicMatch(pattern, key, 0) => Client
=============================================================================
