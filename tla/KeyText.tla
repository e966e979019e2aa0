------------------------------- MODULE KeyText -------------------------------
(***************************************************************************)
(* How the packages write keys: the parts are percent-encoded and joined   *)
(* by a separator.  Texts are sequences of characters here, because it is  *)
(* their characters that could make two keys one.  They are well formed:   *)
(* of an unpaired surrogate encodeURIComponent makes an error, not a key.  *)
(***************************************************************************)
EXTENDS Naturals, SequencesExt

CONSTANTS
  Chars,    \* the characters of texts
  Plain,    \* those that encodeURIComponent leaves alone
  EscapeOf  \* what it writes for each of the others: the bytes of its UTF-8
            \* form, each as "%" and two digits

Separators == {":", "&", "=", "|", "@", "%"}

ASSUME CharsAssumption == Plain \subseteq Chars /\ Separators \subseteq Chars \ Plain

\* No character's UTF-8 form begins with that of another one.
ASSUME EscapesAssumption ==
  /\ EscapeOf \in [Chars \ Plain -> Seq(Plain \cup {"%"})]
  /\ \A c \in Chars \ Plain : EscapeOf[c] # <<>> /\ EscapeOf[c][1] = "%"
  /\ \A c, d \in Chars \ Plain : IsPrefix(EscapeOf[c], EscapeOf[d]) => c = d

Escaped(c) == IF c \in Plain THEN <<c>> ELSE EscapeOf[c]

EncodeURIComponent(s) == FlattenSeq([i \in DOMAIN s |-> Escaped(s[i])])

\* Array.join
JoinedBy(separator, parts) ==
  FlattenSeq([i \in DOMAIN parts |-> IF i = 1 THEN parts[i] ELSE <<separator>> \o parts[i]])

=============================================================================
