-------------------------------- MODULE Text --------------------------------
(***************************************************************************)
(* The string conversions of the worker.  A string is a sequence of         *)
(* characters; a character is one byte.  Special holds the characters       *)
(* outside [A-Za-z0-9._-] that the instances use.                           *)
(***************************************************************************)
EXTENDS Naturals, Sequences
LOCAL INSTANCE SequencesExt

\* Iterator::filter: the elements at the positions in I, in order.
Kept(s, I) == FlattenSeq([i \in DOMAIN s |-> IF i \in I THEN <<s[i]>> ELSE <<>>])

\* str::starts_with
StartsWith(s, p) == Len(p) <= Len(s) /\ \A i \in 1..Len(p) : s[i] = p[i]

\* str::ends_with
EndsWith(s, p) ==
    Len(p) <= Len(s) /\ \A i \in 1..Len(p) : s[Len(s) - Len(p) + i] = p[i]

\* str::contains
Occurs(p, s) ==
    \E n \in 0..(Len(s) - Len(p)) : \A i \in 1..Len(p) : s[n + i] = p[i]

\* str::split
Split(s, c) ==
    FoldLeft(LAMBDA acc, x : IF x = c THEN Append(acc, <<>>)
                             ELSE [acc EXCEPT ![Len(acc)] = Append(@, x)],
             <<<<>>>>, s)

Special == {" ", "%", "+", ",", "/", "="}

\* format!("{b:02X}")
Hex(c) ==
    CASE c = " " -> <<"2", "0">> [] c = "%" -> <<"2", "5">> [] c = "+" -> <<"2", "B">>
      [] c = "," -> <<"2", "C">> [] c = "/" -> <<"2", "F">> [] c = "=" -> <<"3", "D">>

\* Escapes the separators of a path only.
EncodeSegmentPath(value) ==
    FlattenSeq([i \in DOMAIN value |->
        IF value[i] \in {"/", "="} THEN <<"%">> \o Hex(value[i]) ELSE <<value[i]>>])

\* encode_segment
EncodeSegment(value) ==
    FlattenSeq([i \in DOMAIN value |->
        IF value[i] \in Special THEN <<"%">> \o Hex(value[i]) ELSE <<value[i]>>])

\* How an S3 event spells a key: like a query argument.
UrlEncode(key) ==
    FlattenSeq([i \in DOMAIN key |->
        CASE key[i] = " " -> <<"+">>
          [] key[i] \in Special \ {" ", "/"} -> <<"%">> \o Hex(key[i])
          [] OTHER -> <<key[i]>>])

\* The characters that the two digits after position i of s stand for.
Escaped(s, i) ==
    IF i + 2 <= Len(s) THEN {c \in Special : Hex(c) = <<s[i + 1], s[i + 2]>>} ELSE {}

\* Percent-decoding that takes a plus sign for itself.
UrlDecodePath(s) ==
    LET step(acc, i) ==
            IF acc.skip > 0 THEN [acc EXCEPT !.skip = @ - 1]
            ELSE IF s[i] = "%" /\ Escaped(s, i) # {}
            THEN [out |-> Append(acc.out, CHOOSE c \in Escaped(s, i) : TRUE), skip |-> 2]
            ELSE [acc EXCEPT !.out = Append(@, s[i])]
    IN  FoldLeft(step, [out |-> <<>>, skip |-> 0], [i \in DOMAIN s |-> i]).out

\* urldecode.  A percent sign that no two digits follow stands for itself.
UrlDecode(s) ==
    LET step(acc, i) ==
            IF acc.skip > 0 THEN [acc EXCEPT !.skip = @ - 1]
            ELSE IF s[i] = "%" /\ Escaped(s, i) # {}
            THEN [out |-> Append(acc.out, CHOOSE c \in Escaped(s, i) : TRUE), skip |-> 2]
            ELSE [acc EXCEPT !.out = Append(@, IF s[i] = "+" THEN " " ELSE s[i])]
    IN  FoldLeft(step, [out |-> <<>>, skip |-> 0], [i \in DOMAIN s |-> i]).out

=============================================================================
