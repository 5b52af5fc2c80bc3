----------------------------- MODULE TextsProofs ------------------------------
(***************************************************************************)
(* Proofs about Texts, for any paths, texts, arguments and menus:          *)
(*                                                                         *)
(*   canonicalize_path and GhettoURLDecode stay inside their arrays, and   *)
(*   the latter never overtakes itself (CanonicalizeInv, DecodeInv);       *)
(*                                                                         *)
(*   canonicalize_path's array is a stack whose height is the number of    *)
(*   names less the parents (StackInv), and ends up with the names that    *)
(*   no parent takes away;                                                 *)
(*                                                                         *)
(*   what GhettoURLDecode has written, and what it has still to read,      *)
(*   decoded, are always the whole text decoded (DecodedInv);              *)
(*                                                                         *)
(*   an argument's line has no line break, and splits into the escaped key *)
(*   and values, from which each comes back (LineTokens,                   *)
(*   DesanitizeSanitized, TransmitInv).                                    *)
(*                                                                         *)
(*   an option's line splits into a label, an inner part and a verb, each  *)
(*   of which is decoded to what it was (OptionIsParted); so parse_menu,   *)
(*   unfolded once for each level (ParseMenuUnfolds), makes of every line  *)
(*   the item it was written for (ItemIsParsed, MenuInv).                  *)
(*                                                                         *)
(* The recursive definitions of Texts are unfolded by RecursiveFunction,   *)
(* and what they say of every text is shown by induction on a measure, for *)
(* sets instead of predicates.                                             *)
(***************************************************************************)
EXTENDS Texts, SequenceTheorems, FiniteSetTheorems, WellFoundedInduction, TLAPS

-----------------------------------------------------------------------------
(* Recursive functions.  What a definition says of every argument follows  *)
(* by induction on a measure; that it can be unfolded at all, from the     *)
(* existence of a function that satisfies it.                              *)

LEMMA LeastNatural ==
    ASSUME NEW T, T \subseteq Nat, T # {}
    PROVE  \E n \in T : \A m \in T : n <= m
<1> DEFINE R == OpToRel(<, Nat)
<1>1. IsWellFoundedOn(R, Nat) BY NatLessThanWellFounded
<1>2. \A x, y \in Nat : <<x, y>> \in R <=> x < y BY DEF OpToRel
<1> HIDE DEF R
<1>3. \E x \in T : \A y \in T : ~ (<<y, x>> \in R) BY <1>1, WFMin
<1>4. PICK n \in T : \A m \in T : ~ (<<m, n>> \in R) BY <1>3
<1>5. ASSUME NEW m \in T PROVE n <= m
    <2>1. n \in Nat /\ m \in Nat OBVIOUS
    <2>2. ~ (m < n) BY <1>2, <1>4, <2>1
    <2> QED BY <2>1, <2>2
<1> QED BY <1>5

LEMMA Induction ==
    ASSUME NEW S, 0 \in S, \A n \in Nat : n \in S => n + 1 \in S
    PROVE  \A n \in Nat : n \in S
<1> DEFINE T == Nat \ S
<1>1. SUFFICES ASSUME T # {} PROVE FALSE OBVIOUS
<1>2. PICK n \in T : \A m \in T : n <= m BY <1>1, LeastNatural
<1>3. n # 0 /\ n - 1 \in Nat /\ n - 1 \in S BY <1>2
<1> QED BY <1>2, <1>3

LEMMA MeasureInduction ==
    ASSUME NEW D, NEW m \in [D -> Nat], NEW P,
           \A s \in D : (\A r \in D : m[r] < m[s] => r \in P) => s \in P
    PROVE  D \subseteq P
<1> DEFINE S == {n \in Nat : \A s \in D : m[s] < n => s \in P}
<1>1. 0 \in S OBVIOUS
<1>2. ASSUME NEW n \in Nat, n \in S PROVE n + 1 \in S
    <2> SUFFICES ASSUME NEW s \in D, m[s] < n + 1 PROVE s \in P OBVIOUS
    <2>1. ASSUME NEW r \in D, m[r] < m[s] PROVE r \in P
        <3>1. m[r] \in Nat /\ m[s] \in Nat OBVIOUS
        <3>2. m[r] < n BY <2>1, <3>1
        <3> QED BY <1>2, <3>2
    <2> QED BY <2>1
<1> HIDE DEF S
<1>3. \A n \in Nat : n \in S BY <1>1, <1>2, Induction
<1>4. ASSUME NEW s \in D PROVE s \in P
    <2>1. m[s] + 1 \in Nat /\ m[s] < m[s] + 1 OBVIOUS
    <2>2. m[s] + 1 \in S BY <1>3, <2>1
    <2> QED BY <2>1, <2>2 DEF S
<1> QED BY <1>4

\* B takes a function to the right-hand side of a recursive definition of it, which
\* applies it only where the measure is less.
Recurses(B, D, R, m, N) ==
    /\ R # {} /\ N \in Nat
    /\ m \in [D -> Nat] /\ \A s \in D : m[s] < N
    /\ B \in [[D -> R] -> [D -> R]]
    /\ \A g, h \in [D -> R] : \A s \in D :
           (\A r \in D : m[r] < m[s] => g[r] = h[r]) => B[g][s] = B[h][s]

LEMMA RecursiveFunction ==
    ASSUME NEW B, NEW D, NEW R, NEW m, NEW N, Recurses(B, D, R, m, N)
    PROVE  \E g \in [D -> R] : g = B[g]
<1> USE DEF Recurses
<1> DEFINE S == {n \in Nat : \E g \in [D -> R] : \A s \in D : m[s] < n => g[s] = B[g][s]}
<1>1. 0 \in S
    <2>1. PICK x : x \in R OBVIOUS
    <2>2. PICK g \in [D -> R] : g = [s \in D |-> x] BY <2>1
    <2>3. ASSUME NEW s \in D PROVE ~(m[s] < 0)
        <3>1. m[s] \in Nat OBVIOUS
        <3> QED BY <3>1
    <2> QED BY <2>2, <2>3
<1>2. ASSUME NEW n \in Nat, n \in S PROVE n + 1 \in S
    <2>1. PICK g \in [D -> R] : \A s \in D : m[s] < n => g[s] = B[g][s] BY <1>2
    <2>2. PICK h \in [D -> R] : h = B[g] OBVIOUS
    <2>3. ASSUME NEW s \in D, m[s] < n + 1 PROVE h[s] = B[h][s]
        <3>1. ASSUME NEW r \in D, m[r] < m[s] PROVE g[r] = h[r]
            <4>1. m[r] \in Nat /\ m[s] \in Nat OBVIOUS
            <4>2. m[r] < n BY <2>3, <3>1, <4>1
            <4> QED BY <2>1, <2>2, <4>2
        <3>2. B[g][s] = B[h][s] BY <3>1
        <3> QED BY <2>2, <3>2
    <2> QED BY <2>3
<1> HIDE DEF S
<1>3. N \in S BY <1>1, <1>2, Induction
<1>4. PICK g \in [D -> R] : \A s \in D : m[s] < N => g[s] = B[g][s] BY <1>3 DEF S
<1>5. B[g] \in [D -> R] /\ \A s \in D : g[s] = B[g][s] BY <1>4
<1> QED BY <1>5

LEMMA Cons1 ==
    ASSUME NEW S, NEW c \in S, NEW s \in Seq(S)
    PROVE  <<c>> \in Seq(S) /\ <<c>> \o s \in Seq(S)
<1>1. <<c>> \in Seq(S) OBVIOUS
<1> QED BY <1>1, ConcatProperties

-----------------------------------------------------------------------------
(* The indices. *)

\* The write index of canonicalize_path is ahead of the read index only before the
\* first component, which is empty.
CanonicalizeInv ==
    /\ input \in Paths
    /\ i \in 0..Len(input) /\ j \in Nat
    /\ j <= IF i = 0 THEN 1 ELSE i
    /\ DOMAIN buffer = 0..Len(input)

\* From the read index on, the buffer of GhettoURLDecode is the text it was given.
DecodeInv ==
    /\ input \in CodedTexts
    /\ i \in 0..Len(input) /\ j \in Nat /\ j <= i
    /\ DOMAIN buffer = 0..Len(input)
    /\ \A k \in i..(Len(input) - 1) : buffer[k] = input[k + 1]
    /\ buffer[Len(input)] = End \/ result # Null

TextInv ==
    \/ function = "canonicalize" /\ CanonicalizeInv
    \/ function = "decode" /\ DecodeInv
    \/ function \in {"transmit", "menu"} /\ i \in Nat /\ j \in Nat

LEMMA TextInvInit == TextInit => TextInv
<1>1. ASSUME NEW p \in Paths, CallCanonicalize(p) PROVE TextInv
    <2>1. Len(p) \in Nat BY PathsAreAbsolute
    <2>2. CanonicalizeInv BY <1>1, <2>1 DEF CallCanonicalize, Called, CanonicalizeInv
    <2> QED BY <1>1, <2>2 DEF CallCanonicalize, Called, TextInv
<1>2. ASSUME NEW s \in CodedTexts, CallDecode(s) PROVE TextInv
    <2>1. Len(s) \in Nat BY TextsAreCStrings
    <2>2. DecodeInv BY <1>2, <2>1 DEF CallDecode, Called, DecodeInv, End
    <2> QED BY <1>2, <2>2 DEF CallDecode, Called, TextInv
<1>3. ASSUME NEW a \in Arguments, CallTransmit(a) PROVE TextInv
    BY <1>3 DEF CallTransmit, Called, TextInv
<1>4. ASSUME NEW m \in Menus, CallMenu(m) PROVE TextInv
    BY <1>4 DEF CallMenu, Called, TextInv
<1> QED BY <1>1, <1>2, <1>3, <1>4 DEF TextInit

LEMMA CanonicalizeStep ==
    ASSUME CanonicalizeInv, function = "canonicalize", CanonicalizeNext \/ CanonicalizeReturn
    PROVE  CanonicalizeInv' /\ function' = "canonicalize"
<1>1. input \in Seq(STRING) /\ Len(input) \in Nat /\ Len(input) > 0 /\ input[1] = Empty
    BY PathsAreAbsolute DEF CanonicalizeInv
<1>2. CASE CanonicalizeNext
    <2>1. /\ i < Len(input) /\ i' = i + 1 /\ input' = input /\ function' = function
          /\ \/ j > 0 /\ j' = j - 1
             \/ j' = j
             \/ IsName(input[i + 1]) /\ j' = j + 1
          /\ DOMAIN buffer' = DOMAIN buffer
        BY <1>2 DEF CanonicalizeNext
    <2>2. i = 0 => ~IsName(input[i + 1]) BY <1>1 DEF IsName
    <2>3. i' \in 0..Len(input) /\ i' # 0 BY <1>1, <2>1 DEF CanonicalizeInv
    <2>4. j' \in Nat /\ j' <= i' BY <2>1, <2>2 DEF CanonicalizeInv
    <2> QED BY <2>1, <2>3, <2>4 DEF CanonicalizeInv
<1>3. CASE CanonicalizeReturn
    BY <1>3 DEF CanonicalizeReturn, Return, CanonicalizeInv
<1> QED BY <1>2, <1>3

LEMMA DecodeStep ==
    ASSUME DecodeInv, function = "decode",
           DecodePlain \/ DecodeEscape \/ DecodeFail \/ DecodeReturn
    PROVE  DecodeInv' /\ function' = "decode"
<1>1. /\ input \in Seq(STRING) /\ Len(input) \in Nat
      /\ \A k \in DOMAIN input : input[k] # End
    BY TextsAreCStrings DEF DecodeInv, End
<1>2. /\ i \in 0..Len(input) /\ j \in Nat /\ j <= i
      /\ DOMAIN buffer = 0..Len(input)
      /\ \A k \in i..(Len(input) - 1) : buffer[k] = input[k + 1]
    BY DEF DecodeInv
<1>3. result = Null => buffer[Len(input)] = End BY DEF DecodeInv
\* The read index is at the end of the text exactly when it is at a NUL.
<1>4. result = Null => \A k \in i..Len(input) : buffer[k] # End <=> k < Len(input)
    <2>1. ASSUME NEW k \in i..Len(input), k < Len(input) PROVE buffer[k] # End
        <3>1. k \in i..(Len(input) - 1) /\ k + 1 \in DOMAIN input BY <1>1, <1>2, <2>1
        <3> QED BY <1>1, <1>2, <3>1
    <2>2. ASSUME NEW k \in i..Len(input), ~(k < Len(input)) PROVE k = Len(input)
        BY <1>1, <1>2, <2>2
    <2> QED BY <1>3, <2>1, <2>2
\* A turn that puts one character and reads on.
<1>5. ASSUME NEW c, NEW n \in {1, 3}, Put(c), i' = i + n, i + n <= Len(input),
             UNCHANGED <<function, input, result>>, result = Null
      PROVE  DecodeInv' /\ function' = "decode"
    <2>1. i' \in 0..Len(input) /\ j' \in Nat /\ j' <= i' /\ j < Len(input)
        BY <1>1, <1>2, <1>5 DEF Put
    <2>2. DOMAIN buffer' = 0..Len(input) BY <1>2, <1>5 DEF Put
    <2>3. \A k \in i'..Len(input) : buffer'[k] = buffer[k]
        BY <1>1, <1>2, <1>5 DEF Put
    <2>4. \A k \in i'..(Len(input) - 1) : buffer'[k] = input[k + 1]
        BY <1>1, <1>2, <1>5, <2>3
    <2>5. buffer'[Len(input)] = End BY <1>1, <1>3, <1>5, <2>1, <2>3
    <2> QED BY <1>5, <2>1, <2>2, <2>4, <2>5 DEF DecodeInv
<1>6. CASE DecodePlain
    <2>1. i + 1 <= Len(input) /\ result = Null
        BY <1>1, <1>2, <1>4, <1>6 DEF DecodePlain, Decoding, Running
    <2> QED BY <1>5, <1>6, <2>1 DEF DecodePlain
<1>7. CASE DecodeEscape
    <2>1. result = Null /\ buffer[i] # End /\ buffer[i + 1] # End /\ buffer[i + 2] # End
        BY <1>7 DEF DecodeEscape, Decoding, Running, Complete
    <2>2. i + 1 <= Len(input) BY <1>1, <1>2, <1>4, <2>1
    <2>3. i + 2 <= Len(input) BY <1>1, <1>2, <1>4, <2>1, <2>2
    <2>4. i + 3 <= Len(input) BY <1>1, <1>2, <1>4, <2>1, <2>3
    <2> QED BY <1>5, <1>7, <2>1, <2>4 DEF DecodeEscape
<1>8. CASE DecodeFail
    <2>1. UNCHANGED <<function, input, i, j, buffer>> BY <1>8 DEF DecodeFail, Return
    <2>2. buffer[Len(input)] = End BY <1>3, <1>8 DEF DecodeFail, Decoding, Running
    <2> QED BY <2>1, <2>2 DEF DecodeInv
<1>9. CASE DecodeReturn
    <2>1. /\ result = Null /\ ~Decoding /\ UNCHANGED <<function, input, i, j>>
          /\ \/ j < Len(input) /\ buffer' = [buffer EXCEPT ![j] = End]
             \/ j = Len(input) /\ buffer' = buffer
        BY <1>9 DEF DecodeReturn, Running, Return
    <2>2. i = Len(input)
        <3>1. j = Len(input) \/ buffer[i] = End
            BY <1>1, <1>2, <2>1 DEF Decoding, Running
        <3> QED BY <1>1, <1>2, <1>4, <2>1, <3>1
    <2>3. DOMAIN buffer' = 0..Len(input) /\ buffer'[Len(input)] = End
        BY <1>1, <1>2, <1>3, <2>1
    <2>4. \A k \in i'..(Len(input) - 1) : buffer'[k] = input[k + 1]
        BY <1>1, <2>1, <2>2
    <2> QED BY <2>1, <2>3, <2>4 DEF DecodeInv
<1> QED BY <1>6, <1>7, <1>8, <1>9

LEMMA TextInvariant == TextSpec => []TextInv
<1>1. TextInv /\ [TextNext]_textVars => TextInv'
    <2> SUFFICES ASSUME TextInv, [TextNext]_textVars PROVE TextInv' OBVIOUS
    <2>1. CASE CanonicalizeNext \/ CanonicalizeReturn
        <3>1. function = "canonicalize" /\ CanonicalizeInv
            BY <2>1 DEF CanonicalizeNext, CanonicalizeReturn, Running, TextInv
        <3> QED BY <2>1, <3>1, CanonicalizeStep DEF TextInv
    <2>2. CASE DecodePlain \/ DecodeEscape \/ DecodeFail \/ DecodeReturn
        <3>1. function = "decode" /\ DecodeInv
            BY <2>2 DEF DecodePlain, DecodeEscape, DecodeFail, DecodeReturn, Decoding, Running,
                TextInv
        <3> QED BY <2>2, <3>1, DecodeStep DEF TextInv
    <2>3. CASE WriteArgument \/ ParseArgument \/ GetFileItems
        <3>1. /\ function \in {"transmit", "menu"} /\ function' = function
              /\ i' \in {i, 1} /\ j' = j
            BY <2>3 DEF WriteArgument, ParseArgument, GetFileItems, Running, Return
        <3> QED BY <3>1 DEF TextInv
    <2>4. CASE UNCHANGED textVars
        BY <2>4 DEF textVars, TextInv, CanonicalizeInv, DecodeInv
    <2> QED BY <2>1, <2>2, <2>3, <2>4 DEF TextNext
<1> QED BY <1>1, TextInvInit, PTL DEF TextSpec

(* Each of the four calls works on an input of its kind, on an array that keeps
   its length, and with indices that are never negative. *)
THEOREM TextTypeCorrect == TextSpec => []TextTypeOK
<1>1. TextInv => TextTypeOK
    BY PathsAreAbsolute, TextsAreCStrings DEF TextInv, TextTypeOK, CanonicalizeInv, DecodeInv
<1> QED BY <1>1, TextInvariant, PTL

(* canonicalize_path's array of one entry more than there are components holds all
   it writes, and GhettoURLDecode's write index never overtakes its read index. *)
THEOREM IndicesStayInside == TextSpec => []BuffersSuffice
<1>1. TextInv => BuffersSuffice
    <2> SUFFICES ASSUME TextInv PROVE BuffersSuffice OBVIOUS
    <2>1. ASSUME function = "canonicalize" PROVE j \in DOMAIN buffer
        <3>1. CanonicalizeInv BY <2>1 DEF TextInv
        <3>2. Len(input) \in Nat /\ Len(input) > 0
            BY <3>1, PathsAreAbsolute DEF CanonicalizeInv
        <3> QED BY <3>1, <3>2 DEF CanonicalizeInv
    <2>2. ASSUME function = "decode"
          PROVE  /\ i \in DOMAIN buffer /\ j <= i
                 /\ \A k \in i..(Len(input) - 1) : result = Null => buffer[k] = input[k + 1]
        <3>1. DecodeInv BY <2>2 DEF TextInv
        <3> QED BY <3>1 DEF DecodeInv
    <2> QED BY <2>1, <2>2 DEF BuffersSuffice
<1> QED BY <1>1, TextInvariant, PTL

-----------------------------------------------------------------------------
(* GhettoURLDecode. *)

DecodedAt(g, t, k) ==
    IF k > Len(t) THEN <<>>
    ELSE IF t[k] = "%" THEN <<Unhex(t[k + 1], t[k + 2])>> \o g[k + 3]
    ELSE <<t[k]>> \o g[k + 1]

LEMMA UnhexIsCharacter == \A a, b : Unhex(a, b) \in STRING \ {End}
<1> SUFFICES ASSUME NEW a, NEW b PROVE Unhex(a, b) \in STRING \ {End} OBVIOUS
<1>1. Unhex(a, b) \in {"~", "|", "%", "?"} BY DEF Unhex
<1>2. {"~", "|", "%", "?"} \subseteq STRING BY CharactersAreStrings
<1>3. "NUL" \notin {"~", "|", "%", "?"} OBVIOUS
<1> QED BY <1>1, <1>2, <1>3 DEF End

LEMMA DecodedFromUnfolds ==
    ASSUME NEW t \in Seq(STRING)
    PROVE  \A k \in 1..(Len(t) + 3) :
               /\ DecodedFrom(t)[k] = DecodedAt(DecodedFrom(t), t, k)
               /\ DecodedFrom(t)[k] \in Seq(STRING)
<1> DEFINE D == 1..(Len(t) + 3)
           R == Seq(STRING)
           m == [k \in D |-> Len(t) + 3 - k]
           B == [g \in [D -> R] |-> [k \in D |-> DecodedAt(g, t, k)]]
<1>0. Len(t) \in Nat OBVIOUS
<1>1. ASSUME NEW g, NEW k \in D, \A r \in D : r > k => g[r] \in R
      PROVE  DecodedAt(g, t, k) \in R
    <2>1. CASE k > Len(t) BY <2>1 DEF DecodedAt
    <2>2. CASE k <= Len(t) /\ t[k] = "%"
        <3>1. g[k + 3] \in R BY <1>0, <1>1, <2>2
        <3>2. <<Unhex(t[k + 1], t[k + 2])>> \o g[k + 3] \in R BY <3>1, UnhexIsCharacter, Cons1
        <3>3. DecodedAt(g, t, k) = <<Unhex(t[k + 1], t[k + 2])>> \o g[k + 3]
            <4>1. ~(k > Len(t)) BY <1>0, <2>2
            <4> QED BY <2>2, <4>1, Zenon DEF DecodedAt
        <3> QED BY <3>2, <3>3
    <2>3. CASE k <= Len(t) /\ t[k] # "%"
        <3>1. g[k + 1] \in R BY <1>0, <1>1, <2>3
        <3>2. t[k] \in STRING BY <1>0, <2>3
        <3>3. <<t[k]>> \o g[k + 1] \in R BY <3>1, <3>2, Cons1
        <3>4. DecodedAt(g, t, k) = <<t[k]>> \o g[k + 1]
            <4>1. ~(k > Len(t)) BY <1>0, <2>3
            <4> QED BY <2>3, <4>1, Zenon DEF DecodedAt
        <3> QED BY <3>3, <3>4
    <2> QED BY <1>0, <2>1, <2>2, <2>3
<1>2. ASSUME NEW g, NEW h, NEW k \in D, \A r \in D : r > k => g[r] = h[r]
      PROVE  DecodedAt(g, t, k) = DecodedAt(h, t, k)
    <2>1. k <= Len(t) => g[k + 1] = h[k + 1] /\ g[k + 3] = h[k + 3] BY <1>0, <1>2
    <2> QED BY <1>0, <2>1 DEF DecodedAt
<1>3. m \in [D -> Nat] /\ \A s \in D : m[s] < Len(t) + 3 BY <1>0
<1>4. \A r, s \in D : m[r] < m[s] <=> r > s BY <1>0
<1>5. R # {} OBVIOUS
<1> HIDE DEF m, D, R
<1>6. Recurses(B, D, R, m, Len(t) + 3)
    <2>1. B \in [[D -> R] -> [D -> R]] BY <1>1
    <2>2. ASSUME NEW g \in [D -> R], NEW h \in [D -> R], NEW s \in D,
                 \A r \in D : m[r] < m[s] => g[r] = h[r]
          PROVE  B[g][s] = B[h][s]
        BY <1>2, <1>4, <2>2
    <2>3. Len(t) + 3 \in Nat BY <1>0
    <2> HIDE DEF B
    <2> QED BY <1>3, <1>5, <2>1, <2>2, <2>3 DEF Recurses
<1>7. \E g \in [D -> R] : g = B[g]
    <2> HIDE DEF B
    <2> QED BY <1>6, RecursiveFunction
<1>9. \E g : g = [s \in D |-> DecodedAt(g, t, s)] BY <1>7
<1>10. DecodedFrom(t) = CHOOSE g : g = [s \in D |-> DecodedAt(g, t, s)]
    BY DEF DecodedFrom, DecodedAt, D
<1>11. DecodedFrom(t) = [s \in D |-> DecodedAt(DecodedFrom(t), t, s)] BY <1>9, <1>10
<1> HIDE DEF B
<1>12. \A s \in D : DecodedFrom(t)[s] = DecodedAt(DecodedFrom(t), t, s) BY <1>11
<1> DEFINE P == {k \in D : DecodedFrom(t)[k] \in R}
<1>13. D \subseteq P
    <2>1. \A s \in D : (\A r \in D : m[r] < m[s] => r \in P) => s \in P BY <1>1, <1>4, <1>12
    <2> HIDE DEF P
    <2> QED BY <1>3, <2>1, MeasureInduction
<1> QED BY <1>12, <1>13 DEF D, R

WellFormedAt(g, t, k) ==
    \/ k > Len(t)
    \/ t[k] # "%" /\ g[k + 1]
    \/ t[k] = "%" /\ k + 2 <= Len(t) /\ g[k + 3]

LEMMA WellFormedFromUnfolds ==
    ASSUME NEW t \in Seq(STRING)
    PROVE  \A k \in 1..(Len(t) + 3) :
               WellFormedFrom(t)[k] = WellFormedAt(WellFormedFrom(t), t, k)
<1> DEFINE D == 1..(Len(t) + 3)
           m == [k \in D |-> Len(t) + 3 - k]
           B == [g \in [D -> BOOLEAN] |-> [k \in D |-> WellFormedAt(g, t, k)]]
<1>0. Len(t) \in Nat OBVIOUS
<1>1. ASSUME NEW g, NEW k PROVE WellFormedAt(g, t, k) \in BOOLEAN BY DEF WellFormedAt
<1>2. ASSUME NEW g, NEW h, NEW k \in D, \A r \in D : r > k => g[r] = h[r]
      PROVE  WellFormedAt(g, t, k) = WellFormedAt(h, t, k)
    <2>1. k <= Len(t) => g[k + 1] = h[k + 1] /\ g[k + 3] = h[k + 3] BY <1>0, <1>2
    <2> QED BY <1>0, <2>1 DEF WellFormedAt
<1>3. m \in [D -> Nat] /\ \A s \in D : m[s] < Len(t) + 3 BY <1>0
<1>4. \A r, s \in D : m[r] < m[s] <=> r > s BY <1>0
<1> HIDE DEF m, D
<1>5. Recurses(B, D, BOOLEAN, m, Len(t) + 3)
    <2>1. B \in [[D -> BOOLEAN] -> [D -> BOOLEAN]] BY <1>1
    <2>2. ASSUME NEW g \in [D -> BOOLEAN], NEW h \in [D -> BOOLEAN], NEW s \in D,
                 \A r \in D : m[r] < m[s] => g[r] = h[r]
          PROVE  B[g][s] = B[h][s]
        BY <1>2, <1>4, <2>2
    <2>3. Len(t) + 3 \in Nat BY <1>0
    <2>4. BOOLEAN # {}
        <3>1. TRUE \in BOOLEAN OBVIOUS
        <3> QED BY <3>1
    <2> HIDE DEF B
    <2> QED BY <1>3, <2>1, <2>2, <2>3, <2>4 DEF Recurses
<1>7. \E g \in [D -> BOOLEAN] : g = B[g]
    <2> HIDE DEF B
    <2> QED BY <1>5, RecursiveFunction
<1>8. \E g : g = [s \in D |-> WellFormedAt(g, t, s)] BY <1>7
<1>9. WellFormedFrom(t) = CHOOSE g : g = [s \in D |-> WellFormedAt(g, t, s)]
    BY DEF WellFormedFrom, WellFormedAt, D
<1>10. WellFormedFrom(t) = [s \in D |-> WellFormedAt(WellFormedFrom(t), t, s)] BY <1>8, <1>9
<1> QED BY <1>10 DEF D

\* What GhettoURLDecode has written.
Written == [k \in 1..j |-> buffer[k - 1]]

\* What has been written, and what is still to be read, decoded, are the whole text
\* decoded.
DecodedInv ==
    WellFormed(input) =>
        /\ WellFormedFrom(input)[i + 1]
        /\ \A k \in 0..(j - 1) : buffer[k] \in STRING \ {End}
        /\ Decoded(input) = Written \o DecodedFrom(input)[i + 1]
        /\ result # Null => /\ i = Len(input) /\ buffer[j] = End
                            /\ result # Rejected => result = j

LEMMA DecodedInvInit ==
    ASSUME NEW s \in CodedTexts, CallDecode(s)
    PROVE  DecodedInv
<1>1. input = s /\ i = 0 /\ j = 0 /\ result = Null BY DEF CallDecode, Called
<1>2. input \in Seq(STRING) /\ Len(input) \in Nat BY <1>1, TextsAreCStrings
<1>3. DecodedFrom(input)[1] \in Seq(STRING) BY <1>2, DecodedFromUnfolds
<1>4. Written = <<>> BY <1>1 DEF Written
<1>5. <<>> \o DecodedFrom(input)[1] = DecodedFrom(input)[1] BY <1>3, ConcatEmptySeq
<1>6. Decoded(input) = Written \o DecodedFrom(input)[i + 1]
    BY <1>1, <1>4, <1>5 DEF Decoded
<1>7. WellFormed(input) => WellFormedFrom(input)[i + 1] BY <1>1 DEF WellFormed
<1> QED BY <1>1, <1>6, <1>7 DEF DecodedInv

\* One more character.
LEMMA WrittenGrows ==
    ASSUME DecodeInv, \A k \in 0..(j - 1) : buffer[k] \in STRING \ {End},
           NEW c \in STRING \ {End}, Put(c), j < Len(input), Len(input) \in Nat,
           NEW rest \in Seq(STRING)
    PROVE  /\ \A k \in 0..(j' - 1) : buffer'[k] \in STRING \ {End}
           /\ Written' \o rest = Written \o (<<c>> \o rest)
<1>1. /\ j \in Nat /\ DOMAIN buffer = 0..Len(input)
      /\ j' = j + 1 /\ buffer' = [buffer EXCEPT ![j] = c]
    BY DEF DecodeInv, Put
<1>2. \A k \in 0..(j' - 1) : buffer'[k] = IF k = j THEN c ELSE buffer[k] BY <1>1
<1>3. \A k \in 0..(j' - 1) : buffer'[k] \in STRING \ {End} BY <1>1, <1>2
<1>4. Written \in Seq(STRING) /\ Len(Written) = j BY <1>1 DEF Written
<1>5. Written' = Append(Written, c)
    <2>1. Written' = [k \in 1..(j + 1) |-> buffer'[k - 1]] BY <1>1 DEF Written
    <2>2. Append(Written, c) = [k \in 1..(j + 1) |-> IF k = j + 1 THEN c ELSE Written[k]]
        BY <1>1, <1>4, SMTT(30)
    <2>3. ASSUME NEW k \in 1..(j + 1)
          PROVE  buffer'[k - 1] = IF k = j + 1 THEN c ELSE Written[k]
        <3>1. k - 1 \in 0..(j' - 1) BY <1>1
        <3>2. buffer'[k - 1] = IF k - 1 = j THEN c ELSE buffer[k - 1] BY <1>2, <3>1
        <3>3. k # j + 1 => Written[k] = buffer[k - 1] BY <1>1 DEF Written
        <3> QED BY <1>1, <3>2, <3>3
    <2> HIDE DEF Written
    <2> QED BY <2>1, <2>2, <2>3
<1>6. <<c>> \in Seq(STRING) /\ Append(Written, c) = Written \o <<c>>
    <2>0. c \in STRING OBVIOUS
    <2>1. <<c>> \in Seq(STRING) BY <2>0, Cons1
    <2>2. Append(Written, c) = Written \o <<c>> BY <1>4, <2>0, AppendIsConcat
    <2> QED BY <2>1, <2>2
<1>7. (Written \o <<c>>) \o rest = Written \o (<<c>> \o rest)
    BY <1>4, <1>6, ConcatAssociative
<1> QED BY <1>3, <1>5, <1>6, <1>7

LEMMA DecodedTurn ==
    ASSUME DecodeInv, DecodedInv, DecodePlain \/ DecodeEscape, result = Null
    PROVE  DecodedInv'
<1> DEFINE F == DecodedFrom(input)
           W == WellFormedFrom(input)
<1>1. /\ input \in Seq(STRING) /\ Len(input) \in Nat
      /\ \A k \in DOMAIN input : input[k] # End
      /\ i \in 0..Len(input) /\ j \in Nat /\ j < Len(input)
      /\ \A k \in i..(Len(input) - 1) : buffer[k] = input[k + 1]
      /\ buffer[Len(input)] = End /\ buffer[i] # End
      /\ input' = input /\ result' = result
    BY TextsAreCStrings DEF DecodeInv, End, DecodePlain, DecodeEscape, Decoding
<1>2. i < Len(input) /\ i + 1 \in 1..Len(input) /\ buffer[i] = input[i + 1] BY <1>1
<1> SUFFICES ASSUME WellFormed(input) PROVE DecodedInv' BY <1>1 DEF DecodedInv
<1>3. /\ W[i + 1]
      /\ \A k \in 0..(j - 1) : buffer[k] \in STRING \ {End}
      /\ Decoded(input) = Written \o F[i + 1]
    BY DEF DecodedInv
<1>4. i + 1 \in 1..(Len(input) + 3) BY <1>1, <1>2
<1>5. W[i + 1] = WellFormedAt(W, input, i + 1) BY <1>1, <1>4, WellFormedFromUnfolds
<1>6. F[i + 1] = DecodedAt(F, input, i + 1) BY <1>1, <1>4, DecodedFromUnfolds
<1> HIDE DEF F, W
\* The step, once it is known what it puts and how far it reads.
<1>7. ASSUME NEW c \in STRING \ {End}, NEW n \in {1, 3}, Put(c), i' = i + n,
             i + 1 + n \in 1..(Len(input) + 3),
             W[i + 1 + n], F[i + 1] = <<c>> \o F[i + 1 + n]
      PROVE  DecodedInv'
    <2>1. F[i + 1 + n] \in Seq(STRING) BY <1>1, <1>7, DecodedFromUnfolds DEF F
    <2>2. /\ \A k \in 0..(j' - 1) : buffer'[k] \in STRING \ {End}
          /\ Written' \o F[i + 1 + n] = Written \o (<<c>> \o F[i + 1 + n])
        BY <1>1, <1>3, <1>7, <2>1, WrittenGrows
    <2>3. Decoded(input) = Written' \o F[i + 1 + n] BY <1>3, <1>7, <2>2
    <2>4. i' + 1 = i + 1 + n BY <1>1, <1>7
    <2>5. /\ F[i + 1 + n] = DecodedFrom(input')[i' + 1]
          /\ W[i + 1 + n] = WellFormedFrom(input')[i' + 1]
          /\ Decoded(input') = Decoded(input)
        BY <1>1, <2>4 DEF F, W
    <2>6. result' = Null BY <1>1
    <2> QED BY <1>7, <2>2, <2>3, <2>5, <2>6 DEF DecodedInv
<1>8. CASE DecodePlain
    <2>1. buffer[i] # "%" /\ Put(buffer[i]) /\ i' = i + 1 BY <1>8 DEF DecodePlain
    <2>2. W[i + 2]
        <3>1. ~(i + 1 > Len(input)) /\ i + 1 + 1 = i + 2 BY <1>1, <1>2
        <3> QED BY <1>2, <1>3, <1>5, <2>1, <3>1 DEF WellFormedAt
    <2>3. F[i + 1] = <<buffer[i]>> \o F[i + 2]
        <3>1. ~(i + 1 > Len(input)) /\ i + 1 + 1 = i + 2 BY <1>1, <1>2
        <3> QED BY <1>2, <1>6, <2>1, <3>1 DEF DecodedAt
    <2>4. buffer[i] \in STRING \ {End} BY <1>1, <1>2
    <2>5. i + 1 + 1 = i + 2 /\ i + 2 \in 1..(Len(input) + 3) BY <1>1, <1>2
    <2> QED BY <1>7, <2>1, <2>2, <2>3, <2>4, <2>5
<1>9. CASE DecodeEscape
    <2> DEFINE c == Unhex(buffer[i + 1], buffer[i + 2])
    <2>1. buffer[i] = "%" /\ Put(c) /\ i' = i + 3 BY <1>9 DEF DecodeEscape
    <2>2. i + 1 + 2 <= Len(input) /\ W[i + 4]
        <3>1. ~(i + 1 > Len(input)) /\ i + 1 + 3 = i + 4 BY <1>1, <1>2
        <3> QED BY <1>2, <1>3, <1>5, <2>1, <3>1 DEF WellFormedAt
    <2>3. buffer[i + 1] = input[i + 1 + 1] /\ buffer[i + 2] = input[i + 1 + 2]
        <3>1. i + 1 \in i..(Len(input) - 1) /\ i + 2 \in i..(Len(input) - 1)
              /\ i + 1 + 2 = i + 2 + 1
            BY <1>1, <2>2
        <3> QED BY <1>1, <3>1
    <2>4. F[i + 1] = <<c>> \o F[i + 4]
        <3>1. ~(i + 1 > Len(input)) /\ i + 1 + 3 = i + 4 BY <1>1, <1>2
        <3> QED BY <1>2, <1>6, <2>1, <2>3, <3>1 DEF DecodedAt
    <2>5. c \in STRING \ {End} BY UnhexIsCharacter
    <2>6. i + 1 + 3 = i + 4 /\ i + 4 \in 1..(Len(input) + 3) BY <1>1, <1>2
    <2> HIDE DEF c
    <2> QED BY <1>7, <2>1, <2>2, <2>4, <2>5, <2>6
<1> QED BY <1>8, <1>9

\* An escape that is cut off is found only in a text that has one.
LEMMA DecodedFailing ==
    ASSUME DecodeInv, DecodedInv, DecodeFail
    PROVE  ~WellFormed(input)
<1> SUFFICES ASSUME WellFormed(input) PROVE FALSE OBVIOUS
<1>1. /\ input \in Seq(STRING) /\ Len(input) \in Nat
      /\ \A k \in DOMAIN input : input[k] # End
      /\ i \in 0..Len(input)
      /\ \A k \in i..(Len(input) - 1) : buffer[k] = input[k + 1]
      /\ buffer[Len(input)] = End /\ buffer[i] = "%" /\ buffer[i] # End /\ ~Complete
    BY TextsAreCStrings DEF DecodeInv, End, DecodeFail, Decoding, Running
<1>2. i < Len(input) /\ i + 1 \in 1..Len(input) /\ buffer[i] = input[i + 1] BY <1>1
<1>3. i + 1 \in 1..(Len(input) + 3) /\ ~(i + 1 > Len(input)) BY <1>1, <1>2
<1>4. WellFormedFrom(input)[i + 1] BY DEF DecodedInv
<1>5. WellFormedAt(WellFormedFrom(input), input, i + 1)
    BY <1>1, <1>3, <1>4, WellFormedFromUnfolds
<1>6. i + 1 + 2 <= Len(input) BY <1>1, <1>2, <1>3, <1>5 DEF WellFormedAt
<1>7. i + 1 \in i..(Len(input) - 1) /\ i + 2 \in i..(Len(input) - 1)
      /\ i + 1 + 1 \in DOMAIN input /\ i + 2 + 1 \in DOMAIN input
    BY <1>1, <1>6
<1>8. buffer[i + 1] # End /\ buffer[i + 2] # End BY <1>1, <1>7
<1> QED BY <1>1, <1>8 DEF Complete

LEMMA DecodedEnds ==
    ASSUME DecodeInv, DecodedInv, DecodeReturn
    PROVE  DecodedInv'
<1>1. /\ input \in Seq(STRING) /\ Len(input) \in Nat
      /\ \A k \in DOMAIN input : input[k] # End
      /\ i \in 0..Len(input) /\ j \in Nat /\ j <= i /\ DOMAIN buffer = 0..Len(input)
      /\ \A k \in i..(Len(input) - 1) : buffer[k] = input[k + 1]
      /\ buffer[Len(input)] = End
    BY TextsAreCStrings DEF DecodeInv, End, DecodeReturn, Running
<1>2. /\ UNCHANGED <<function, input, i, j>> /\ ~Decoding
      /\ \/ j < Len(input) /\ buffer' = [buffer EXCEPT ![j] = End] /\ result' = j
         \/ j = Len(input) /\ buffer' = buffer /\ result' = Rejected
    BY DEF DecodeReturn, Return
<1>3. i = Len(input)
    <2>1. ASSUME i < Len(input) PROVE FALSE
        <3>1. i \in i..(Len(input) - 1) /\ i + 1 \in DOMAIN input BY <1>1, <2>1
        <3>2. buffer[i] # End /\ j < Len(input) BY <1>1, <2>1, <3>1
        <3> QED BY <1>2, <3>2 DEF Decoding, DecodeReturn
    <2> QED BY <1>1, <2>1
<1> SUFFICES ASSUME WellFormed(input) PROVE DecodedInv' BY <1>2 DEF DecodedInv
<1>4. /\ WellFormedFrom(input)[i + 1]
      /\ \A k \in 0..(j - 1) : buffer[k] \in STRING \ {End}
      /\ Decoded(input) = Written \o DecodedFrom(input)[i + 1]
    BY DEF DecodedInv
<1>5. /\ buffer'[j] = End
      /\ \A k \in 0..(j - 1) : buffer'[k] = buffer[k]
    BY <1>1, <1>2
<1>6. Written' = Written
    <2>1. \A k \in 1..j : buffer'[k - 1] = buffer[k - 1] BY <1>1, <1>5
    <2>2. Written' = [k \in 1..j |-> buffer'[k - 1]] BY <1>2 DEF Written
    <2> QED BY <2>1, <2>2 DEF Written
<1>7. result' # Rejected => result' = j' BY <1>2
<1> QED BY <1>2, <1>3, <1>4, <1>5, <1>6, <1>7 DEF DecodedInv

\* The caller finds what has been written, and that is all.
LEMMA DecodedIsReturned ==
    ASSUME DecodeInv, DecodedInv, result # Null, WellFormed(input)
    PROVE  /\ CString = Decoded(input)
           /\ result # Rejected => result = Len(CString)
<1>1. /\ input \in Seq(STRING) /\ Len(input) \in Nat
      /\ j \in Nat /\ j <= i /\ DOMAIN buffer = 0..Len(input)
    BY TextsAreCStrings DEF DecodeInv
<1>2. /\ i = Len(input) /\ buffer[j] = End /\ (result # Rejected => result = j)
      /\ \A k \in 0..(j - 1) : buffer[k] \in STRING \ {End}
      /\ Decoded(input) = Written \o DecodedFrom(input)[i + 1]
    BY DEF DecodedInv
<1>3. CString = Written
    <2> DEFINE Ends(e) == buffer[e] = End /\ \A k \in 0..(e - 1) : buffer[k] # End
               end == CHOOSE e \in DOMAIN buffer : Ends(e)
    <2>1. j \in DOMAIN buffer /\ Ends(j) BY <1>1, <1>2
    <2>2. end \in DOMAIN buffer /\ Ends(end) BY <2>1
    <2>3. end = j
        <3>1. end \in Nat BY <1>1, <2>2
        <3>2. ~(end < j) BY <1>1, <2>1, <2>2, <3>1
        <3>3. ~(j < end) BY <1>1, <2>1, <2>2, <3>1
        <3> QED BY <1>1, <3>1, <3>2, <3>3
    <2>4. CString = [k \in 1..end |-> buffer[k - 1]] BY DEF CString
    <2> HIDE DEF end
    <2> QED BY <2>3, <2>4 DEF Written
<1>4. DecodedFrom(input)[i + 1] = <<>>
    <2>1. i + 1 \in 1..(Len(input) + 3) /\ i + 1 > Len(input) BY <1>1, <1>2
    <2> QED BY <1>1, <2>1, DecodedFromUnfolds DEF DecodedAt
<1>5. Written \in Seq(STRING) /\ Len(Written) = j BY <1>1, <1>2 DEF Written
<1>6. Written \o <<>> = Written BY <1>5, ConcatEmptySeq
<1> QED BY <1>2, <1>3, <1>4, <1>5, <1>6

-----------------------------------------------------------------------------
(* canonicalize_path.  The height of a place in the path is how deep below the *)
(* root it is; the array is a stack, and as long as the root is not lost a     *)
(* name is kept at the index that is its height.                               *)

Delta(element) == IF IsName(element) THEN 1 ELSE IF element = ".." THEN -1 ELSE 0

LEMMA PathIs ==
    ASSUME NEW p \in Paths
    PROVE  p \in Seq(STRING) /\ Len(p) \in Nat /\ Len(p) > 0 /\ p[1] = Empty
           /\ DOMAIN p = 1..Len(p)
BY PathsAreAbsolute

LEMMA GainIs ==
    ASSUME NEW p, NEW a \in Nat, NEW b \in Nat, a <= b + 1
    PROVE  /\ Gain(p, a, b) \in Int
           /\ Gain(p, b + 1, b) = 0
           /\ Gain(p, a, b + 1) = Gain(p, a, b) + Delta(p[b + 1])
<1> DEFINE N(m) == {k \in a..m : IsName(p[k])}
           U(m) == {k \in a..m : p[k] = ".."}
<1>1. ASSUME NEW m \in Nat
      PROVE  /\ IsFiniteSet(N(m)) /\ Cardinality(N(m)) \in Nat
             /\ IsFiniteSet(U(m)) /\ Cardinality(U(m)) \in Nat
    <2>1. IsFiniteSet(a..m) BY FS_Interval
    <2>2. N(m) \in SUBSET (a..m) /\ U(m) \in SUBSET (a..m) OBVIOUS
    <2> HIDE DEF N, U
    <2> QED BY <2>1, <2>2, FS_Subset, FS_CardinalityType
<1>2. Gain(p, a, b) \in Int BY <1>1 DEF Gain
<1>3. Gain(p, b + 1, b) = 0
    <2>1. {k \in (b + 1)..b : IsName(p[k])} = {} /\ {k \in (b + 1)..b : p[k] = ".."} = {}
        <3>1. (b + 1)..b = {} OBVIOUS
        <3> QED BY <3>1
    <2> QED BY <2>1, FS_EmptySet DEF Gain
<1>4. Gain(p, a, b + 1) = Cardinality(N(b + 1)) - Cardinality(U(b + 1)) BY DEF Gain
<1>5. Gain(p, a, b) = Cardinality(N(b)) - Cardinality(U(b)) BY DEF Gain
<1>6. a..(b + 1) = (a..b) \cup {b + 1} /\ b + 1 \notin a..b OBVIOUS
<1>7. /\ IsName(p[b + 1]) => N(b + 1) = N(b) \cup {b + 1}
      /\ ~IsName(p[b + 1]) => N(b + 1) = N(b)
      /\ p[b + 1] = ".." => U(b + 1) = U(b) \cup {b + 1}
      /\ p[b + 1] # ".." => U(b + 1) = U(b)
      /\ b + 1 \notin N(b) /\ b + 1 \notin U(b)
    BY <1>6
<1>8. IsName(p[b + 1]) => p[b + 1] # ".." BY DEF IsName
<1> HIDE DEF N, U
<1>9. /\ Cardinality(N(b) \cup {b + 1}) = Cardinality(N(b)) + 1
      /\ Cardinality(U(b) \cup {b + 1}) = Cardinality(U(b)) + 1
    BY <1>1, <1>7, FS_AddElement
<1>10. Gain(p, a, b + 1) = Gain(p, a, b) + Delta(p[b + 1])
    <2>1. /\ Cardinality(N(b)) \in Nat /\ Cardinality(U(b)) \in Nat BY <1>1
    <2>2. CASE IsName(p[b + 1])
        <3>1. Cardinality(N(b + 1)) = Cardinality(N(b)) + 1 BY <1>7, <1>9, <2>2
        <3>2. Cardinality(U(b + 1)) = Cardinality(U(b)) BY <1>7, <1>8, <2>2
        <3>3. Delta(p[b + 1]) = 1 BY <2>2 DEF Delta
        <3> QED BY <1>4, <1>5, <2>1, <3>1, <3>2, <3>3
    <2>3. CASE ~IsName(p[b + 1]) /\ p[b + 1] = ".."
        <3>1. Cardinality(N(b + 1)) = Cardinality(N(b)) BY <1>7, <2>3
        <3>2. Cardinality(U(b + 1)) = Cardinality(U(b)) + 1 BY <1>7, <1>9, <2>3
        <3>3. Delta(p[b + 1]) = -1 BY <2>3, Zenon DEF Delta
        <3> QED BY <1>4, <1>5, <2>1, <3>1, <3>2, <3>3
    <2>4. CASE ~IsName(p[b + 1]) /\ p[b + 1] # ".."
        <3>1. Cardinality(N(b + 1)) = Cardinality(N(b)) BY <1>7, <2>4
        <3>2. Cardinality(U(b + 1)) = Cardinality(U(b)) BY <1>7, <2>4
        <3>3. Delta(p[b + 1]) = 0 BY <2>4, Zenon DEF Delta
        <3> QED BY <1>4, <1>5, <2>1, <3>1, <3>2, <3>3
    <2> QED BY <2>2, <2>3, <2>4
<1> QED BY <1>2, <1>3, <1>10

LEMMA HeightIs ==
    ASSUME NEW p, NEW n \in Nat
    PROVE  /\ Height(p, n) \in Int
           /\ Height(p, 0) = 0
           /\ Height(p, n + 1) = Height(p, n) + Delta(p[n + 1])
<1>1. Height(p, 0) = 0
    <2>1. 1 \in Nat /\ 0 \in Nat /\ 1 <= 0 + 1 /\ 0 + 1 = 1 OBVIOUS
    <2>2. Gain(p, 0 + 1, 0) = 0 BY <2>1, GainIs
    <2> QED BY <2>1, <2>2 DEF Height
<1> QED BY <1>1, GainIs DEF Height

LEMMA GainIsClimb ==
    ASSUME NEW p, NEW k \in Nat \ {0}, NEW m \in Nat, k <= m + 1
    PROVE  Gain(p, k, m) = Height(p, m) - Height(p, k - 1)
<1> DEFINE b == k - 1
           S == {n \in Nat : Gain(p, k, b + n) = Height(p, b + n) - Height(p, b)}
<1>1. b \in Nat /\ k = b + 1 OBVIOUS
<1> HIDE DEF b
<1>2. 0 \in S
    <2>1. Gain(p, k, b) = 0 BY <1>1, GainIs
    <2>2. b + 0 = b /\ Height(p, b) \in Int BY <1>1, HeightIs
    <2> QED BY <2>1, <2>2
<1>3. ASSUME NEW n \in Nat, n \in S PROVE n + 1 \in S
    <2>1. b + n \in Nat /\ b + (n + 1) = b + n + 1 /\ k <= b + n + 1 BY <1>1
    <2>2. /\ Gain(p, k, b + n + 1) = Gain(p, k, b + n) + Delta(p[b + n + 1])
          /\ Height(p, b + n + 1) = Height(p, b + n) + Delta(p[b + n + 1])
          /\ Height(p, b + n) \in Int /\ Height(p, b) \in Int
        BY <1>1, <2>1, GainIs, HeightIs
    <2>3. Delta(p[b + n + 1]) \in Int BY DEF Delta
    <2> QED BY <1>3, <2>1, <2>2, <2>3
<1> HIDE DEF S
<1>4. m - b \in Nat /\ b + (m - b) = m BY <1>1
<1>5. m - b \in S BY <1>2, <1>3, <1>4, Induction
<1> QED BY <1>4, <1>5 DEF S, b

\* The names that no parent reference up to the n-th component takes away.
Kept(p, n) == {k \in 1..n : IsName(p[k]) /\ \A m \in k..n : Gain(p, k, m) > 0}

Above(p, n) == \A k \in 1..n : Height(p, k) >= 0

LEMMA KeptIs ==
    ASSUME NEW p, NEW n \in Nat, NEW k \in 1..n
    PROVE  /\ k \in Kept(p, n) <=> /\ IsName(p[k])
                                  /\ \A m \in k..n : Height(p, m) >= Height(p, k)
           /\ IsName(p[k]) => Height(p, k) = Height(p, k - 1) + 1
<1>1. k - 1 \in Nat /\ k - 1 + 1 = k OBVIOUS
<1>2. IsName(p[k]) => Height(p, k) = Height(p, k - 1) + 1
    BY <1>1, HeightIs DEF Delta
<1>3. Height(p, k - 1) \in Int BY <1>1, HeightIs
<1>4. ASSUME IsName(p[k]), NEW m \in k..n
      PROVE  Gain(p, k, m) > 0 <=> Height(p, m) >= Height(p, k)
    <2>1. m \in Nat /\ k \in Nat \ {0} /\ k <= m + 1 OBVIOUS
    <2>2. Gain(p, k, m) = Height(p, m) - Height(p, k - 1) /\ Height(p, m) \in Int
        BY <2>1, GainIsClimb, HeightIs
    <2> QED BY <1>2, <1>3, <1>4, <2>2
<1> QED BY <1>2, <1>4 DEF Kept

LEMMA KeptRises ==
    ASSUME NEW p, NEW n \in Nat, Above(p, n), NEW k \in Kept(p, n)
    PROVE  /\ Height(p, k) \in 1..Height(p, n)
           /\ \A m \in Kept(p, n) : k < m => Height(p, k) < Height(p, m)
<1>1. k \in 1..n /\ k - 1 \in Nat BY DEF Kept
<1>2. IsName(p[k]) /\ (\A m \in k..n : Height(p, m) >= Height(p, k))
      /\ Height(p, k) = Height(p, k - 1) + 1
    BY <1>1, KeptIs
<1>3. Height(p, k - 1) >= 0 /\ Height(p, k - 1) \in Int
    <2>1. CASE k = 1 BY <2>1, HeightIs
    <2>2. CASE k # 1
        <3>1. k - 1 \in 1..n BY <1>1, <2>2
        <3> QED BY <1>1, <3>1, HeightIs DEF Above
    <2> QED BY <2>1, <2>2
<1>4. Height(p, n) \in Int /\ Height(p, n) >= Height(p, k) BY <1>1, <1>2, HeightIs
<1>5. ASSUME NEW m \in Kept(p, n), k < m PROVE Height(p, k) < Height(p, m)
    <2>1. m \in 1..n /\ m - 1 \in k..n /\ m - 1 \in Nat BY <1>1, <1>5 DEF Kept
    <2>2. Height(p, m) = Height(p, m - 1) + 1 BY <2>1, KeptIs
    <2>3. Height(p, m - 1) >= Height(p, k) /\ Height(p, m - 1) \in Int
        BY <1>2, <2>1, HeightIs
    <2> QED BY <1>2, <1>3, <2>2, <2>3
<1> QED BY <1>2, <1>3, <1>4, <1>5

\* One more component.
LEMMA KeptNext ==
    ASSUME NEW p, NEW n \in Nat
    PROVE  /\ \A k \in 1..n : k \in Kept(p, n + 1) <=>
                  k \in Kept(p, n) /\ Height(p, n + 1) >= Height(p, k)
           /\ n + 1 \in Kept(p, n + 1) <=> IsName(p[n + 1])
<1>1. ASSUME NEW k \in 1..n
      PROVE  k \in Kept(p, n + 1) <=> k \in Kept(p, n) /\ Height(p, n + 1) >= Height(p, k)
    <2>1. k \in 1..(n + 1) /\ k..(n + 1) = (k..n) \cup {n + 1} /\ n + 1 \in Nat OBVIOUS
    <2> QED BY <2>1, KeptIs
<1>2. n + 1 \in Kept(p, n + 1) <=> IsName(p[n + 1])
    <2>1. n + 1 \in 1..(n + 1) /\ (n + 1)..(n + 1) = {n + 1} /\ n + 1 \in Nat OBVIOUS
    <2>2. Height(p, n + 1) \in Int BY <2>1, HeightIs
    <2> QED BY <2>1, <2>2, KeptIs
<1> QED BY <1>1, <1>2

\* A kept name at every height.
LEMMA KeptFills ==
    ASSUME NEW p
    PROVE  \A n \in Nat : Above(p, n) =>
               \A h \in 1..Height(p, n) : \E k \in Kept(p, n) : Height(p, k) = h
<1> DEFINE S == {n \in Nat : Above(p, n) =>
                  \A h \in 1..Height(p, n) : \E k \in Kept(p, n) : Height(p, k) = h}
<1>1. 0 \in S BY HeightIs
<1>2. ASSUME NEW n \in Nat, n \in S PROVE n + 1 \in S
    <2> SUFFICES ASSUME Above(p, n + 1), NEW h \in 1..Height(p, n + 1)
                 PROVE  \E k \in Kept(p, n + 1) : Height(p, k) = h
        OBVIOUS
    <2>1. Above(p, n) BY DEF Above
    <2>2. /\ Height(p, n) \in Int
          /\ Height(p, n + 1) = Height(p, n) + Delta(p[n + 1])
        BY HeightIs
    <2>3. CASE h \in 1..Height(p, n)
        <3>1. PICK k \in Kept(p, n) : Height(p, k) = h BY <1>2, <2>1, <2>3
        <3>2. k \in 1..n /\ Height(p, n + 1) >= Height(p, k) BY <2>2, <3>1 DEF Kept, Delta
        <3>3. k \in Kept(p, n + 1) BY <3>2, KeptNext
        <3> QED BY <3>1, <3>3
    <2>4. CASE h \notin 1..Height(p, n)
        <3>1. IsName(p[n + 1]) /\ h = Height(p, n + 1) BY <2>2, <2>4 DEF Delta
        <3>2. n + 1 \in Kept(p, n + 1) BY <3>1, KeptNext
        <3> QED BY <3>1, <3>2
    <2> QED BY <2>3, <2>4
<1> HIDE DEF S
<1>3. \A n \in Nat : n \in S BY <1>1, <1>2, Induction
<1> QED BY <1>3 DEF S

LEMMA KeptCount ==
    ASSUME NEW p, NEW n \in Nat, Above(p, n)
    PROVE  IsFiniteSet(Kept(p, n)) /\ Cardinality(Kept(p, n)) = Height(p, n)
           /\ Height(p, n) \in Nat
<1> DEFINE K == Kept(p, n)
           H == 1..Height(p, n)
           f == [k \in K |-> Height(p, k)]
<1>1. Height(p, n) \in Nat
    <2>1. CASE n = 0 BY <2>1, HeightIs
    <2>2. CASE n # 0
        <3>1. n \in 1..n BY <2>2
        <3> QED BY <3>1, HeightIs DEF Above
    <2> QED BY <2>1, <2>2
<1>2. f \in [K -> H] BY KeptRises
<1>3. \A k, m \in K : f[k] = f[m] => k = m
    <2> SUFFICES ASSUME NEW k \in K, NEW m \in K, k # m PROVE f[k] # f[m] OBVIOUS
    <2>1. k \in Nat /\ m \in Nat BY DEF Kept
    <2>2. f[k] \in H /\ f[m] \in H BY <1>2
    <2>3. k < m \/ m < k BY <2>1
    <2>4. k < m => f[k] < f[m] BY KeptRises
    <2>5. m < k => f[m] < f[k] BY KeptRises
    <2> HIDE DEF f
    <2> QED BY <1>1, <2>2, <2>3, <2>4, <2>5
<1>4. \A h \in H : \E k \in K : f[k] = h BY KeptFills
<1>5. f \in Bijection(K, H)
    <2> HIDE DEF f, K, H
    <2> QED BY <1>2, <1>3, <1>4 DEF Bijection, Injection, Surjection, IsInjective
<1>6. IsFiniteSet(K)
    <2>1. IsFiniteSet(1..n) /\ K \in SUBSET (1..n) BY FS_Interval DEF Kept
    <2> HIDE DEF K
    <2> QED BY <2>1, FS_Subset
<1>7. Cardinality(H) = Height(p, n) BY <1>1, FS_Interval
<1>8. ExistsBijection(K, H)
    <2> HIDE DEF f, K, H
    <2> QED BY <1>5 DEF ExistsBijection
<1>9. Cardinality(H) = Cardinality(K)
    <2> HIDE DEF f, K, H
    <2> QED BY <1>6, <1>8, FS_Bijection
<1> QED BY <1>1, <1>6, <1>7, <1>9

\* Survivors(p) are the kept names, each at the place that is its height.
LEMMA SurvivorsAre ==
    ASSUME NEW p \in Paths, Above(p, Len(p))
    PROVE  /\ Survivors(p) \in [1..Height(p, Len(p)) -> STRING]
           /\ \A h \in 1..Height(p, Len(p)) :
                  \E k \in Kept(p, Len(p)) : Height(p, k) = h /\ Survivors(p)[h] = p[k]
<1> DEFINE n == Len(p)
           K == Kept(p, n)
           Rank(k) == Cardinality({m \in K : m <= k})
           Nth(h) == CHOOSE k \in K : Rank(k) = h
<1>1. n \in Nat /\ p \in Seq(STRING) /\ DOMAIN p = 1..n BY PathIs
<1>2. ASSUME NEW k \in K PROVE Rank(k) = Height(p, k)
    <2>1. k \in 1..n /\ k \in Nat BY <1>1 DEF Kept
    <2>2. Above(p, k) BY <1>1, <2>1 DEF Above
    <2>3. \A m \in k..n : Height(p, m) >= Height(p, k) BY <1>1, <2>1, KeptIs
    <2>4. ASSUME NEW m \in 1..k PROVE m \in K <=> m \in Kept(p, k)
        <3>1. m \in 1..n /\ m..n = (m..k) \cup (k..n) /\ m \in Nat BY <1>1, <2>1
        <3>2. ASSUME m \in Kept(p, k) PROVE m \in K
            <4>1. IsName(p[m]) /\ \A l \in m..k : Height(p, l) >= Height(p, m)
                BY <2>1, <3>2, KeptIs
            <4>2. Height(p, k) >= Height(p, m) BY <2>1, <4>1
            <4>3. Height(p, k) \in Int /\ Height(p, m) \in Int BY <2>1, <3>1, HeightIs
            <4>4. ASSUME NEW l \in k..n PROVE Height(p, l) >= Height(p, m)
                <5>1. l \in Nat /\ Height(p, l) >= Height(p, k) BY <2>1, <2>3
                <5> QED BY <4>2, <4>3, <5>1, HeightIs
            <4> QED BY <1>1, <3>1, <4>1, <4>4, KeptIs
        <3>3. ASSUME m \in K PROVE m \in Kept(p, k)
            <4>1. IsName(p[m]) /\ \A l \in m..n : Height(p, l) >= Height(p, m)
                BY <1>1, <3>1, <3>3, KeptIs
            <4> QED BY <2>1, <3>1, <4>1, KeptIs
        <3> QED BY <3>2, <3>3
    <2>5. K \subseteq Nat \ {0} /\ Kept(p, k) \subseteq 1..k BY <1>1 DEF Kept
    <2> HIDE DEF K
    <2>6. {m \in K : m <= k} = Kept(p, k)
        <3>1. ASSUME NEW m \in K, m <= k PROVE m \in Kept(p, k)
            <4>1. m \in 1..k BY <2>1, <2>5, <3>1
            <4> QED BY <2>4, <4>1
        <3>2. ASSUME NEW m \in Kept(p, k) PROVE m \in K /\ m <= k
            <4>1. m \in 1..k BY <2>5
            <4> QED BY <2>1, <2>4, <4>1
        <3> QED BY <3>1, <3>2
    <2> QED BY <2>1, <2>2, <2>6, KeptCount
<1>3. Cardinality(K) = Height(p, n) /\ Height(p, n) \in Nat BY <1>1, KeptCount
<1>4. Survivors(p) = [h \in 1..Cardinality(K) |-> p[Nth(h)]]
    BY <1>1 DEF Survivors, Kept
<1>5. ASSUME NEW h \in 1..Height(p, n)
      PROVE  Nth(h) \in K /\ Height(p, Nth(h)) = h
    <2>1. \E k \in K : Height(p, k) = h BY <1>1, KeptFills
    <2>2. \E k \in K : Rank(k) = h BY <1>2, <2>1
    <2> HIDE DEF K
    <2>3. Nth(h) \in K /\ Rank(Nth(h)) = h
        <3> HIDE DEF Rank
        <3> QED BY <2>2
    <2> QED BY <1>2, <2>3
<1>6. \A k \in K : p[k] \in STRING BY <1>1 DEF Kept
<1> HIDE DEF n, K, Nth, Rank
<1>7. Survivors(p) \in [1..Height(p, n) -> STRING] BY <1>3, <1>4, <1>5, <1>6
<1>8. ASSUME NEW h \in 1..Height(p, n)
      PROVE  \E k \in K : Height(p, k) = h /\ Survivors(p)[h] = p[k]
    BY <1>3, <1>4, <1>5
<1> QED BY <1>7, <1>8 DEF n, K

\* What canonicalize_path is going to return is on its stack, as far as it has read.
StackInv ==
    \/ /\ j = 1 + Height(input, i)
       /\ \A k \in 1..i : Height(input, k) >= -1
       /\ Above(input, i) =>
             /\ buffer[0] = "/"
             /\ \A k \in Kept(input, i) : buffer[Height(input, k)] = input[k]
       /\ result # Null =>
             /\ i = Len(input)
             /\ Above(input, i) => result = <<"/">> \o Survivors(input)
    \/ /\ result = Rejected
       /\ i \in 1..Len(input)
       /\ Height(input, i) < -1

LEMMA StackInit ==
    ASSUME NEW p \in Paths, CallCanonicalize(p)
    PROVE  StackInv
<1>1. input = p /\ i = 0 /\ j = 1 /\ result = Null BY DEF CallCanonicalize, Called
<1>2. Len(p) \in Nat BY PathIs
<1>3. buffer[0] = "/" BY <1>2 DEF CallCanonicalize
<1>4. Kept(input, i) = {} BY <1>1 DEF Kept
<1>5. Height(input, 0) = 0 BY HeightIs
<1>6. \A k \in 1..i : Height(input, k) >= -1 BY <1>1
<1> QED BY <1>1, <1>3, <1>4, <1>5, <1>6 DEF StackInv

LEMMA StackTurn ==
    ASSUME CanonicalizeInv, StackInv, CanonicalizeNext
    PROVE  StackInv'
<1> DEFINE n == i + 1
<1>1. /\ input \in Paths /\ input' = input /\ i \in Nat /\ j \in Nat
      /\ n \in Nat /\ n \in 1..Len(input) /\ i' = n /\ result = Null
      /\ DOMAIN buffer = 0..Len(input) /\ Len(input) \in Nat
      /\ j <= IF i = 0 THEN 1 ELSE i
    <2>1. input \in Paths /\ Len(input) \in Nat BY PathIs DEF CanonicalizeInv
    <2> QED BY <2>1 DEF CanonicalizeInv, CanonicalizeNext, Running
<1>2. /\ j = 1 + Height(input, i)
      /\ \A k \in 1..i : Height(input, k) >= -1
      /\ Above(input, i) =>
            /\ buffer[0] = "/"
            /\ \A k \in Kept(input, i) : buffer[Height(input, k)] = input[k]
    BY <1>1, RejectedIsAResult DEF StackInv
<1>3. /\ Height(input, i) \in Int /\ Height(input, n) \in Int
      /\ Height(input, n) = Height(input, i) + Delta(input[n])
    BY <1>1, HeightIs
<1>4. 1..n = (1..i) \cup {n} /\ n \notin 1..i BY <1>1
<1>5. Above(input, n) <=> Above(input, i) /\ Height(input, n) >= 0 BY <1>4 DEF Above
<1>6. \A k \in Kept(input, n) :
          \/ k \in Kept(input, i) /\ k # n
          \/ k = n /\ IsName(input[n])
    <2> SUFFICES ASSUME NEW k \in Kept(input, n)
                 PROVE  \/ k \in Kept(input, i) /\ k # n
                        \/ k = n /\ IsName(input[n])
        OBVIOUS
    <2>1. k \in 1..i \/ k = n BY <1>4 DEF Kept
    <2>2. CASE k \in 1..i
        <3>1. k \in Kept(input, i) BY <1>1, <2>2, KeptNext
        <3> QED BY <1>4, <2>2, <3>1
    <2>3. CASE k = n BY <1>1, <2>3, KeptNext
    <2> QED BY <2>1, <2>2, <2>3
<1> HIDE DEF n
\* Taking the root away leaves nothing to say of the stack.
<1>7. ASSUME result' = Null, j' = 1 + Height(input, n), Height(input, n) >= -1,
             Above(input, n) =>
                 /\ buffer'[0] = "/"
                 /\ \A k \in Kept(input, n) : buffer'[Height(input, k)] = input[k]
      PROVE  StackInv'
    <2>1. \A k \in 1..n : Height(input, k) >= -1 BY <1>2, <1>4, <1>7
    <2>2. UNCHANGED input /\ i' = n BY <1>1
    <2> DEFINE Holds(in, b, w, m) ==
            /\ w = 1 + Height(in, m)
            /\ \A k \in 1..m : Height(in, k) >= -1
            /\ Above(in, m) => /\ b[0] = "/"
                               /\ \A k \in Kept(in, m) : b[Height(in, k)] = in[k]
    <2>3. Holds(input, buffer', j', n) BY <1>7, <2>1
    <2>4. Holds(input', buffer', j', i') BY <2>2, <2>3
    <2> QED BY <1>7, <2>4 DEF StackInv
<1>8. \A k \in Kept(input, i) : Above(input, i) => Height(input, k) \in 1..Height(input, i)
    BY <1>1, KeptRises
<1>9. CASE input[n] = ".." /\ j > 0
    <2>1. j' = j - 1 /\ buffer' = buffer /\ result' = Null
        BY <1>1, <1>9 DEF CanonicalizeNext, IsName, n
    <2>2. Delta(input[n]) = -1 BY <1>9 DEF Delta, IsName
    <2>3. j' = 1 + Height(input, n) /\ Height(input, n) >= -1
        BY <1>1, <1>2, <1>3, <1>9, <2>1, <2>2
    <2>4. ~IsName(input[n]) BY <1>9 DEF IsName
    <2>5. Above(input, n) => /\ buffer'[0] = "/"
                             /\ \A k \in Kept(input, n) : buffer'[Height(input, k)] = input[k]
        BY <1>2, <1>5, <1>6, <2>1, <2>4
    <2> QED BY <1>7, <2>1, <2>3, <2>5
<1>10. CASE input[n] = ".." /\ j = 0
    <2>1. result' = Rejected BY <1>1, <1>10 DEF CanonicalizeNext, IsName, n
    <2>2. Delta(input[n]) = -1 BY <1>10 DEF Delta, IsName
    <2>3. Height(input, n) < -1 BY <1>2, <1>3, <1>10, <2>2
    <2> QED BY <1>1, <2>1, <2>3 DEF StackInv
<1>11. CASE IsName(input[n])
    <2>1. j' = j + 1 /\ buffer' = [buffer EXCEPT ![j] = input[n]] /\ result' = Null
        BY <1>1, <1>11 DEF CanonicalizeNext, IsName, n
    <2>2. Delta(input[n]) = 1 BY <1>11 DEF Delta
    <2>3. j' = 1 + Height(input, n) /\ Height(input, n) = j BY <1>1, <1>2, <1>3, <2>1, <2>2
    <2>4. ASSUME Above(input, n)
          PROVE  /\ buffer'[0] = "/"
                 /\ \A k \in Kept(input, n) : buffer'[Height(input, k)] = input[k]
        <3>1. Above(input, i) /\ Height(input, i) >= 0
            <4>1. Above(input, i) BY <1>5, <2>4
            <4> QED BY <1>1, <4>1, KeptCount
        <3>2. j > 0 /\ j \in DOMAIN buffer
            <4>1. i = 0 => input[n] = Empty BY <1>1, PathIs DEF n
            <4>2. i # 0 BY <1>11, <4>1 DEF IsName
            <4> QED BY <1>1, <1>2, <1>3, <3>1, <4>2
        <3>3. buffer'[0] = "/" BY <1>1, <1>2, <2>1, <3>1, <3>2
        <3>4. ASSUME NEW k \in Kept(input, n) PROVE buffer'[Height(input, k)] = input[k]
            <4>1. CASE k = n BY <2>1, <2>3, <3>2, <4>1
            <4>2. CASE k # n
                <5>1. k \in Kept(input, i) BY <1>6, <4>2
                <5>2. Height(input, k) \in 1..Height(input, i) BY <1>8, <3>1, <5>1
                <5>3. Height(input, k) # j BY <1>2, <1>3, <5>2
                <5>4. buffer[Height(input, k)] = input[k] BY <1>2, <3>1, <5>1
                <5> QED BY <2>1, <5>3, <5>4
            <4> QED BY <4>1, <4>2
        <3> QED BY <3>3, <3>4
    <2>5. Height(input, n) >= -1 BY <1>1, <2>3
    <2> QED BY <1>7, <2>1, <2>3, <2>4, <2>5
<1>12. CASE input[n] \in {".", Empty}
    <2>1. j' = j /\ buffer' = buffer /\ result' = Null
        BY <1>1, <1>12 DEF CanonicalizeNext, IsName, Empty, n
    <2>2. ~IsName(input[n]) BY <1>12 DEF IsName
    <2>3. Delta(input[n]) = 0 BY <1>12, <2>2 DEF Delta, Empty
    <2>4. j' = 1 + Height(input, n) /\ Height(input, n) >= -1
        BY <1>1, <1>2, <1>3, <2>1, <2>3
    <2>5. Above(input, n) => /\ buffer'[0] = "/"
                             /\ \A k \in Kept(input, n) : buffer'[Height(input, k)] = input[k]
        BY <1>2, <1>5, <1>6, <2>1, <2>2
    <2> QED BY <1>7, <2>1, <2>4, <2>5
<1>13. input[n] = ".." \/ IsName(input[n]) \/ input[n] \in {".", Empty} BY DEF IsName
<1> QED BY <1>1, <1>9, <1>10, <1>11, <1>12, <1>13

LEMMA StackReturned ==
    ASSUME CanonicalizeInv, StackInv, CanonicalizeReturn
    PROVE  StackInv'
<1>1. /\ input \in Paths /\ j \in Nat /\ i = Len(input) /\ result = Null
      /\ j <= Len(input) /\ DOMAIN buffer = 0..Len(input) /\ Len(input) \in Nat
    <2>1. input \in Paths /\ Len(input) \in Nat /\ Len(input) > 0 BY PathIs DEF CanonicalizeInv
    <2> QED BY <2>1 DEF CanonicalizeInv, CanonicalizeReturn, Running
<1>2. /\ UNCHANGED <<input, i, j>>
      /\ buffer' = [buffer EXCEPT ![j] = Null]
      /\ result' = [k \in 1..j |-> buffer[k - 1]]
    BY DEF CanonicalizeReturn, Return
<1>3. /\ j = 1 + Height(input, i)
      /\ \A k \in 1..i : Height(input, k) >= -1
      /\ Above(input, i) =>
            /\ buffer[0] = "/"
            /\ \A k \in Kept(input, i) : buffer[Height(input, k)] = input[k]
    BY <1>1, RejectedIsAResult DEF StackInv
<1>4. ASSUME Above(input, i)
      PROVE  /\ buffer'[0] = "/"
             /\ \A k \in Kept(input, i) : buffer'[Height(input, k)] = input[k]
             /\ result' = <<"/">> \o Survivors(input)
    <2> DEFINE H == Height(input, i)
    <2>1. H \in Nat /\ j = 1 + H BY <1>1, <1>3, <1>4, KeptCount
    <2>2. \A k \in Kept(input, i) : Height(input, k) \in 1..H BY <1>1, <1>4, KeptRises
    <2>3. /\ Survivors(input) \in [1..H -> STRING]
          /\ \A h \in 1..H : \E k \in Kept(input, i) :
                 Height(input, k) = h /\ Survivors(input)[h] = input[k]
        BY <1>1, <1>4, SurvivorsAre
    <2> HIDE DEF H
    <2>4. buffer'[0] = "/" BY <1>1, <1>2, <1>3, <1>4, <2>1
    <2>5. ASSUME NEW k \in Kept(input, i) PROVE buffer'[Height(input, k)] = input[k]
        <3>1. Height(input, k) # j BY <2>1, <2>2
        <3> QED BY <1>2, <1>3, <1>4, <3>1
    <2>6. result' = <<"/">> \o Survivors(input)
        <3>1. Len(Survivors(input)) = H BY <2>1, <2>3
        <3>2. <<"/">> \o Survivors(input)
              = [k \in 1..(1 + H) |-> IF k = 1 THEN "/" ELSE Survivors(input)[k - 1]]
            BY <2>1, <2>3, <3>1
        <3>3. ASSUME NEW k \in 1..(1 + H)
              PROVE  buffer[k - 1] = IF k = 1 THEN "/" ELSE Survivors(input)[k - 1]
            <4>1. CASE k = 1 BY <1>3, <1>4, <4>1
            <4>2. CASE k # 1
                <5>1. k - 1 \in 1..H BY <2>1, <4>2
                <5>2. PICK m \in Kept(input, i) :
                          Height(input, m) = k - 1 /\ Survivors(input)[k - 1] = input[m]
                    BY <2>3, <5>1
                <5> QED BY <1>3, <1>4, <4>2, <5>2
            <4> QED BY <4>1, <4>2
        <3> QED BY <1>2, <2>1, <3>2, <3>3
    <2> QED BY <2>4, <2>5, <2>6
<1>5. UNCHANGED <<input, i, j>> BY <1>2
<1> DEFINE Holds(in, b, w, m, r) ==
        /\ w = 1 + Height(in, m)
        /\ \A k \in 1..m : Height(in, k) >= -1
        /\ Above(in, m) => /\ b[0] = "/"
                           /\ \A k \in Kept(in, m) : b[Height(in, k)] = in[k]
        /\ m = Len(in)
        /\ Above(in, m) => r = <<"/">> \o Survivors(in)
<1>6. Holds(input, buffer', j, i, result') BY <1>1, <1>3, <1>4
<1>7. Holds(input', buffer', j', i', result') BY <1>5, <1>6
<1> QED BY <1>7 DEF StackInv

LEMMA StackIsReturned ==
    ASSUME CanonicalizeInv, StackInv, result # Null
    PROVE  \/ /\ \A k \in DOMAIN input : Height(input, k) >= 0
              /\ result = <<"/">> \o Survivors(input)
           \/ /\ \E k \in DOMAIN input : Height(input, k) < -1
              /\ result = Rejected
           \/ /\ \E k \in DOMAIN input : Height(input, k) = -1
              /\ \A k \in DOMAIN input : Height(input, k) >= -1
<1>1. input \in Paths /\ DOMAIN input = 1..Len(input) /\ Len(input) \in Nat
    BY PathIs DEF CanonicalizeInv
<1>2. \A k \in DOMAIN input : Height(input, k) \in Int BY <1>1, HeightIs
<1>3. CASE /\ result = Rejected
           /\ i \in 1..Len(input)
           /\ Height(input, i) < -1
    BY <1>1, <1>3
<1>4. CASE /\ \A k \in 1..i : Height(input, k) >= -1
           /\ i = Len(input)
           /\ Above(input, i) => result = <<"/">> \o Survivors(input)
    <2>1. CASE Above(input, i) BY <1>1, <1>4, <2>1 DEF Above
    <2>2. CASE ~Above(input, i)
        <3>1. PICK k \in 1..i : ~(Height(input, k) >= 0) BY <2>2 DEF Above
        <3>2. Height(input, k) = -1 BY <1>1, <1>2, <1>4, <3>1
        <3> QED BY <1>1, <1>4, <3>2
    <2> QED BY <2>1, <2>2
<1> QED BY <1>3, <1>4 DEF StackInv

-----------------------------------------------------------------------------
(* Sequences taken apart from the back, flattened and split. *)

LEMMA FrontLast ==
    ASSUME NEW T, NEW s \in Seq(T), s # <<>>
    PROVE  \E f \in Seq(T) : \E x \in T : s = Append(f, x) /\ Len(f) = Len(s) - 1
<1>1. Len(s) \in Nat /\ Len(s) > 0 BY EmptySeq
<1>2. Len(s) - 1 \in Nat /\ \A k \in 1..(Len(s) - 1) : s[k] \in T BY <1>1
<1> DEFINE f == [k \in 1..(Len(s) - 1) |-> s[k]]
<1>3. f \in Seq(T) /\ Len(f) = Len(s) - 1 BY <1>2
<1>4. s[Len(s)] \in T BY <1>1
<1>5. s = Append(f, s[Len(s)])
    <2>1. Append(f, s[Len(s)]) \in Seq(T) /\ Len(Append(f, s[Len(s)])) = Len(s)
        BY <1>1, <1>3, <1>4, AppendProperties
    <2>2. ASSUME NEW k \in 1..Len(s) PROVE s[k] = Append(f, s[Len(s)])[k]
        <3>1. CASE k = Len(s) BY <1>1, <1>3, <1>4, <3>1, AppendProperties
        <3>2. CASE k # Len(s)
            <4>1. k \in 1..Len(f) BY <1>1, <1>3, <3>2
            <4>2. Append(f, s[Len(s)])[k] = f[k] BY <1>3, <1>4, <4>1, AppendProperties
            <4> QED BY <1>3, <4>1, <4>2
        <3> QED BY <3>1, <3>2
    <2> HIDE DEF f
    <2> QED BY <2>1, <2>2, SeqEqual
<1> HIDE DEF f
<1> QED BY <1>3, <1>4, <1>5

LEMMA ConcatAppend ==
    ASSUME NEW T, NEW s \in Seq(T), NEW t \in Seq(T), NEW x \in T
    PROVE  /\ s \o Append(t, x) = Append(s \o t, x)
           /\ s \o Append(t, x) = s \o (t \o <<x>>)
           /\ Append(s, x) \o t = s \o (<<x>> \o t)
<1>1. <<x>> \in Seq(T) /\ s \o t \in Seq(T) BY Cons1, ConcatProperties
<1>2. Append(t, x) = t \o <<x>> /\ Append(s \o t, x) = (s \o t) \o <<x>>
      /\ Append(s, x) = s \o <<x>>
    BY <1>1, AppendIsConcat
<1>3. (s \o t) \o <<x>> = s \o (t \o <<x>>) BY <1>1, ConcatAssociative
<1>4. (s \o <<x>>) \o t = s \o (<<x>> \o t) BY <1>1, ConcatAssociative
<1> QED BY <1>2, <1>3, <1>4

\* What holds of the empty sequence and of a sequence with one more element.
LEMMA SequenceInduction2 ==
    ASSUME NEW T, NEW P, <<>> \in P,
           \A f \in Seq(T) : \A x \in T : f \in P => Append(f, x) \in P
    PROVE  Seq(T) \subseteq P
<1> DEFINE S == {n \in Nat : \A s \in Seq(T) : Len(s) = n => s \in P}
<1>1. 0 \in S
    <2>1. \A s \in Seq(T) : Len(s) = 0 => s = <<>> OBVIOUS
    <2> QED BY <2>1
<1>2. ASSUME NEW n \in Nat, n \in S PROVE n + 1 \in S
    <2> SUFFICES ASSUME NEW s \in Seq(T), Len(s) = n + 1 PROVE s \in P OBVIOUS
    <2>1. s # <<>> BY EmptySeq
    <2>2. PICK f \in Seq(T) : \E x \in T : s = Append(f, x) /\ Len(f) = Len(s) - 1
        BY <2>1, FrontLast
    <2>3. PICK x \in T : s = Append(f, x) /\ Len(f) = Len(s) - 1 BY <2>2
    <2>4. Len(f) = n BY <2>3
    <2> QED BY <1>2, <2>3, <2>4
<1> HIDE DEF S
<1>3. \A n \in Nat : n \in S BY <1>1, <1>2, Induction
<1>4. ASSUME NEW s \in Seq(T) PROVE s \in P
    <2>1. Len(s) \in Nat OBVIOUS
    <2> QED BY <1>3, <2>1 DEF S
<1> QED BY <1>4

FlattenAt(g, k, ss) == IF k = 1 THEN ss[k] ELSE g[k - 1] \o ss[k]
Flattening(ss) == CHOOSE g : g = [k \in 1..Len(ss) |-> FlattenAt(g, k, ss)]

LEMMA FlattenUnfolds ==
    ASSUME NEW T, NEW ss \in Seq(Seq(T))
    PROVE  /\ \A k \in 1..Len(ss) : /\ Flattening(ss)[k] = FlattenAt(Flattening(ss), k, ss)
                                    /\ Flattening(ss)[k] \in Seq(T)
           /\ ss # <<>> => FlattenSeq(ss) = Flattening(ss)[Len(ss)]
<1> DEFINE D == 1..Len(ss)
           R == Seq(T)
           m == [k \in D |-> k]
           B == [g \in [D -> R] |-> [k \in D |-> FlattenAt(g, k, ss)]]
<1>0. Len(ss) \in Nat /\ Len(ss) + 1 \in Nat /\ \A k \in D : ss[k] \in R OBVIOUS
<1>1. ASSUME NEW g, NEW k \in D, \A r \in D : r < k => g[r] \in R
      PROVE  FlattenAt(g, k, ss) \in R
    <2>1. CASE k = 1 BY <1>0, <2>1 DEF FlattenAt
    <2>2. CASE k # 1
        <3>1. k - 1 \in D /\ k - 1 < k BY <1>0, <2>2
        <3>2. g[k - 1] \in R /\ ss[k] \in R BY <1>0, <1>1, <3>1
        <3>3. g[k - 1] \o ss[k] \in R BY <3>2, ConcatProperties
        <3> HIDE DEF R
        <3> QED BY <2>2, <3>3 DEF FlattenAt
    <2> QED BY <2>1, <2>2
<1>2. ASSUME NEW g, NEW h, NEW k \in D, \A r \in D : r < k => g[r] = h[r]
      PROVE  FlattenAt(g, k, ss) = FlattenAt(h, k, ss)
    <2>1. k # 1 => k - 1 \in D /\ k - 1 < k BY <1>0
    <2>2. k # 1 => g[k - 1] = h[k - 1] BY <1>2, <2>1
    <2> QED BY <2>2 DEF FlattenAt
<1>3. m \in [D -> Nat] /\ \A s \in D : m[s] < Len(ss) + 1 BY <1>0
<1>4. \A r, s \in D : m[r] < m[s] <=> r < s OBVIOUS
<1>5. R # {} BY EmptySeq
<1> HIDE DEF m, D, R
<1>6. Recurses(B, D, R, m, Len(ss) + 1)
    <2>1. B \in [[D -> R] -> [D -> R]] BY <1>1
    <2>2. ASSUME NEW g \in [D -> R], NEW h \in [D -> R], NEW s \in D,
                 \A r \in D : m[r] < m[s] => g[r] = h[r]
          PROVE  B[g][s] = B[h][s]
        BY <1>2, <1>4, <2>2
    <2> HIDE DEF B
    <2> QED BY <1>0, <1>3, <1>5, <2>1, <2>2 DEF Recurses
<1>7. \E g \in [D -> R] : g = B[g]
    <2> HIDE DEF B
    <2> QED BY <1>6, RecursiveFunction
<1>8. \E g : g = [k \in D |-> FlattenAt(g, k, ss)] BY <1>7
<1>9. Flattening(ss) = CHOOSE g : g = [k \in D |-> FlattenAt(g, k, ss)]
    BY DEF Flattening, D
<1>10. Flattening(ss) = [k \in D |-> FlattenAt(Flattening(ss), k, ss)] BY <1>8, <1>9
<1>11. \A k \in D : Flattening(ss)[k] = FlattenAt(Flattening(ss), k, ss) BY <1>10
<1> HIDE DEF B
<1> DEFINE P == {k \in D : Flattening(ss)[k] \in R}
<1>12. D \subseteq P
    <2>1. \A s \in D : (\A r \in D : m[r] < m[s] => r \in P) => s \in P BY <1>1, <1>4, <1>11
    <2> HIDE DEF P
    <2> QED BY <1>3, <2>1, MeasureInduction
<1>13. ss # <<>> => FlattenSeq(ss) = Flattening(ss)[Len(ss)]
    <2> SUFFICES ASSUME ss # <<>> PROVE FlattenSeq(ss) = Flattening(ss)[Len(ss)] OBVIOUS
    <2>1. Len(ss) # 0 BY EmptySeq
    <2> QED BY <2>1, Zenon DEF FlattenSeq, Flattening, FlattenAt
<1> QED BY <1>11, <1>12, <1>13 DEF D, R

LEMMA FlattenNothing == FlattenSeq(<<>>) = <<>>
<1>1. Len(<<>>) = 0 OBVIOUS
<1> QED BY <1>1, Zenon DEF FlattenSeq

LEMMA FlattenIsText ==
    ASSUME NEW T, NEW ss \in Seq(Seq(T))
    PROVE  FlattenSeq(ss) \in Seq(T)
<1>1. CASE ss = <<>> BY <1>1, FlattenNothing, EmptySeq
<1>2. CASE ss # <<>>
    <2>1. Len(ss) \in 1..Len(ss) BY <1>2, EmptySeq
    <2> QED BY <1>2, <2>1, FlattenUnfolds
<1> QED BY <1>1, <1>2

LEMMA FlattenAppend ==
    ASSUME NEW T, NEW ss \in Seq(Seq(T)), NEW s \in Seq(T)
    PROVE  FlattenSeq(Append(ss, s)) = FlattenSeq(ss) \o s
<1> DEFINE n == Len(ss)
           tt == Append(ss, s)
           D == 1..n
           m == [k \in D |-> k]
           P == {k \in D : Flattening(tt)[k] = Flattening(ss)[k]}
<1>1. /\ n \in Nat /\ tt \in Seq(Seq(T)) /\ Len(tt) = n + 1 /\ tt # <<>>
      /\ tt[n + 1] = s /\ \A k \in 1..n : tt[k] = ss[k]
    <2>1. n \in Nat OBVIOUS
    <2>2. /\ tt \in Seq(Seq(T)) /\ Len(tt) = n + 1
          /\ tt[n + 1] = s /\ \A k \in 1..n : tt[k] = ss[k]
        BY AppendProperties
    <2> HIDE DEF n, tt, D, m, P
    <2>3. Len(tt) # 0 BY <2>1, <2>2
    <2>4. tt # <<>> BY <2>3, EmptySeq
    <2> QED BY <2>1, <2>2, <2>4
<1> HIDE DEF tt
<1>2. \A k \in 1..(n + 1) : Flattening(tt)[k] = FlattenAt(Flattening(tt), k, tt)
    BY <1>1, FlattenUnfolds
<1>3. FlattenSeq(tt) = Flattening(tt)[n + 1] BY <1>1, FlattenUnfolds
<1>4. \A k \in 1..n : Flattening(ss)[k] = FlattenAt(Flattening(ss), k, ss)
    BY FlattenUnfolds
<1>5. D \subseteq P
    <2>1. m \in [D -> Nat] /\ \A r, k \in D : m[r] < m[k] <=> r < k OBVIOUS
    <2>2. ASSUME NEW k \in D, \A r \in D : m[r] < m[k] => r \in P PROVE k \in P
        <3>1. k \in 1..(n + 1) /\ tt[k] = ss[k] BY <1>1
        <3>2. k # 1 => k - 1 \in D /\ m[k - 1] < m[k] BY <1>1
        <3>3. k # 1 => Flattening(tt)[k - 1] = Flattening(ss)[k - 1] BY <2>2, <3>2
        <3>4. FlattenAt(Flattening(tt), k, tt) = FlattenAt(Flattening(ss), k, ss)
            BY <3>1, <3>3 DEF FlattenAt
        <3> QED BY <1>2, <1>4, <3>1, <3>4
    <2> HIDE DEF P, m, D
    <2> QED BY <2>1, <2>2, MeasureInduction
<1>6. CASE ss = <<>>
    <2>1. n = 0 BY <1>6
    <2>2. FlattenSeq(tt) = s BY <1>1, <1>2, <1>3, <2>1 DEF FlattenAt
    <2>3. FlattenSeq(ss) = <<>> BY <1>6, FlattenNothing
    <2>4. <<>> \o s = s BY ConcatEmptySeq
    <2> QED BY <2>2, <2>3, <2>4 DEF tt
<1>7. CASE ss # <<>>
    <2>1. n # 0 /\ n + 1 \in 1..(n + 1) /\ n + 1 # 1 /\ n + 1 - 1 = n /\ n \in D
        BY <1>1, <1>7, EmptySeq
    <2>2. FlattenSeq(ss) = Flattening(ss)[n] BY <1>7, FlattenUnfolds
    <2>3. Flattening(tt)[n] = Flattening(ss)[n] BY <1>5, <2>1
    <2> DEFINE l == n + 1
    <2>4. l \in 1..(n + 1) /\ l # 1 /\ l - 1 = n /\ tt[l] = s BY <1>1, <2>1
    <2>5. FlattenSeq(tt) = Flattening(tt)[l] BY <1>3
    <2> HIDE DEF l
    <2>6. Flattening(tt)[l] = FlattenAt(Flattening(tt), l, tt) BY <1>2, <2>4
    <2>7. FlattenAt(Flattening(tt), l, tt) = Flattening(tt)[l - 1] \o tt[l]
        BY <2>4, Zenon DEF FlattenAt
    <2> QED BY <2>2, <2>3, <2>4, <2>5, <2>6, <2>7 DEF tt
<1> QED BY <1>6, <1>7

\* One character of a text that is being split.
Room(tokens, max) == max < 1 \/ Len(tokens) < max
SplitStep(tokens, c, sep, max) ==
    IF c = sep /\ Room(tokens, max) THEN Append(tokens, <<>>)
    ELSE [tokens EXCEPT ![Len(tokens)] = Append(@, c)]

\* The fold of g_strsplit, over all sets of indices; Greatest is the one it takes next.
Greatest(S) == CHOOSE x \in S : \A y \in S : x >= y
TokensAt(g, s, text, sep, max) ==
    IF s = {} THEN <<<<>>>>
    ELSE SplitStep(g[s \ {Greatest(s)}], text[Greatest(s)], sep, max)
TokensOf(text, sep, max) ==
    CHOOSE g : g = [s \in SUBSET DOMAIN text |-> TokensAt(g, s, text, sep, max)]
Tokens(text, sep, max) == TokensOf(text, sep, max)[DOMAIN text]

LEMMA SplitIsTokens ==
    \A text, sep, max : text # <<>> => Split(text, sep, max) = Tokens(text, sep, max)
BY Zenon DEF Split, FoldLeft, MapThenFoldSet, Max, Tokens, TokensOf, TokensAt, SplitStep,
    Room, Greatest

LEMMA GreatestIs ==
    ASSUME NEW n \in Nat, NEW s \in SUBSET (1..n), s # {}
    PROVE  Greatest(s) \in s /\ \A y \in s : Greatest(s) >= y
<1> DEFINE T == {n - y : y \in s}
<1>1. T \subseteq Nat /\ T # {}
    <2>1. PICK y : y \in s OBVIOUS
    <2>2. n - y \in T BY <2>1
    <2>3. \A z \in s : n - z \in Nat OBVIOUS
    <2> QED BY <2>2, <2>3
<1>2. PICK t \in T : \A u \in T : t <= u BY <1>1, LeastNatural
<1>3. PICK x \in s : t = n - x BY <1>2
<1>4. ASSUME NEW y \in s PROVE x >= y
    <2>1. n - x <= n - y BY <1>2, <1>3
    <2>2. x \in Nat /\ y \in Nat OBVIOUS
    <2> QED BY <2>1, <2>2
<1>5. \E z \in s : \A y \in s : z >= y BY <1>4
<1> QED BY <1>5, Zenon DEF Greatest

LEMMA SplitStepIs ==
    ASSUME NEW T, NEW tokens \in Seq(Seq(T)), tokens # <<>>, NEW c \in T, NEW sep, NEW max
    PROVE  /\ SplitStep(tokens, c, sep, max) \in Seq(Seq(T))
           /\ SplitStep(tokens, c, sep, max) # <<>>
<1>1. Len(tokens) \in 1..Len(tokens) BY EmptySeq
<1>2. CASE c = sep /\ Room(tokens, max)
    <2>1. <<>> \in Seq(T) BY EmptySeq
    <2>2. /\ Append(tokens, <<>>) \in Seq(Seq(T))
          /\ Len(Append(tokens, <<>>)) = Len(tokens) + 1
        BY <2>1, AppendProperties
    <2>3. Append(tokens, <<>>) # <<>> BY <1>1, <2>2
    <2> QED BY <1>2, <2>2, <2>3, Zenon DEF SplitStep
<1>3. CASE ~(c = sep /\ Room(tokens, max))
    <2> DEFINE last == Append(tokens[Len(tokens)], c)
               next == [tokens EXCEPT ![Len(tokens)] = last]
    <2>1. tokens[Len(tokens)] \in Seq(T) BY <1>1
    <2>2. last \in Seq(T) BY <2>1, AppendProperties
    <2>3. SplitStep(tokens, c, sep, max) = next BY <1>3, Zenon DEF SplitStep
    <2> HIDE DEF last
    <2>4. next \in Seq(Seq(T)) /\ Len(next) = Len(tokens) BY <1>1, <2>2, ExceptSeq
    <2>5. next # <<>> BY <1>1, <2>4
    <2> HIDE DEF next
    <2> QED BY <2>3, <2>4, <2>5
<1> QED BY <1>2, <1>3

LEMMA TokensUnfold ==
    ASSUME NEW T, NEW text \in Seq(T), NEW sep, NEW max
    PROVE  /\ \A s \in SUBSET (1..Len(text)) :
                  /\ TokensOf(text, sep, max)[s]
                     = TokensAt(TokensOf(text, sep, max), s, text, sep, max)
                  /\ TokensOf(text, sep, max)[s] \in Seq(Seq(T)) \ {<<>>}
           /\ Tokens(text, sep, max) = TokensOf(text, sep, max)[1..Len(text)]
<1> DEFINE n == Len(text)
           D == SUBSET (1..n)
           R == Seq(Seq(T)) \ {<<>>}
           m == [s \in D |-> Cardinality(s)]
           A(g, s) == TokensAt(g, s, text, sep, max)
           B == [g \in [D -> R] |-> [s \in D |-> A(g, s)]]
<1>0. n \in Nat /\ DOMAIN text = 1..n /\ n + 1 \in Nat OBVIOUS
<1>1. ASSUME NEW s \in D
      PROVE  /\ IsFiniteSet(s) /\ m[s] \in Nat /\ m[s] < n + 1
             /\ s # {} => /\ Greatest(s) \in s /\ s \ {Greatest(s)} \in D
                          /\ m[s \ {Greatest(s)}] < m[s]
                          /\ text[Greatest(s)] \in T
    <2>1. IsFiniteSet(1..n) /\ Cardinality(1..n) = n
        <3>1. 1 \in Int /\ n \in Int /\ (1 > n => n = 0) BY <1>0
        <3> QED BY <3>1, FS_Interval
    <2>2. IsFiniteSet(s) /\ Cardinality(s) <= n BY <2>1, FS_Subset
    <2>3. Cardinality(s) \in Nat BY <2>2, FS_CardinalityType
    <2>4. ASSUME s # {}
          PROVE  /\ Greatest(s) \in s /\ s \ {Greatest(s)} \in D
                 /\ m[s \ {Greatest(s)}] < m[s]
                 /\ text[Greatest(s)] \in T
        <3>1. Greatest(s) \in s BY <1>0, <2>4, GreatestIs
        <3>2. Cardinality(s \ {Greatest(s)}) = Cardinality(s) - 1
            BY <2>2, <3>1, FS_RemoveElement
        <3>3. s \ {Greatest(s)} \in D /\ Greatest(s) \in 1..n BY <3>1
        <3> QED BY <2>3, <3>1, <3>2, <3>3
    <2> QED BY <1>0, <2>2, <2>3, <2>4
<1>2. ASSUME NEW g, NEW s \in D, \A r \in D : m[r] < m[s] => g[r] \in R
      PROVE  A(g, s) \in R
    <2>1. CASE s = {}
        <3>1. A(g, s) = <<<<>>>> BY <2>1, Zenon DEF TokensAt
        <3>2. <<>> \in Seq(T) BY EmptySeq
        <3>3. <<<<>>>> \in Seq(Seq(T)) /\ <<<<>>>> # <<>> BY <3>2
        <3> QED BY <3>1, <3>3
    <2>2. CASE s # {}
        <3> DEFINE x == Greatest(s)
        <3>1. g[s \ {x}] \in R /\ text[x] \in T BY <1>1, <1>2, <2>2
        <3>2. A(g, s) = SplitStep(g[s \ {x}], text[x], sep, max)
            BY <2>2, Zenon DEF TokensAt
        <3> HIDE DEF A, x
        <3>3. SplitStep(g[s \ {x}], text[x], sep, max) \in R BY <3>1, SplitStepIs
        <3> QED BY <3>2, <3>3
    <2> QED BY <2>1, <2>2
<1>3. ASSUME NEW g, NEW h, NEW s \in D, \A r \in D : m[r] < m[s] => g[r] = h[r]
      PROVE  A(g, s) = A(h, s)
    <2>1. s # {} => g[s \ {Greatest(s)}] = h[s \ {Greatest(s)}] BY <1>1, <1>3
    <2> QED BY <2>1, Zenon DEF TokensAt
<1>4. m \in [D -> Nat] /\ \A s \in D : m[s] < n + 1 BY <1>1
<1>5. R # {}
    <2>1. <<>> \in Seq(T) BY EmptySeq
    <2>2. <<<<>>>> \in Seq(Seq(T)) /\ <<<<>>>> # <<>> BY <2>1
    <2> QED BY <2>2
<1> HIDE DEF m, D, R, A
<1>6. Recurses(B, D, R, m, n + 1)
    <2>1. B \in [[D -> R] -> [D -> R]] BY <1>2
    <2>2. ASSUME NEW g \in [D -> R], NEW h \in [D -> R], NEW s \in D,
                 \A r \in D : m[r] < m[s] => g[r] = h[r]
          PROVE  B[g][s] = B[h][s]
        BY <1>3, <2>2
    <2> HIDE DEF B, n
    <2> QED BY <1>0, <1>4, <1>5, <2>1, <2>2 DEF Recurses
<1>7. \E g \in [D -> R] : g = B[g]
    <2> HIDE DEF B
    <2> QED BY <1>6, RecursiveFunction
<1>8. \E g : g = [s \in D |-> A(g, s)] BY <1>7
<1> DEFINE G == TokensOf(text, sep, max)
<1>9. G = CHOOSE g : g = [s \in D |-> A(g, s)]
    <2>1. G = CHOOSE g : g = [s \in SUBSET DOMAIN text |-> TokensAt(g, s, text, sep, max)]
        BY DEF TokensOf
    <2>2. D = SUBSET DOMAIN text BY <1>0 DEF D
    <2> QED BY <2>1, <2>2 DEF A
<1> HIDE DEF G
<1>10. G = [s \in D |-> A(G, s)] BY <1>8, <1>9
<1>11. \A s \in D : G[s] = A(G, s) BY <1>10
<1> HIDE DEF B
<1> DEFINE P == {s \in D : G[s] \in R}
<1>12. D \subseteq P
    <2>1. \A s \in D : (\A r \in D : m[r] < m[s] => r \in P) => s \in P BY <1>2, <1>11
    <2> HIDE DEF P
    <2> QED BY <1>4, <2>1, MeasureInduction
<1>13. Tokens(text, sep, max) = G[1..n] BY <1>0 DEF Tokens, G
<1>14. \A s \in D : G[s] \in R BY <1>12
<1> QED BY <1>11, <1>13, <1>14 DEF G, D, R, A, n

\* Splitting goes on from what has been split.
LEMMA TokensAppend ==
    ASSUME NEW T, NEW text \in Seq(T), NEW c \in T, NEW sep, NEW max
    PROVE  /\ Tokens(Append(text, c), sep, max)
              = SplitStep(Tokens(text, sep, max), c, sep, max)
           /\ Tokens(text, sep, max) \in Seq(Seq(T)) \ {<<>>}
<1> DEFINE n == Len(text)
           more == Append(text, c)
           G == TokensOf(text, sep, max)
           H == TokensOf(more, sep, max)
           D == SUBSET (1..n)
           m == [s \in D |-> Cardinality(s)]
           P == {s \in D : H[s] = G[s]}
<1>1. /\ n \in Nat /\ more \in Seq(T) /\ Len(more) = n + 1
      /\ more[n + 1] = c /\ \A k \in 1..n : more[k] = text[k]
    <2>1. n \in Nat OBVIOUS
    <2> QED BY <2>1, AppendProperties
<1> HIDE DEF more
<1>2. \A s \in SUBSET (1..(n + 1)) : H[s] = TokensAt(H, s, more, sep, max)
    BY <1>1, TokensUnfold
<1>3. \A s \in D : G[s] = TokensAt(G, s, text, sep, max) /\ G[s] \in Seq(Seq(T)) \ {<<>>}
    BY TokensUnfold
<1>4. Tokens(more, sep, max) = H[1..(n + 1)] BY <1>1, TokensUnfold
<1>5. Tokens(text, sep, max) = G[1..n] BY TokensUnfold
<1> HIDE DEF G, H
<1>6. \A s \in D : IsFiniteSet(s) /\ Cardinality(s) \in Nat
    <2>1. IsFiniteSet(1..n) BY <1>1, FS_Interval
    <2> SUFFICES ASSUME NEW s \in D PROVE IsFiniteSet(s) /\ Cardinality(s) \in Nat OBVIOUS
    <2>2. IsFiniteSet(s) BY <2>1, FS_Subset
    <2> QED BY <2>2, FS_CardinalityType
<1>7. D \subseteq P
    <2>1. m \in [D -> Nat] BY <1>6
    <2>2. ASSUME NEW s \in D, \A r \in D : m[r] < m[s] => r \in P PROVE s \in P
        <3>1. s \in SUBSET (1..(n + 1)) BY <1>1
        <3>2. H[s] = TokensAt(H, s, more, sep, max) BY <1>2, <3>1
        <3>3. G[s] = TokensAt(G, s, text, sep, max) BY <1>3
        <3>4. CASE s = {} BY <3>2, <3>3, <3>4, Zenon DEF TokensAt
        <3>5. CASE s # {}
            <4> DEFINE x == Greatest(s)
            <4>1. x \in s BY <1>1, <3>5, GreatestIs
            <4>2. Cardinality(s \ {x}) = Cardinality(s) - 1 BY <1>6, <4>1, FS_RemoveElement
            <4>3. s \ {x} \in D /\ m[s \ {x}] < m[s]
                <5>1. s \ {x} \in D OBVIOUS
                <5>2. m[s \ {x}] = Cardinality(s \ {x}) /\ m[s] = Cardinality(s) BY <5>1
                <5>3. Cardinality(s) \in Nat BY <1>6
                <5> QED BY <4>2, <5>1, <5>2, <5>3
            <4>4. H[s \ {x}] = G[s \ {x}] BY <2>2, <4>3
            <4>5. more[x] = text[x] BY <1>1, <4>1
            <4>6. TokensAt(H, s, more, sep, max) = SplitStep(H[s \ {x}], more[x], sep, max)
                BY <3>5, Zenon DEF TokensAt
            <4>7. TokensAt(G, s, text, sep, max) = SplitStep(G[s \ {x}], text[x], sep, max)
                BY <3>5, Zenon DEF TokensAt
            <4> HIDE DEF x
            <4> QED BY <3>2, <3>3, <4>4, <4>5, <4>6, <4>7
        <3> QED BY <3>4, <3>5
    <2> HIDE DEF P, m, D
    <2> QED BY <2>1, <2>2, MeasureInduction
<1>8. H[1..(n + 1)] = SplitStep(H[1..n], c, sep, max)
    <2> DEFINE s == 1..(n + 1)
    <2>1. s # {} /\ s \in SUBSET s /\ n + 1 \in s BY <1>1
    <2>2. Greatest(s) = n + 1
        <3>1. n + 1 \in Nat BY <1>1
        <3>2. Greatest(s) \in s /\ \A y \in s : Greatest(s) >= y BY <2>1, <3>1, GreatestIs
        <3>3. Greatest(s) \in Int /\ Greatest(s) <= n + 1 BY <1>1, <3>2
        <3>4. Greatest(s) >= n + 1 BY <2>1, <3>2
        <3> HIDE DEF s
        <3> QED BY <1>1, <3>3, <3>4
    <2>3. s \ {n + 1} = 1..n BY <1>1
    <2> HIDE DEF s
    <2>4. TokensAt(H, s, more, sep, max)
          = SplitStep(H[s \ {Greatest(s)}], more[Greatest(s)], sep, max)
        BY <2>1, Zenon DEF TokensAt
    <2>5. H[s] = TokensAt(H, s, more, sep, max) BY <1>2, <2>1 DEF s
    <2> QED BY <1>1, <2>2, <2>3, <2>4, <2>5 DEF s
<1>9. 1..n \in D OBVIOUS
<1> QED BY <1>3, <1>4, <1>5, <1>7, <1>8, <1>9 DEF more

LEMMA TokensOfNothing ==
    ASSUME NEW sep, NEW max
    PROVE  Tokens(<<>>, sep, max) = <<<<>>>>
<1>1. ASSUME NEW T, NEW text \in Seq(T), Len(text) = 0
      PROVE  Tokens(text, sep, max) = <<<<>>>>
    <2>1. 1..Len(text) = {} /\ 1..Len(text) \in SUBSET (1..Len(text)) BY <1>1
    <2>2. Tokens(text, sep, max) = TokensOf(text, sep, max)[1..Len(text)]
        BY TokensUnfold
    <2>3. TokensOf(text, sep, max)[1..Len(text)]
          = TokensAt(TokensOf(text, sep, max), 1..Len(text), text, sep, max)
        BY <2>1, TokensUnfold
    <2>4. TokensAt(TokensOf(text, sep, max), 1..Len(text), text, sep, max) = <<<<>>>>
        BY <2>1, Zenon DEF TokensAt
    <2> QED BY <2>2, <2>3, <2>4
<1>2. <<>> \in Seq(STRING) /\ Len(<<>>) = 0 BY EmptySeq
<1> QED BY <1>1, <1>2

\* A separator starts a token; what follows it, without one, fills that token.
LEMMA TokenStarts ==
    ASSUME NEW T, NEW text \in Seq(T), NEW sep \in T, NEW max,
           Room(Tokens(text, sep, max), max)
    PROVE  Tokens(Append(text, sep), sep, max) = Append(Tokens(text, sep, max), <<>>)
BY TokensAppend, Zenon DEF SplitStep

Without(u, sep) == \A k \in DOMAIN u : u[k] # sep

EndsEmpty(text, sep, max, tokens) == Tokens(text, sep, max) = Append(tokens, <<>>)

LEMMA TokenFills ==
    ASSUME NEW T, NEW text \in Seq(T), NEW sep, NEW max, NEW tokens \in Seq(Seq(T)),
           EndsEmpty(text, sep, max, tokens),
           NEW u \in Seq(T), Without(u, sep)
    PROVE  Tokens(text \o u, sep, max) = Append(tokens, u)
<1> DEFINE P == {v \in Seq(T) : Without(v, sep) =>
                                Tokens(text \o v, sep, max) = Append(tokens, v)}
<1>1. <<>> \in P
    <2>1. <<>> \in Seq(T) /\ text \o <<>> = text BY EmptySeq, ConcatEmptySeq
    <2> QED BY <2>1 DEF EndsEmpty
<1>2. ASSUME NEW f \in Seq(T), NEW x \in T, f \in P PROVE Append(f, x) \in P
    <2> SUFFICES ASSUME Without(Append(f, x), sep)
                 PROVE  Tokens(text \o Append(f, x), sep, max) = Append(tokens, Append(f, x))
        BY AppendProperties
    <2>1. /\ Append(f, x) \in Seq(T) /\ Len(Append(f, x)) = Len(f) + 1 /\ Len(f) \in Nat
          /\ Append(f, x)[Len(f) + 1] = x
          /\ \A k \in 1..Len(f) : Append(f, x)[k] = f[k]
        BY AppendProperties
    <2>2. x # sep
        <3>1. Len(f) + 1 \in DOMAIN Append(f, x) BY <2>1
        <3> QED BY <2>1, <3>1 DEF Without
    <2>3. Without(f, sep)
        <3>1. ASSUME NEW k \in DOMAIN f PROVE f[k] # sep
            <4>1. k \in 1..Len(f) /\ k \in DOMAIN Append(f, x) BY <2>1
            <4> QED BY <2>1, <4>1 DEF Without
        <3> QED BY <3>1 DEF Without
    <2>4. Tokens(text \o f, sep, max) = Append(tokens, f) BY <1>2, <2>3
    <2>5. text \o f \in Seq(T) /\ text \o Append(f, x) = Append(text \o f, x)
        BY ConcatProperties, ConcatAppend
    <2>6. Tokens(text \o Append(f, x), sep, max)
          = SplitStep(Append(tokens, f), x, sep, max)
        <3> DEFINE t2 == text \o f
        <3>1. t2 \in Seq(T) BY <2>5
        <3> HIDE DEF t2
        <3>2. Tokens(Append(t2, x), sep, max) = SplitStep(Tokens(t2, sep, max), x, sep, max)
            BY <3>1, TokensAppend
        <3> QED BY <2>4, <2>5, <3>2 DEF t2
    <2> DEFINE before == Append(tokens, f)
    <2>7. /\ before \in Seq(Seq(T)) /\ Len(before) = Len(tokens) + 1 /\ Len(tokens) \in Nat
          /\ before[Len(tokens) + 1] = f
          /\ \A k \in 1..Len(tokens) : before[k] = tokens[k]
        BY AppendProperties
    <2> HIDE DEF before
    <2>8. SplitStep(before, x, sep, max)
          = [before EXCEPT ![Len(before)] = Append(before[Len(before)], x)]
        BY <2>2, Zenon DEF SplitStep
    <2> DEFINE y == Append(f, x)
               after == Append(tokens, y)
    <2>9. /\ after \in Seq(Seq(T)) /\ Len(after) = Len(tokens) + 1
          /\ after[Len(tokens) + 1] = y
          /\ \A k \in 1..Len(tokens) : after[k] = tokens[k]
        BY <2>1, AppendProperties
    <2> HIDE DEF y, after
    <2>10. [before EXCEPT ![Len(before)] = y] = after
        <3> DEFINE e == [before EXCEPT ![Len(before)] = y]
        <3>1. Len(before) \in 1..Len(before) /\ y \in Seq(T) BY <2>1, <2>7 DEF y
        <3>2. /\ e \in Seq(Seq(T)) /\ Len(e) = Len(before)
              /\ \A k \in 1..Len(before) : e[k] = IF k = Len(before) THEN y ELSE before[k]
            BY <2>7, <3>1, ExceptSeq
        <3> HIDE DEF e
        <3>3. ASSUME NEW k \in 1..Len(e) PROVE e[k] = after[k]
            <4>1. CASE k = Len(before) BY <2>7, <2>9, <3>2, <4>1
            <4>2. CASE k # Len(before)
                <5>1. k \in 1..Len(tokens) BY <2>7, <3>2, <4>2
                <5> QED BY <2>7, <2>9, <3>2, <4>2, <5>1
            <4> QED BY <4>1, <4>2
        <3>4. e = after BY <2>7, <2>9, <3>2, <3>3, SeqEqual
        <3> QED BY <3>4 DEF e
    <2>11. Append(before[Len(before)], x) = y BY <2>7 DEF y
    <2> QED BY <2>6, <2>8, <2>10, <2>11 DEF before, after, y
<1>3. Seq(T) \subseteq P
    <2> HIDE DEF P
    <2> QED BY <1>1, <1>2, SequenceInduction2
<1> QED BY <1>3

-----------------------------------------------------------------------------
(* Texts translated character by character, and joined. *)

\* A function applied to each element of a sequence.
Image(e, s) == [k \in DOMAIN s |-> e[s[k]]]
Takes(e, S, R) == e \in [S -> R]

LEMMA ImageAppend ==
    ASSUME NEW S, NEW R, NEW e, Takes(e, S, R), NEW s \in Seq(S), NEW x \in S
    PROVE  /\ Image(e, s) \in Seq(R) /\ Len(Image(e, s)) = Len(s)
           /\ Image(e, Append(s, x)) = Append(Image(e, s), e[x])
<1> DEFINE n == Len(s)
           v == Image(e, s)
           t == Append(s, x)
           w == Image(e, t)
           z == Append(v, e[x])
<1>0. e \in [S -> R] BY DEF Takes
<1>1. n \in Nat /\ DOMAIN s = 1..n /\ \A k \in 1..n : s[k] \in S OBVIOUS
<1>2. v = [k \in 1..n |-> e[s[k]]] BY <1>1 DEF Image
<1>3. v \in Seq(R) /\ Len(v) = n /\ \A k \in 1..n : v[k] = e[s[k]]
    BY <1>0, <1>1, <1>2
<1>4. /\ t \in Seq(S) /\ Len(t) = n + 1 /\ t[n + 1] = x /\ \A k \in 1..n : t[k] = s[k]
    BY <1>1, AppendProperties
<1> HIDE DEF v, t
<1>5. DOMAIN t = 1..(n + 1) /\ \A k \in 1..(n + 1) : t[k] \in S BY <1>1, <1>4
<1>6. w = [k \in 1..(n + 1) |-> e[t[k]]] BY <1>5 DEF Image
<1>7. /\ w \in Seq(R) /\ Len(w) = n + 1 /\ \A k \in 1..(n + 1) : w[k] = e[t[k]]
    BY <1>0, <1>1, <1>5, <1>6
<1>8. e[x] \in R BY <1>0
<1>9. /\ z \in Seq(R) /\ Len(z) = n + 1 /\ z[n + 1] = e[x] /\ \A k \in 1..n : z[k] = v[k]
    BY <1>1, <1>3, <1>8, AppendProperties
<1> HIDE DEF w, z, n
<1>10. ASSUME NEW k \in 1..Len(w) PROVE w[k] = z[k]
    <2>1. k \in 1..n \/ k = n + 1 BY <1>1, <1>7
    <2> QED BY <1>1, <1>3, <1>4, <1>7, <1>9, <2>1
<1>11. w = z BY <1>7, <1>9, <1>10, SeqEqual
<1> QED BY <1>3, <1>11 DEF v, w, z, t, n

LEMMA ImageNothing ==
    ASSUME NEW e
    PROVE  Image(e, <<>>) = <<>>
BY DEF Image

LEMMA WithoutConcat ==
    ASSUME NEW T, NEW s \in Seq(T), NEW t \in Seq(T), NEW c, Without(s, c), Without(t, c)
    PROVE  Without(s \o t, c)
<1> DEFINE w == s \o t
<1>1. /\ w \in Seq(T) /\ Len(w) = Len(s) + Len(t) /\ Len(s) \in Nat /\ Len(t) \in Nat
      /\ \A k \in 1..Len(s) : w[k] = s[k]
      /\ \A k \in 1..Len(t) : w[Len(s) + k] = t[k]
    BY ConcatProperties
<1> HIDE DEF w
<1>2. ASSUME NEW k \in DOMAIN w PROVE w[k] # c
    <2>1. k \in 1..(Len(s) + Len(t)) BY <1>1
    <2>2. CASE k <= Len(s)
        <3>1. k \in 1..Len(s) /\ k \in DOMAIN s BY <1>1, <2>1, <2>2
        <3> QED BY <1>1, <3>1 DEF Without
    <2>3. CASE k > Len(s)
        <3>1. k - Len(s) \in 1..Len(t) /\ Len(s) + (k - Len(s)) = k BY <1>1, <2>1, <2>3
        <3>2. w[k] = t[k - Len(s)] BY <1>1, <3>1
        <3> QED BY <3>1, <3>2 DEF Without
    <2> QED BY <1>1, <2>1, <2>2, <2>3
<1> QED BY <1>2 DEF Without, w

LEMMA ConsLength ==
    ASSUME NEW S, NEW c \in S, NEW s \in Seq(S)
    PROVE  Len(<<c>> \o s) = 1 + Len(s)
<1>1. <<c>> \in Seq(S) /\ Len(<<c>>) = 1 OBVIOUS
<1> QED BY <1>1, ConcatProperties

\* A text translated character by character, and what is found in the translation.
Translated(e, t) == FlattenSeq(Image(e, t))

LEMMA TranslatedNothing == \A e : Translated(e, <<>>) = <<>>
BY ImageNothing, FlattenNothing DEF Translated

LEMMA TranslatedIsText ==
    ASSUME NEW S, NEW R, NEW e, Takes(e, S, Seq(R)), NEW t \in Seq(S)
    PROVE  Translated(e, t) \in Seq(R)
<1>1. PICK T : T = Seq(R) OBVIOUS
<1>2. Takes(e, S, T) BY <1>1
<1>3. Image(e, t) \in Seq(T)
    <2>1. CASE t = <<>> BY <2>1, ImageNothing, EmptySeq
    <2>2. CASE t # <<>>
        <3>1. 1 \in 1..Len(t) BY <2>2, EmptySeq
        <3>2. PICK x : x \in S BY <3>1
        <3> QED BY <1>2, <3>2, ImageAppend
    <2> QED BY <2>1, <2>2
<1> QED BY <1>1, <1>3, FlattenIsText DEF Translated

LEMMA TranslatedAppend ==
    ASSUME NEW S, NEW R, NEW e, Takes(e, S, Seq(R)), NEW t \in Seq(S), NEW c \in S
    PROVE  Translated(e, Append(t, c)) = Translated(e, t) \o e[c]
<1>1. PICK T : T = Seq(R) OBVIOUS
<1>2. Takes(e, S, T) BY <1>1
<1>3. Image(e, t) \in Seq(T) /\ Image(e, Append(t, c)) = Append(Image(e, t), e[c])
    BY <1>2, ImageAppend
<1>4. e[c] \in Seq(R) BY DEF Takes
<1> QED BY <1>1, <1>3, <1>4, FlattenAppend DEF Translated

LEMMA TranslatedWithout ==
    ASSUME NEW S, NEW R, NEW e, Takes(e, S, Seq(R)), NEW sep,
           \A c \in S : Without(e[c], sep), NEW t \in Seq(S)
    PROVE  Without(Translated(e, t), sep)
<1> DEFINE P == {s \in Seq(S) : Without(Translated(e, s), sep)}
<1>1. <<>> \in P
    <2>1. <<>> \in Seq(S) /\ Without(<<>>, sep) BY EmptySeq DEF Without
    <2> QED BY <2>1, TranslatedNothing
<1>2. ASSUME NEW f \in Seq(S), NEW c \in S, f \in P PROVE Append(f, c) \in P
    <2>1. Append(f, c) \in Seq(S) BY AppendProperties
    <2>2. Translated(e, f) \in Seq(R) /\ e[c] \in Seq(R) BY TranslatedIsText DEF Takes
    <2>3. Without(Translated(e, f) \o e[c], sep) BY <1>2, <2>2, WithoutConcat
    <2>4. Translated(e, Append(f, c)) = Translated(e, f) \o e[c]
        <3> HIDE DEF P
        <3> QED BY TranslatedAppend
    <2> QED BY <2>1, <2>3, <2>4
<1>3. Seq(S) \subseteq P
    <2> HIDE DEF P
    <2> QED BY <1>1, <1>2, SequenceInduction2
<1> QED BY <1>3

\* d reads back, from the front of any text in U, the characters that e translates.
Reverses(d, e, S, U) ==
    /\ Takes(e, S, Seq(S)) /\ Takes(d, U, Seq(S)) /\ U \subseteq Seq(S)
    /\ <<>> \in U /\ d[<<>>] = <<>>
    /\ \A c \in S : \A u \in U : e[c] \o u \in U /\ d[e[c] \o u] = <<c>> \o d[u]

LEMMA TranslatedComesBack ==
    ASSUME NEW S, NEW d, NEW e, NEW U, Reverses(d, e, S, U), NEW t \in Seq(S)
    PROVE  Translated(e, t) \in U /\ d[Translated(e, t)] = t
<1> DEFINE P == {s \in Seq(S) : \A u \in U : /\ Translated(e, s) \o u \in U
                                           /\ d[Translated(e, s) \o u] = s \o d[u]}
<1>0. Takes(e, S, Seq(S)) /\ \A u \in U : u \in Seq(S) /\ d[u] \in Seq(S) BY DEF Reverses, Takes
<1>1. <<>> \in P
    <2>1. <<>> \in Seq(S) BY EmptySeq
    <2>2. ASSUME NEW u \in U
          PROVE  Translated(e, <<>>) \o u \in U /\ d[Translated(e, <<>>) \o u] = <<>> \o d[u]
        <3>1. PICK v : v = d[u] OBVIOUS
        <3>2. u \in Seq(S) /\ v \in Seq(S) BY <1>0, <3>1
        <3>3. <<>> \o u = u /\ <<>> \o v = v BY <3>2, ConcatEmptySeq
        <3> QED BY <3>1, <3>3, TranslatedNothing
    <2> QED BY <2>1, <2>2
<1>2. ASSUME NEW f \in Seq(S), NEW c \in S, f \in P PROVE Append(f, c) \in P
    <2>1. Append(f, c) \in Seq(S) BY AppendProperties
    <2>2. ASSUME NEW u \in U
          PROVE  /\ Translated(e, Append(f, c)) \o u \in U
                 /\ d[Translated(e, Append(f, c)) \o u] = Append(f, c) \o d[u]
        <3> DEFINE a == Translated(e, f)
                   b == e[c]
                   v == d[u]
        <3>1. a \in Seq(S) /\ b \in Seq(S) /\ u \in Seq(S) /\ v \in Seq(S)
            BY <1>0, TranslatedIsText DEF Takes
        <3>2. b \o u \in U /\ d[b \o u] = <<c>> \o v BY DEF Reverses
        <3>3. a \o (b \o u) \in U /\ d[a \o (b \o u)] = f \o (<<c>> \o v) BY <1>2, <3>2
        <3>4. Translated(e, Append(f, c)) = a \o b BY <1>0, TranslatedAppend
        <3> HIDE DEF a, b, v
        <3>5. (a \o b) \o u = a \o (b \o u)
            <4> HIDE DEF P
            <4> QED BY <3>1, ConcatAssociative, SMTT(30)
        <3>6. Append(f, c) \o v = f \o (<<c>> \o v)
            <4>1. PICK w : w = v OBVIOUS
            <4>2. w \in Seq(S) BY <3>1, <4>1
            <4>3. Append(f, c) \o w = f \o (<<c>> \o w) BY <4>2, ConcatAppend
            <4> QED BY <4>1, <4>3
        <3> QED BY <3>3, <3>4, <3>5, <3>6 DEF v
    <2> QED BY <2>1, <2>2
<1>3. Seq(S) \subseteq P
    <2> HIDE DEF P
    <2> QED BY <1>1, <1>2, SequenceInduction2
<1>4. <<>> \in U /\ Translated(e, t) \in Seq(S) BY <1>0, TranslatedIsText DEF Reverses
<1>5. Translated(e, t) \o <<>> \in U /\ d[Translated(e, t) \o <<>>] = t \o d[<<>>] BY <1>3, <1>4
<1>6. Translated(e, t) \o <<>> = Translated(e, t) /\ t \o <<>> = t BY <1>4, ConcatEmptySeq
<1> QED BY <1>5, <1>6 DEF Reverses

LEMMA AppendConcat ==
    ASSUME NEW S, NEW m \in Seq(S), NEW x \in S, NEW w \in Seq(S)
    PROVE  Append(m, x) \o w = m \o (<<x>> \o w)
BY ConcatAppend

\* Joined texts are told apart again.
Separated(sep, S) == [t \in Seq(S) |-> <<sep>> \o t]

LEMMA SeparatedIs ==
    ASSUME NEW S, NEW sep \in S
    PROVE  /\ Takes(Separated(sep, S), Seq(S), Seq(S))
           /\ \A t \in Seq(S) : Separated(sep, S)[t] = <<sep>> \o t
BY Cons1 DEF Separated, Takes

LEMMA OneToken ==
    ASSUME NEW S, NEW u \in Seq(S), NEW sep, NEW max, Without(u, sep)
    PROVE  Tokens(u, sep, max) = <<u>>
<1>1. PICK none : none = <<>> OBVIOUS
<1>2. none \in Seq(S) /\ none \in Seq(Seq(S)) BY <1>1, EmptySeq
<1>3. Append(<<>>, <<>>) = <<<<>>>> /\ Append(<<>>, u) = <<u>> OBVIOUS
<1>4. EndsEmpty(none, sep, max, none) BY <1>1, <1>3, TokensOfNothing DEF EndsEmpty
<1>5. Tokens(none \o u, sep, max) = Append(none, u) BY <1>2, <1>4, TokenFills
<1>6. none \o u = u BY <1>1, ConcatEmptySeq
<1> QED BY <1>1, <1>3, <1>5, <1>6

AllWithout(texts, sep) == \A k \in DOMAIN texts : Without(texts[k], sep)

LEMMA SeparatedTokens ==
    ASSUME NEW S, NEW sep \in S, NEW max \in Int, NEW a \in Seq(S), Without(a, sep),
           NEW texts \in Seq(Seq(S)), AllWithout(texts, sep), max < 1 \/ Len(texts) + 1 <= max
    PROVE  /\ a \o Translated(Separated(sep, S), texts) \in Seq(S)
           /\ Tokens(a \o Translated(Separated(sep, S), texts), sep, max) = <<a>> \o texts
<1> DEFINE e == Separated(sep, S)
           T == Seq(S)
           line(vs) == a \o Translated(e, vs)
           P == {vs \in Seq(T) :
                    AllWithout(vs, sep) /\ (max < 1 \/ Len(vs) + 1 <= max) =>
                        Tokens(line(vs), sep, max) = <<a>> \o vs}
<1>1. Takes(e, T, T) /\ \A t \in T : e[t] = <<sep>> \o t BY SeparatedIs
<1> HIDE DEF e
<1>2. ASSUME NEW vs \in Seq(T) PROVE Translated(e, vs) \in T /\ line(vs) \in T
    BY <1>1, TranslatedIsText, ConcatProperties
<1>3. <<>> \in P
    <2>1. <<>> \in Seq(T) BY EmptySeq
    <2>2. line(<<>>) = a BY TranslatedNothing, ConcatEmptySeq
    <2>3. Tokens(a, sep, max) = <<a>> BY OneToken
    <2>4. <<a>> \o <<>> = <<a>>
        <3>1. <<a>> \in Seq(T) OBVIOUS
        <3> QED BY <3>1, ConcatEmptySeq
    <2> QED BY <2>1, <2>2, <2>3, <2>4
<1>4. ASSUME NEW vs \in Seq(T), NEW v \in T, vs \in P PROVE Append(vs, v) \in P
    <2> DEFINE ws == Append(vs, v)
    <2>1. /\ ws \in Seq(T) /\ Len(ws) = Len(vs) + 1 /\ Len(vs) \in Nat
          /\ ws[Len(vs) + 1] = v /\ \A k \in 1..Len(vs) : ws[k] = vs[k]
        BY AppendProperties
    <2> HIDE DEF ws
    <2> SUFFICES ASSUME AllWithout(ws, sep), max < 1 \/ Len(ws) + 1 <= max
                 PROVE  Tokens(line(ws), sep, max) = <<a>> \o ws
        BY <2>1 DEF ws
    <2>2. AllWithout(vs, sep) /\ Without(v, sep)
        <3>1. ASSUME NEW k \in DOMAIN vs PROVE Without(vs[k], sep)
            <4>1. k \in 1..Len(vs) /\ k \in DOMAIN ws BY <2>1
            <4> QED BY <2>1, <4>1 DEF AllWithout
        <3>2. Len(vs) + 1 \in DOMAIN ws BY <2>1
        <3> QED BY <2>1, <3>1, <3>2 DEF AllWithout
    <2>3. max < 1 \/ Len(vs) + 1 < max BY <2>1
    <2>4. Tokens(line(vs), sep, max) = <<a>> \o vs BY <1>4, <2>1, <2>2, <2>3
    <2>5. PICK m : m = line(vs) OBVIOUS
    <2>6. m \in T BY <1>2, <2>5
    <2>7. Append(m, sep) \in T BY <2>6, AppendProperties
    <2>8. line(ws) = Append(m, sep) \o v
        <3>1. Translated(e, ws) = Translated(e, vs) \o e[v] BY <1>1, TranslatedAppend DEF ws
        <3>2. PICK b : b = Translated(e, vs) OBVIOUS
        <3>3. b \in T /\ <<sep>> \o v \in T BY <1>2, <3>2, Cons1
        <3>4. a \o (b \o (<<sep>> \o v)) = (a \o b) \o (<<sep>> \o v)
            <4>1. PICK r : r = <<sep>> \o v OBVIOUS
            <4>2. a \in Seq(S) /\ b \in Seq(S) /\ r \in Seq(S) BY <3>3, <4>1
            <4> HIDE DEF P, T, line
            <4>3. a \o (b \o r) = (a \o b) \o r
                BY <4>2, ConcatAssociative, SMTT(30)
            <4> QED BY <4>1, <4>3
        <3>5. Append(m, sep) \o v = m \o (<<sep>> \o v)
            <4>1. PICK w : w = v OBVIOUS
            <4>2. w \in Seq(S) /\ m \in Seq(S) BY <2>6, <4>1
            <4>3. Append(m, sep) \o w = m \o (<<sep>> \o w) BY <4>2, AppendConcat
            <4> QED BY <4>1, <4>3
        <3> QED BY <1>1, <2>5, <3>1, <3>2, <3>4, <3>5
    <2>9. <<a>> \o vs \in Seq(T) /\ Len(<<a>> \o vs) = 1 + Len(vs)
        <3>1. a \in T OBVIOUS
        <3> HIDE DEF T
        <3> QED BY <3>1, Cons1, ConsLength
    <2>10. Room(Tokens(m, sep, max), max) BY <2>1, <2>3, <2>4, <2>5, <2>9 DEF Room
    <2>11. Tokens(Append(m, sep), sep, max) = Append(<<a>> \o vs, <<>>)
        <3> HIDE DEF P, line
        <3>1. Tokens(m, sep, max) = <<a>> \o vs BY <2>4, <2>5
        <3>2. Tokens(Append(m, sep), sep, max) = Append(Tokens(m, sep, max), <<>>)
            BY <2>6, <2>10, TokenStarts
        <3> QED BY <3>1, <3>2
    <2>12. PICK tokens, n : tokens = <<a>> \o vs /\ n = Append(m, sep) OBVIOUS
    <2>13. EndsEmpty(n, sep, max, tokens) BY <2>11, <2>12 DEF EndsEmpty
    <2>14. n \in Seq(S) /\ tokens \in Seq(Seq(S)) BY <2>7, <2>9, <2>12
    <2>15. Tokens(n \o v, sep, max) = Append(tokens, v) BY <2>2, <2>13, <2>14, TokenFills
    <2>16. Append(<<a>> \o vs, v) = <<a>> \o ws
        <3>1. a \in T OBVIOUS
        <3> HIDE DEF T
        <3>2. <<a>> \in Seq(T) BY <3>1
        <3>3. <<a>> \o Append(vs, v) = Append(<<a>> \o vs, v) BY <3>2, ConcatAppend
        <3> QED BY <3>3 DEF ws
    <2> QED BY <2>8, <2>12, <2>15, <2>16
<1>5. Seq(T) \subseteq P
    <2> HIDE DEF P, T
    <2> QED BY <1>3, <1>4, SequenceInduction2
<1> QED BY <1>2, <1>5 DEF e

\* The first of the joined texts stands in front.
LEMMA JoinIs ==
    ASSUME NEW S, NEW sep \in S, NEW texts \in Seq(Seq(S)), texts # <<>>
    PROVE  /\ Head(texts) \in Seq(S) /\ Tail(texts) \in Seq(Seq(S))
           /\ Join(texts, <<sep>>) = Head(texts) \o Translated(Separated(sep, S), Tail(texts))
           /\ Translated(Separated(sep, S), Tail(texts)) \in Seq(S)
           /\ Join(texts, <<sep>>) \in Seq(S)
<1> DEFINE e == Separated(sep, S)
           T == Seq(S)
           rest == Tail(texts)
<1>1. Head(texts) \in T /\ rest \in Seq(T) BY HeadTailProperties
<1>2. Takes(e, T, T) /\ \A t \in T : e[t] = <<sep>> \o t BY SeparatedIs
<1> HIDE DEF e, rest
<1>3. Map(LAMBDA t : <<sep>> \o t, rest) = Image(e, rest)
    <2>1. \A k \in DOMAIN rest : rest[k] \in T BY <1>1
    <2>2. \A k \in DOMAIN rest : e[rest[k]] = <<sep>> \o rest[k] BY <1>2, <2>1
    <2> QED BY <2>2 DEF Map, Image
<1>4. Join(texts, <<sep>>) = Head(texts) \o Translated(e, rest)
    BY <1>3 DEF Join, Translated, rest
<1>5. Translated(e, rest) \in T BY <1>1, <1>2, TranslatedIsText
<1> QED BY <1>1, <1>4, <1>5, ConcatProperties DEF e, rest

LEMMA JoinedAreTold ==
    ASSUME NEW S, NEW sep \in S, NEW max \in Int, NEW texts \in Seq(Seq(S)), texts # <<>>,
           AllWithout(texts, sep), max < 1 \/ Len(texts) <= max
    PROVE  Tokens(Join(texts, <<sep>>), sep, max) = texts
<1> DEFINE a == Head(texts)
           rest == Tail(texts)
<1>1. /\ a \in Seq(S) /\ rest \in Seq(Seq(S)) /\ Len(rest) + 1 = Len(texts)
      /\ a = texts[1] /\ Len(texts) \in Nat /\ 1 \in 1..Len(texts)
      /\ \A k \in 1..Len(rest) : rest[k] = texts[k + 1]
      /\ <<a>> \o rest = texts
    OBVIOUS
<1>2. Without(a, sep) BY <1>1 DEF AllWithout
<1>3. AllWithout(rest, sep)
    <2>1. ASSUME NEW k \in DOMAIN rest PROVE Without(rest[k], sep)
        <3>1. k \in 1..Len(rest) /\ k + 1 \in DOMAIN texts BY <1>1
        <3> QED BY <1>1, <3>1 DEF AllWithout
    <2> QED BY <2>1 DEF AllWithout
<1>4. max < 1 \/ Len(rest) + 1 <= max BY <1>1
<1> HIDE DEF a, rest
<1>5. Tokens(a \o Translated(Separated(sep, S), rest), sep, max) = <<a>> \o rest
    BY <1>1, <1>2, <1>3, <1>4, SeparatedTokens
<1> QED BY <1>1, <1>5, JoinIs DEF a, rest

LEMMA JoinedIsSplit ==
    ASSUME NEW S, NEW sep \in S, NEW max \in Int, NEW texts \in Seq(Seq(S)), texts # <<>>,
           AllWithout(texts, sep), max < 1 \/ Len(texts) <= max,
           Join(texts, <<sep>>) # <<>>
    PROVE  Split(Join(texts, <<sep>>), sep, max) = texts
BY JoinedAreTold, SplitIsTokens

LEMMA JoinHasSeparator ==
    ASSUME NEW S, NEW sep \in S, NEW texts \in Seq(Seq(S)), Len(texts) > 1,
           AllWithout(texts, sep)
    PROVE  ~Without(Join(texts, <<sep>>), sep) /\ Join(texts, <<sep>>) # <<>>
<1>1. PICK max : max = 0 OBVIOUS
<1>2. max \in Int /\ max < 1 BY <1>1
<1>3. texts # <<>> /\ Len(texts) \in Nat BY EmptySeq
<1>4. Tokens(Join(texts, <<sep>>), sep, max) = texts BY <1>2, <1>3, JoinedAreTold
<1>5. PICK t : t = Join(texts, <<sep>>) OBVIOUS
<1>6. t \in Seq(S) BY <1>3, <1>5, JoinIs
<1>7. ASSUME Without(t, sep) PROVE FALSE
    <2>1. Tokens(t, sep, max) = <<t>> BY <1>6, <1>7, OneToken
    <2>2. Len(<<t>>) = 1 OBVIOUS
    <2>3. Len(texts) = 1 BY <1>4, <1>5, <2>1, <2>2, Zenon
    <2> QED BY <2>3
<1>8. Without(<<>>, sep) BY DEF Without
<1> QED BY <1>5, <1>7, <1>8

LEMMA JoinBegins ==
    ASSUME NEW S, NEW sep \in S, NEW texts \in Seq(Seq(S)), texts # <<>>, NEW c,
           ~Without(Head(texts), c)
    PROVE  ~Without(Join(texts, <<sep>>), c)
<1> DEFINE a == Head(texts)
           b == Translated(Separated(sep, S), Tail(texts))
<1>1. a \in Seq(S) /\ b \in Seq(S) /\ Join(texts, <<sep>>) = a \o b BY JoinIs
<1>2. PICK k \in DOMAIN a : a[k] = c BY DEF Without
<1> HIDE DEF a, b
<1>3. k \in DOMAIN (a \o b) /\ (a \o b)[k] = a[k]
    <2>1. /\ Len(a) \in Nat /\ Len(b) \in Nat /\ k \in 1..Len(a)
          /\ a \o b \in Seq(S) /\ Len(a \o b) = Len(a) + Len(b)
          /\ \A n \in 1..Len(a) : (a \o b)[n] = a[n]
        BY <1>1, ConcatProperties
    <2>2. k \in 1..Len(a \o b) BY <2>1
    <2> QED BY <2>1, <2>2
<1> QED BY <1>1, <1>2, <1>3 DEF Without

LEMMA JoinWithout ==
    ASSUME NEW S, NEW sep \in S, NEW texts \in Seq(Seq(S)), texts # <<>>, NEW c, c # sep,
           AllWithout(texts, c)
    PROVE  Without(Join(texts, <<sep>>), c)
<1> DEFINE T == {t \in Seq(S) : Without(t, c)}
           e == [t \in T |-> <<sep>> \o t]
           rest == Tail(texts)
<1>1. texts \in Seq(T)
    <2>1. \A k \in DOMAIN texts : texts[k] \in T BY DEF AllWithout
    <2> HIDE DEF T
    <2> QED BY <2>1
<1>2. Head(texts) \in T /\ rest \in Seq(T)
    <2> HIDE DEF T
    <2> QED BY <1>1
<1>3. \A t \in T : e[t] = <<sep>> \o t OBVIOUS
<1>4. ASSUME NEW t \in T PROVE <<sep>> \o t \in Seq(S) /\ Without(<<sep>> \o t, c)
    <2>1. <<sep>> \in Seq(S) /\ Without(<<sep>>, c) BY DEF Without
    <2> QED BY <2>1, ConcatProperties, WithoutConcat
<1>5. Takes(e, T, Seq(S)) BY <1>4 DEF Takes
<1>6. \A t \in T : Without(e[t], c) BY <1>3, <1>4
<1> HIDE DEF e, rest
<1>7. Map(LAMBDA t : <<sep>> \o t, rest) = Image(e, rest)
    <2>1. \A k \in DOMAIN rest : rest[k] \in T
        <3> HIDE DEF T
        <3> QED BY <1>2
    <2>2. \A k \in DOMAIN rest : e[rest[k]] = <<sep>> \o rest[k] BY <1>3, <2>1
    <2> QED BY <2>2 DEF Map, Image
<1>8. Join(texts, <<sep>>) = Head(texts) \o Translated(e, rest)
    BY <1>7 DEF Join, Translated, rest
<1> HIDE DEF T
<1>9. Translated(e, rest) \in Seq(S) /\ Without(Translated(e, rest), c)
    BY <1>2, <1>5, <1>6, TranslatedIsText, TranslatedWithout
<1>10. Head(texts) \in Seq(S) /\ Without(Head(texts), c) BY <1>2 DEF T
<1> QED BY <1>8, <1>9, <1>10, WithoutConcat

-----------------------------------------------------------------------------
(* A line of arguments. *)

Unescape(c) == CASE c = "n" -> "NL" [] c = "t" -> "TAB" [] OTHER -> c
CompressedAt(g, t, k) ==
    IF k > Len(t) THEN <<>>
    ELSE IF t[k] = "\\" /\ k < Len(t) THEN <<Unescape(t[k + 1])>> \o g[k + 2]
    ELSE <<t[k]>> \o g[k + 1]

LEMMA UnescapeIsCharacter == \A c \in STRING : Unescape(c) \in STRING
<1>1. "NL" \in STRING /\ "TAB" \in STRING BY CharactersAreStrings
<1> SUFFICES ASSUME NEW c \in STRING PROVE Unescape(c) \in STRING OBVIOUS
<1>2. Unescape(c) \in {"NL", "TAB", c} BY DEF Unescape
<1> QED BY <1>1, <1>2

LEMMA CompressedFromUnfolds ==
    ASSUME NEW t \in Seq(STRING)
    PROVE  \A k \in 1..(Len(t) + 2) :
               /\ CompressedFrom(t)[k] = CompressedAt(CompressedFrom(t), t, k)
               /\ CompressedFrom(t)[k] \in Seq(STRING)
<1> DEFINE D == 1..(Len(t) + 2)
           R == Seq(STRING)
           m == [k \in D |-> Len(t) + 2 - k]
           B == [g \in [D -> R] |-> [k \in D |-> CompressedAt(g, t, k)]]
<1>0. Len(t) \in Nat OBVIOUS
<1>1. ASSUME NEW g, NEW k \in D, \A r \in D : r > k => g[r] \in R
      PROVE  CompressedAt(g, t, k) \in R
    <2>1. CASE k > Len(t) BY <2>1 DEF CompressedAt
    <2>2. CASE k < Len(t) /\ t[k] = "\\"
        <3>1. g[k + 2] \in R /\ t[k + 1] \in STRING BY <1>0, <1>1, <2>2
        <3>2. <<Unescape(t[k + 1])>> \o g[k + 2] \in R BY <3>1, UnescapeIsCharacter, Cons1
        <3>3. CompressedAt(g, t, k) = <<Unescape(t[k + 1])>> \o g[k + 2]
            <4>1. ~(k > Len(t)) BY <1>0, <2>2
            <4> QED BY <2>2, <4>1, Zenon DEF CompressedAt
        <3> QED BY <3>2, <3>3
    <2>3. CASE k <= Len(t) /\ ~(k < Len(t) /\ t[k] = "\\")
        <3>1. g[k + 1] \in R BY <1>0, <1>1, <2>3
        <3>2. t[k] \in STRING BY <1>0, <2>3
        <3>3. <<t[k]>> \o g[k + 1] \in R BY <3>1, <3>2, Cons1
        <3>4. CompressedAt(g, t, k) = <<t[k]>> \o g[k + 1]
            <4>1. ~(k > Len(t)) BY <1>0, <2>3
            <4> QED BY <2>3, <4>1, Zenon DEF CompressedAt
        <3> QED BY <3>3, <3>4
    <2> QED BY <1>0, <2>1, <2>2, <2>3
<1>2. ASSUME NEW g, NEW h, NEW k \in D, \A r \in D : r > k => g[r] = h[r]
      PROVE  CompressedAt(g, t, k) = CompressedAt(h, t, k)
    <2>1. k <= Len(t) => g[k + 1] = h[k + 1] /\ g[k + 2] = h[k + 2] BY <1>0, <1>2
    <2> QED BY <1>0, <2>1 DEF CompressedAt
<1>3. m \in [D -> Nat] /\ \A s \in D : m[s] < Len(t) + 2 BY <1>0
<1>4. \A r, s \in D : m[r] < m[s] <=> r > s BY <1>0
<1>5. R # {} OBVIOUS
<1> HIDE DEF m, D, R
<1>6. Recurses(B, D, R, m, Len(t) + 2)
    <2>1. B \in [[D -> R] -> [D -> R]] BY <1>1
    <2>2. ASSUME NEW g \in [D -> R], NEW h \in [D -> R], NEW s \in D,
                 \A r \in D : m[r] < m[s] => g[r] = h[r]
          PROVE  B[g][s] = B[h][s]
        BY <1>2, <1>4, <2>2
    <2>3. Len(t) + 2 \in Nat BY <1>0
    <2> HIDE DEF B
    <2> QED BY <1>3, <1>5, <2>1, <2>2, <2>3 DEF Recurses
<1>7. \E g \in [D -> R] : g = B[g]
    <2> HIDE DEF B
    <2> QED BY <1>6, RecursiveFunction
<1>8. \E g : g = [s \in D |-> CompressedAt(g, t, s)] BY <1>7
<1>9. CompressedFrom(t) = CHOOSE g : g = [s \in D |-> CompressedAt(g, t, s)]
    BY DEF CompressedFrom, CompressedAt, Unescape, D
<1>10. CompressedFrom(t) = [s \in D |-> CompressedAt(CompressedFrom(t), t, s)]
    BY <1>8, <1>9
<1> HIDE DEF B
<1>11. \A s \in D : CompressedFrom(t)[s] = CompressedAt(CompressedFrom(t), t, s) BY <1>10
<1> DEFINE P == {k \in D : CompressedFrom(t)[k] \in R}
<1>12. D \subseteq P
    <2>1. \A s \in D : (\A r \in D : m[r] < m[s] => r \in P) => s \in P BY <1>1, <1>4, <1>11
    <2> HIDE DEF P
    <2> QED BY <1>3, <2>1, MeasureInduction
<1> QED BY <1>11, <1>12 DEF D, R

\* What stands before a place makes no difference from there on.
LEMMA CompressedFromShifts ==
    ASSUME NEW s \in Seq(STRING), NEW u \in Seq(STRING)
    PROVE  \A k \in 1..(Len(u) + 2) :
               CompressedFrom(s \o u)[Len(s) + k] = CompressedFrom(u)[k]
<1> DEFINE n == Len(s)
           l == Len(u)
           t == s \o u
           G == CompressedFrom(t)
           H == CompressedFrom(u)
           D == 1..(l + 2)
           m == [k \in D |-> l + 2 - k]
           P == {k \in D : G[n + k] = H[k]}
<1>1. /\ n \in Nat /\ l \in Nat /\ t \in Seq(STRING) /\ Len(t) = n + l
      /\ \A k \in 1..l : t[n + k] = u[k]
    BY ConcatProperties
<1>2. \A k \in 1..(Len(t) + 2) : G[k] = CompressedAt(G, t, k) BY <1>1, CompressedFromUnfolds
<1>3. \A k \in D : H[k] = CompressedAt(H, u, k) BY CompressedFromUnfolds
<1> HIDE DEF G, H, t, l, n
<1>4. ASSUME NEW k \in D, \A r \in D : r > k => G[n + r] = H[r]
      PROVE  G[n + k] = H[k]
    <2> DEFINE p == n + k
    <2>1. p \in 1..(Len(t) + 2) /\ (p > Len(t) <=> k > l) /\ (p < Len(t) <=> k < l)
        BY <1>1
    <2>2. k <= l => /\ t[p] = u[k] /\ G[p + 1] = H[k + 1] /\ G[p + 2] = H[k + 2]
        <3> SUFFICES ASSUME k <= l
                     PROVE  t[p] = u[k] /\ G[p + 1] = H[k + 1] /\ G[p + 2] = H[k + 2]
            OBVIOUS
        <3>1. k + 1 \in D /\ k + 2 \in D BY <1>1
        <3>2. p + 1 = n + (k + 1) /\ p + 2 = n + (k + 2) BY <1>1
        <3>3. G[n + (k + 1)] = H[k + 1] /\ G[n + (k + 2)] = H[k + 2] BY <1>4, <3>1
        <3>4. t[p] = u[k] BY <1>1
        <3> QED BY <3>2, <3>3, <3>4
    <2>3. k < l => t[p + 1] = u[k + 1]
        <3>1. k < l => k + 1 \in 1..l /\ p + 1 = n + (k + 1) BY <1>1
        <3> QED BY <1>1, <3>1
    <2>4. G[p] = CompressedAt(G, t, p) /\ H[k] = CompressedAt(H, u, k) BY <1>2, <1>3, <2>1
    <2>5. CompressedAt(G, t, p) = CompressedAt(H, u, k)
        <3>1. k > l \/ k <= l BY <1>1
        <3> HIDE DEF p, D
        <3>2. CASE k > l
            <4>1. k > Len(u) /\ p > Len(t) BY <2>1, <3>2 DEF l
            <4> QED BY <4>1, Zenon DEF CompressedAt
        <3>3. CASE k <= l
            <4>1. ~(k > Len(u)) /\ ~(p > Len(t)) /\ (p < Len(t) <=> k < Len(u))
                BY <1>1, <2>1, <3>3 DEF l, D
            <4>2. CASE t[p] = "\\" /\ p < Len(t)
                <5>1. t[p + 1] = u[k + 1] BY <2>1, <2>3, <4>2
                <5>2. CompressedAt(G, t, p) = <<Unescape(t[p + 1])>> \o G[p + 2]
                    BY <4>1, <4>2, Zenon DEF CompressedAt
                <5>3. CompressedAt(H, u, k) = <<Unescape(u[k + 1])>> \o H[k + 2]
                    BY <2>2, <3>3, <4>1, <4>2, Zenon DEF CompressedAt
                <5> QED BY <2>2, <3>3, <5>1, <5>2, <5>3
            <4>3. CASE ~(t[p] = "\\" /\ p < Len(t))
                <5>1. CompressedAt(G, t, p) = <<t[p]>> \o G[p + 1]
                    BY <4>1, <4>3, Zenon DEF CompressedAt
                <5>2. CompressedAt(H, u, k) = <<u[k]>> \o H[k + 1]
                    BY <2>2, <3>3, <4>1, <4>3, Zenon DEF CompressedAt
                <5> QED BY <2>2, <3>3, <5>1, <5>2
            <4> QED BY <4>2, <4>3
        <3> QED BY <3>1, <3>2, <3>3
    <2> QED BY <2>4, <2>5
<1>5. m \in [D -> Nat] /\ \A r, k \in D : m[r] < m[k] <=> r > k BY <1>1
<1>6. \A k \in D : (\A r \in D : m[r] < m[k] => r \in P) => k \in P BY <1>4, <1>5
<1>7. D \subseteq P
    <2> HIDE DEF P, m, D
    <2> QED BY <1>5, <1>6, MeasureInduction
<1> QED BY <1>7 DEF n, l, t, G, H

LEMMA DesanitizeIsText ==
    ASSUME NEW t \in Seq(STRING)
    PROVE  desanitize(t) \in Seq(STRING)
<1>1. 1 \in 1..(Len(t) + 2) OBVIOUS
<1> QED BY <1>1, CompressedFromUnfolds DEF desanitize

LEMMA DesanitizeNothing == desanitize(<<>>) = <<>>
<1>1. ASSUME NEW t \in Seq(STRING), Len(t) = 0 PROVE CompressedFrom(t)[1] = <<>>
    <2>1. 1 \in 1..(Len(t) + 2) /\ 1 > Len(t) BY <1>1
    <2>2. CompressedFrom(t)[1] = CompressedAt(CompressedFrom(t), t, 1)
        BY <2>1, CompressedFromUnfolds
    <2> QED BY <2>1, <2>2, Zenon DEF CompressedAt
<1>2. <<>> \in Seq(STRING) /\ Len(<<>>) = 0 BY EmptySeq
<1> QED BY <1>1, <1>2 DEF desanitize

LEMMA EscapedIs ==
    ASSUME NEW c \in STRING
    PROVE  \/ /\ c \notin {"\\", "NL", "TAB"} /\ Escaped(c) = <<c>>
           \/ \E e \in STRING \ {"NL", "TAB"} : Escaped(c) = <<"\\", e>> /\ Unescape(e) = c
<1>1. "\\" \in STRING /\ "n" \in STRING /\ "t" \in STRING BY CharactersAreStrings
<1>2. CASE c = "\\"
    <2>1. Escaped(c) = <<"\\", "\\">> /\ Unescape("\\") = c BY <1>2 DEF Escaped, Unescape
    <2>2. "\\" \in STRING \ {"NL", "TAB"} BY <1>1
    <2> QED BY <2>1, <2>2
<1>3. CASE c = "NL"
    <2>1. Escaped(c) = <<"\\", "n">> /\ Unescape("n") = c BY <1>3 DEF Escaped, Unescape
    <2>2. "n" \in STRING \ {"NL", "TAB"} BY <1>1
    <2> QED BY <2>1, <2>2
<1>4. CASE c = "TAB"
    <2>1. Escaped(c) = <<"\\", "t">> /\ Unescape("t") = c BY <1>4 DEF Escaped, Unescape
    <2>2. "t" \in STRING \ {"NL", "TAB"} BY <1>1
    <2> QED BY <2>1, <2>2
<1>5. CASE c \notin {"\\", "NL", "TAB"} BY <1>5 DEF Escaped
<1> QED BY <1>2, <1>3, <1>4, <1>5

\* Neither separator of the line is left in what has been escaped.
Clean(t) == Without(t, "TAB") /\ Without(t, "NL")

LEMMA EscapedIsClean ==
    ASSUME NEW c \in STRING
    PROVE  Escaped(c) \in Seq(STRING) /\ Clean(Escaped(c))
<1>1. "\\" \in STRING BY CharactersAreStrings
<1>2. CASE c \notin {"\\", "NL", "TAB"} /\ Escaped(c) = <<c>>
    <2>1. <<c>> \in Seq(STRING) /\ Clean(<<c>>) BY <1>2 DEF Clean, Without
    <2> QED BY <1>2, <2>1
<1>3. ASSUME NEW e \in STRING \ {"NL", "TAB"}, Escaped(c) = <<"\\", e>>
      PROVE  Escaped(c) \in Seq(STRING) /\ Clean(Escaped(c))
    <2>1. <<"\\", e>> \in Seq(STRING) /\ Clean(<<"\\", e>>) BY <1>1 DEF Clean, Without
    <2> QED BY <1>3, <2>1
<1> QED BY <1>2, <1>3, EscapedIs

\* The first character of a text comes back from its escape.
LEMMA DesanitizeEscaped ==
    ASSUME NEW c \in STRING, NEW u \in Seq(STRING)
    PROVE  desanitize(Escaped(c) \o u) = <<c>> \o desanitize(u)
<1> DEFINE s == Escaped(c)
           t == s \o u
           G == CompressedFrom(t)
<1>1. /\ s \in Seq(STRING) /\ t \in Seq(STRING) /\ Len(t) = Len(s) + Len(u)
      /\ Len(s) \in Nat /\ Len(u) \in Nat
      /\ \A k \in 1..Len(s) : t[k] = s[k]
    <2>1. s \in Seq(STRING) BY EscapedIsClean
    <2> HIDE DEF s
    <2> QED BY <2>1, ConcatProperties
<1>2. 1 \in 1..(Len(u) + 2) /\ 1 \in 1..(Len(t) + 2)
    <2> HIDE DEF s, t
    <2> QED BY <1>1
<1>3. G[Len(s) + 1] = desanitize(u)
    <2> HIDE DEF s
    <2> QED BY <1>1, <1>2, CompressedFromShifts DEF desanitize
<1>4. G[1] = CompressedAt(G, t, 1) BY <1>1, <1>2, CompressedFromUnfolds
<1>5. desanitize(t) = G[1] BY DEF desanitize
<1>6. s = Escaped(c) OBVIOUS
<1> HIDE DEF s, t, G
<1>7. CASE c \notin {"\\", "NL", "TAB"} /\ s = <<c>>
    <2>1. Len(s) = 1 /\ t[1] = c /\ t[1] # "\\" /\ ~(1 > Len(t)) BY <1>1, <1>7
    <2>2. CompressedAt(G, t, 1) = <<c>> \o G[1 + 1] BY <2>1, Zenon DEF CompressedAt
    <2>3. Len(s) + 1 = 1 + 1 BY <2>1
    <2> QED BY <1>3, <1>4, <1>5, <2>2, <2>3 DEF t, s
<1>8. ASSUME NEW e \in STRING, s = <<"\\", e>>, Unescape(e) = c
      PROVE  desanitize(t) = <<c>> \o desanitize(u)
    <2>1. Len(s) = 2 /\ s[1] = "\\" /\ s[2] = e BY <1>8
    <2>2. t[1] = "\\" /\ t[1 + 1] = e /\ ~(1 > Len(t)) /\ 1 < Len(t) BY <1>1, <2>1
    <2>3. CompressedAt(G, t, 1) = <<Unescape(t[1 + 1])>> \o G[1 + 2]
        BY <2>2, Zenon DEF CompressedAt
    <2>4. Len(s) + 1 = 1 + 2 BY <2>1
    <2> QED BY <1>3, <1>4, <1>5, <1>8, <2>2, <2>3, <2>4
<1> QED BY <1>6, <1>7, <1>8, EscapedIs DEF t

Characters == [c \in STRING |-> Escaped(c)]

\* A text comes back from its escapes, and no separator of the line is left in them.
LEMMA DesanitizeSanitized ==
    ASSUME NEW t \in Seq(STRING)
    PROVE  sanitize(t) \in Seq(STRING) /\ Clean(sanitize(t)) /\ desanitize(sanitize(t)) = t
<1> DEFINE U == Seq(STRING)
           d == [u \in U |-> desanitize(u)]
<1>1. sanitize(t) = Translated(Characters, t)
    <2>1. \A k \in DOMAIN t : t[k] \in STRING OBVIOUS
    <2>2. \A k \in DOMAIN t : Characters[t[k]] = Escaped(t[k]) BY <2>1 DEF Characters
    <2>3. Map(Escaped, t) = Image(Characters, t) BY <2>2 DEF Map, Image
    <2> QED BY <2>3 DEF sanitize, Translated
<1>2. /\ Takes(Characters, STRING, Seq(STRING))
      /\ \A c \in STRING : Characters[c] = Escaped(c)
    BY EscapedIsClean DEF Characters, Takes
<1>3. Reverses(d, Characters, STRING, U)
    <2>1. Takes(d, U, Seq(STRING)) /\ U \subseteq Seq(STRING) BY DesanitizeIsText DEF Takes
    <2>2. <<>> \in U /\ d[<<>>] = <<>>
        <3>1. <<>> \in Seq(STRING) BY EmptySeq
        <3> QED BY <3>1, DesanitizeNothing
    <2>3. ASSUME NEW c \in STRING, NEW u \in U
          PROVE  Characters[c] \o u \in U /\ d[Characters[c] \o u] = <<c>> \o d[u]
        <3>1. Escaped(c) \o u \in Seq(STRING) BY EscapedIsClean, ConcatProperties
        <3>2. desanitize(Escaped(c) \o u) = <<c>> \o desanitize(u) BY DesanitizeEscaped
        <3> QED BY <1>2, <3>1, <3>2
    <2> HIDE DEF d, U
    <2> QED BY <1>2, <2>1, <2>2, <2>3 DEF Reverses
<1>4. PICK S, e, R, x, y :
          /\ S = STRING /\ e = Characters /\ R = STRING /\ x = "TAB" /\ y = "NL"
    OBVIOUS
<1>5. Takes(e, S, Seq(R)) /\ t \in Seq(S) BY <1>2, <1>4
<1>6. \A c \in S : Without(e[c], x) /\ Without(e[c], y)
    BY <1>2, <1>4, EscapedIsClean DEF Clean
<1>7. Translated(e, t) \in Seq(R) BY <1>5, TranslatedIsText
<1>8. Without(Translated(e, t), x) /\ Without(Translated(e, t), y)
    BY <1>5, <1>6, TranslatedWithout
<1>9. Reverses(d, e, S, U) BY <1>3, <1>4
<1> HIDE DEF d
<1>10. Translated(e, t) \in U /\ d[Translated(e, t)] = t
    <2> HIDE DEF U
    <2> QED BY <1>5, <1>9, TranslatedComesBack
<1>11. desanitize(Translated(e, t)) = t BY <1>10 DEF d
<1> QED BY <1>1, <1>4, <1>7, <1>8, <1>11 DEF Clean

\* The line send_command_to_db writes, and the tokens it is read as.
Values == [v \in Seq(STRING) |-> sanitize(v)]
Tabbed == [v \in Seq(STRING) |-> <<"TAB">> \o sanitize(v)]
Line(key, values) == sanitize(key) \o FlattenSeq(Image(Tabbed, values))

LEMMA ValuesAre ==
    /\ Takes(Values, Seq(STRING), Seq(STRING))
    /\ Takes(Tabbed, Seq(STRING), Seq(STRING))
    /\ \A values \in Seq(Seq(STRING)) :
           /\ Map(sanitize, values) = Image(Values, values)
           /\ Map(LAMBDA v : <<"TAB">> \o sanitize(v), values) = Image(Tabbed, values)
<1>1. "TAB" \in STRING BY CharactersAreStrings
<1>2. \A v \in Seq(STRING) : sanitize(v) \in Seq(STRING) BY DesanitizeSanitized
<1>3. \A v \in Seq(STRING) : <<"TAB">> \o sanitize(v) \in Seq(STRING) BY <1>1, <1>2, Cons1
<1>4. ASSUME NEW values \in Seq(Seq(STRING))
      PROVE  /\ Map(sanitize, values) = Image(Values, values)
             /\ Map(LAMBDA v : <<"TAB">> \o sanitize(v), values) = Image(Tabbed, values)
    <2>1. \A k \in DOMAIN values : values[k] \in Seq(STRING) OBVIOUS
    <2>2. \A k \in DOMAIN values : /\ Values[values[k]] = sanitize(values[k])
                                   /\ Tabbed[values[k]] = <<"TAB">> \o sanitize(values[k])
        BY <2>1 DEF Values, Tabbed
    <2>3. Map(sanitize, values) = Image(Values, values) BY <2>2 DEF Map, Image
    <2>4. Map(LAMBDA v : <<"TAB">> \o sanitize(v), values) = Image(Tabbed, values)
        BY <2>2 DEF Map, Image
    <2> QED BY <2>3, <2>4
<1>5. Takes(Values, Seq(STRING), Seq(STRING)) BY <1>2 DEF Values, Takes
<1>6. Takes(Tabbed, Seq(STRING), Seq(STRING)) BY <1>3 DEF Tabbed, Takes
<1> QED BY <1>4, <1>5, <1>6

LEMMA LineTokens ==
    ASSUME NEW key \in Seq(STRING), NEW values \in Seq(Seq(STRING))
    PROVE  /\ Without(Line(key, values), "NL")
           /\ Tokens(Line(key, values), "TAB", 0)
              = <<sanitize(key)>> \o Image(Values, values)
<1> DEFINE a == sanitize(key)
           vs == Image(Values, values)
           tabbed == Translated(Tabbed, values)
<1>1. PICK S, tab, nl, max : S = STRING /\ tab = "TAB" /\ nl = "NL" /\ max = 0 OBVIOUS
<1>2. /\ a \in Seq(S) /\ Without(a, tab) /\ Without(a, nl)
      /\ tab \in S /\ tab # nl /\ max \in Int /\ max < 1
    BY <1>1, DesanitizeSanitized, CharactersAreStrings DEF Clean
<1>3. /\ DOMAIN vs = DOMAIN values
      /\ \A k \in DOMAIN values : /\ values[k] \in Seq(S) /\ vs[k] = sanitize(values[k])
                                  /\ vs[k] \in Seq(S) /\ Without(vs[k], tab)
    <2>1. \A k \in DOMAIN values : values[k] \in Seq(STRING) OBVIOUS
    <2>2. /\ DOMAIN vs = DOMAIN values
          /\ \A k \in DOMAIN values : vs[k] = sanitize(values[k])
        BY <2>1 DEF Image, Values
    <2> HIDE DEF vs
    <2> QED BY <1>1, <2>1, <2>2, DesanitizeSanitized DEF Clean
<1>4. vs \in Seq(Seq(S)) /\ AllWithout(vs, tab)
    <2>1. PICK T : T = Seq(S) OBVIOUS
    <2>2. values \in Seq(T) /\ Takes(Values, T, T) BY <1>1, <2>1, ValuesAre
    <2>3. <<>> \in T BY <2>1, EmptySeq
    <2>4. vs \in Seq(T) BY <2>2, <2>3, ImageAppend
    <2> HIDE DEF vs
    <2> QED BY <1>3, <2>1, <2>4 DEF AllWithout
<1>5. Line(key, values) = a \o tabbed BY DEF Line, Translated
<1>6. tabbed = Translated(Separated(tab, S), vs)
    <2>1. \A t \in Seq(S) : Separated(tab, S)[t] = <<tab>> \o t BY <1>2, SeparatedIs
    <2> DEFINE e == Separated(tab, S)
    <2> HIDE DEF vs, e
    <2>2. \A k \in DOMAIN values : Tabbed[values[k]] = e[vs[k]]
        BY <1>1, <1>3, <2>1 DEF Tabbed, e
    <2>3. Image(Tabbed, values) = Image(e, vs) BY <1>3, <2>2 DEF Image
    <2> QED BY <2>3 DEF Translated, e
<1>7. Without(tabbed, nl) /\ tabbed \in Seq(S)
    <2>1. PICK T, e : T = Seq(S) /\ e = Tabbed OBVIOUS
    <2>2. Takes(e, T, Seq(S)) /\ values \in Seq(T) BY <1>1, <2>1, ValuesAre
    <2>3. ASSUME NEW t \in T PROVE Without(e[t], nl)
        <3>1. e[t] = <<tab>> \o sanitize(t) BY <1>1, <2>1 DEF Tabbed
        <3>2. sanitize(t) \in Seq(S) /\ Without(sanitize(t), nl)
            BY <1>1, <2>1, DesanitizeSanitized DEF Clean
        <3>3. <<tab>> \in Seq(S) /\ Without(<<tab>>, nl) BY <1>2 DEF Without
        <3> QED BY <3>1, <3>2, <3>3, WithoutConcat
    <2>4. Without(Translated(e, values), nl) /\ Translated(e, values) \in Seq(S)
        BY <2>2, <2>3, TranslatedWithout, TranslatedIsText
    <2> QED BY <2>1, <2>4
<1> HIDE DEF a, vs, tabbed
<1>8. Tokens(a \o tabbed, tab, max) = <<a>> \o vs
    BY <1>2, <1>4, <1>6, SeparatedTokens
<1>9. Without(a \o tabbed, nl) BY <1>2, <1>7, WithoutConcat
<1> QED BY <1>1, <1>5, <1>8, <1>9 DEF a, vs

\* What is written of an argument, and what is read of what was written.
TransmitInv ==
    /\ input \in Arguments
    /\ i \in {0, 1}
    /\ i = 0 => buffer = <<>> /\ result = Null
    /\ i = 1 => buffer = Line(input.key, input.values)
    /\ result # Null => result = IF input.values = <<>> THEN Rejected ELSE input

LEMMA TransmitInit ==
    ASSUME NEW a \in Arguments, CallTransmit(a)
    PROVE  TransmitInv
BY DEF CallTransmit, Called, TransmitInv

LEMMA TransmitWrites ==
    ASSUME TransmitInv, WriteArgument
    PROVE  TransmitInv'
<1>1. /\ input \in Arguments /\ result = Null /\ UNCHANGED <<input, result>> /\ i' = 1
      /\ input.values \in Seq(Seq(STRING))
    BY ArgumentsAreTexts DEF TransmitInv, WriteArgument, Running
<1>2. buffer' = Line(input.key, input.values)
    <2>1. buffer' = sanitize(input.key)
              \o FlattenSeq(Map(LAMBDA v : <<"TAB">> \o sanitize(v), input.values))
        BY DEF WriteArgument
    <2>2. Map(LAMBDA v : <<"TAB">> \o sanitize(v), input.values)
          = Image(Tabbed, input.values)
        BY <1>1, ValuesAre
    <2> QED BY <2>1, <2>2 DEF Line
<1> QED BY <1>1, <1>2 DEF TransmitInv

\* Reading the line of a key and values.
LEMMA LineIsRead ==
    ASSUME NEW key \in Seq(STRING), NEW values \in Seq(Seq(STRING)),
           NEW argval, argval = Split(Line(key, values), "TAB", 0)
    PROVE  /\ Len(argval) > 1 <=> values # <<>>
           /\ Len(argval) <= 1 <=> values = <<>>
           /\ values # <<>> => /\ desanitize(Head(argval)) = key
                               /\ Map(desanitize, Tail(argval)) = values
<1> DEFINE a == sanitize(key)
           vs == Image(Values, values)
           tokens == Tokens(Line(key, values), "TAB", 0)
<1>1. a \in Seq(STRING) /\ desanitize(a) = key BY DesanitizeSanitized
<1>2. /\ vs \in Seq(Seq(STRING)) /\ Len(vs) = Len(values) /\ Len(values) \in Nat
      /\ \A k \in 1..Len(values) : vs[k] = sanitize(values[k])
    <2>1. PICK T : T = Seq(STRING) OBVIOUS
    <2>2. <<>> \in T BY <2>1, EmptySeq
    <2>3. Takes(Values, T, T) /\ values \in Seq(T) BY <2>1, ValuesAre
    <2>4. vs \in Seq(T) /\ Len(vs) = Len(values) BY <2>2, <2>3, ImageAppend
    <2>5. \A k \in 1..Len(values) : vs[k] = sanitize(values[k])
        <3>1. ASSUME NEW k \in 1..Len(values) PROVE vs[k] = sanitize(values[k])
            <4>1. values[k] \in Seq(STRING) /\ k \in DOMAIN values OBVIOUS
            <4> QED BY <4>1 DEF Image, Values
        <3> QED BY <3>1
    <2> QED BY <2>1, <2>4, <2>5
<1>3. tokens = <<a>> \o vs BY LineTokens
<1> HIDE DEF a, vs, tokens
<1>4. <<a>> \in Seq(Seq(STRING)) /\ Len(<<a>>) = 1 /\ <<a>>[1] = a BY <1>1
<1>5. /\ tokens \in Seq(Seq(STRING)) /\ Len(tokens) = 1 + Len(values)
      /\ tokens[1] = a
      /\ \A k \in 1..Len(values) : tokens[1 + k] = vs[k]
    BY <1>2, <1>3, <1>4, ConcatProperties
<1>6. Line(key, values) = <<>> => values = <<>>
    <2> SUFFICES ASSUME Line(key, values) = <<>> PROVE values = <<>> OBVIOUS
    <2>1. tokens = <<<<>>>> BY TokensOfNothing DEF tokens
    <2>2. Len(tokens) = 1 BY <2>1
    <2>3. Len(values) = 0 BY <1>2, <1>5, <2>2
    <2> QED BY <2>3
<1>7. Line(key, values) # <<>> => argval = tokens BY SplitIsTokens DEF tokens
<1>8. Line(key, values) = <<>> => argval = <<>> BY Zenon DEF Split
<1>9. CASE values = <<>>
    <2>1. Len(argval) <= 1
        <3>1. CASE Line(key, values) = <<>>
            <4>1. argval = <<>> BY <1>8, <3>1
            <4> QED BY <4>1
        <3>2. CASE Line(key, values) # <<>>
            <4>1. Len(tokens) = 1 /\ Len(tokens) <= 1 BY <1>5, <1>9
            <4> QED BY <1>7, <3>2, <4>1
        <3> QED BY <3>1, <3>2
    <2>2. Len(argval) \in Nat BY <1>5, <1>7, <1>8
    <2> QED BY <1>9, <2>1, <2>2
<1>10. CASE values # <<>>
    <2>1. argval = tokens BY <1>6, <1>7, <1>10
    <2>2. Len(values) > 0 BY <1>2, <1>10, EmptySeq
    <2>3. Len(argval) = 1 + Len(values) BY <1>5, <2>1
    <2>4. Head(argval) = a BY <1>5, <2>1
    <2>5. /\ Tail(argval) \in Seq(Seq(STRING)) /\ Len(Tail(argval)) = Len(values)
          /\ \A k \in 1..Len(values) : Tail(argval)[k] = tokens[1 + k]
        <3>1. tokens # <<>> BY <1>2, <1>5, <2>2, EmptySeq
        <3>2. PICK T, n : T = Seq(STRING) /\ n = Len(values) OBVIOUS
        <3>3. tokens \in Seq(T) /\ Len(tokens) = 1 + n /\ n \in Nat BY <1>2, <1>5, <3>2
        <3>4. /\ Tail(tokens) \in Seq(T) /\ Len(Tail(tokens)) = n
              /\ \A k \in 1..n : Tail(tokens)[k] = tokens[1 + k]
            BY <3>1, <3>3
        <3> QED BY <2>1, <3>2, <3>4
    <2>6. Map(desanitize, Tail(argval)) = values
        <3>1. DOMAIN Tail(argval) = 1..Len(values) BY <1>2, <2>5
        <3>2. ASSUME NEW k \in 1..Len(values) PROVE desanitize(Tail(argval)[k]) = values[k]
            <4>1. Tail(argval)[k] = sanitize(values[k]) BY <1>2, <1>5, <2>5
            <4>2. values[k] \in Seq(STRING) OBVIOUS
            <4> QED BY <4>1, <4>2, DesanitizeSanitized
        <3>3. Map(desanitize, Tail(argval)) = [k \in 1..Len(values) |-> values[k]]
            BY <3>1, <3>2 DEF Map
        <3>4. [k \in 1..Len(values) |-> values[k]] = values
            <4>1. PICK T : T = Seq(STRING) OBVIOUS
            <4>2. values \in Seq(T) BY <4>1
            <4> QED BY <4>2
        <3> QED BY <3>3, <3>4
    <2>7. Len(argval) > 1 /\ ~(Len(argval) <= 1) BY <1>2, <2>2, <2>3
    <2> QED BY <1>1, <1>10, <2>4, <2>6, <2>7
<1> QED BY <1>9, <1>10

LEMMA TransmitReads ==
    ASSUME TransmitInv, ParseArgument
    PROVE  TransmitInv'
<1>1. /\ input \in Arguments /\ i = 1 /\ UNCHANGED <<input, i, buffer>>
      /\ input \in [key : Seq(STRING), values : Seq(Seq(STRING))]
      /\ buffer = Line(input.key, input.values)
    BY ArgumentsAreTexts DEF TransmitInv, ParseArgument, Running, Return
<1>2. PICK argval : argval = Split(buffer, "TAB", 0) OBVIOUS
<1>3. \/ /\ Len(argval) > 1
         /\ result' = [key |-> desanitize(Head(argval)),
                       values |-> Map(desanitize, Tail(argval))]
      \/ Len(argval) <= 1 /\ result' = Rejected
    BY <1>2 DEF ParseArgument, Return
<1>4. PICK key \in Seq(STRING), values \in Seq(Seq(STRING)) :
          input = [key |-> key, values |-> values]
    BY <1>1
<1>5. input.key = key /\ input.values = values BY <1>4
<1>6. argval = Split(Line(key, values), "TAB", 0) BY <1>1, <1>2, <1>5
<1>7. /\ Len(argval) > 1 <=> values # <<>>
      /\ Len(argval) <= 1 <=> values = <<>>
      /\ values # <<>> => /\ desanitize(Head(argval)) = key
                          /\ Map(desanitize, Tail(argval)) = values
    BY <1>6, LineIsRead
<1>8. result' = IF values = <<>> THEN Rejected ELSE input
    <2>1. CASE values = <<>>
        <3>1. result' = Rejected BY <1>3, <1>7, <2>1
        <3> QED BY <2>1, <3>1
    <2>2. CASE values # <<>>
        <3>1. result' = [key |-> desanitize(Head(argval)),
                         values |-> Map(desanitize, Tail(argval))]
            BY <1>3, <1>7, <2>2
        <3>2. result' = [key |-> key, values |-> values] BY <1>7, <2>2, <3>1
        <3> QED BY <1>4, <2>2, <3>2
    <2> QED BY <2>1, <2>2
<1> QED BY <1>1, <1>5, <1>8 DEF TransmitInv

-----------------------------------------------------------------------------
(* A menu. *)

\* What is decoded from a place on is no longer than the rest of the text.
LEMMA DecodedIsShort ==
    ASSUME NEW t \in Seq(STRING)
    PROVE  Decoded(t) \in Seq(STRING) /\ Len(Decoded(t)) <= Len(t)
<1> DEFINE l == Len(t)
           D == 1..(l + 3)
           m == [k \in D |-> l + 3 - k]
           g == DecodedFrom(t)
           P == {k \in D : k <= l => k + Len(g[k]) <= l + 1}
<1>0. l \in Nat OBVIOUS
<1>1. \A k \in D : g[k] = DecodedAt(g, t, k) /\ g[k] \in Seq(STRING) BY DecodedFromUnfolds
<1>2. \A k \in D : k > l => g[k] = <<>> BY <1>1, Zenon DEF DecodedAt
<1> HIDE DEF g
<1>3. ASSUME NEW k \in D, \A r \in D : r > k => r \in P PROVE k \in P
    <2> SUFFICES ASSUME k <= l PROVE k + Len(g[k]) <= l + 1 OBVIOUS
    <2>1. ASSUME NEW n \in {k + 1, k + 3}
          PROVE  g[n] \in Seq(STRING) /\ k + Len(g[n]) + 1 <= l + 1
        <3>1. n \in D /\ n > k BY <1>0
        <3>2. n <= l => n + Len(g[n]) <= l + 1 BY <1>3, <3>1
        <3>3. n > l => Len(g[n]) = 0 BY <1>2, <3>1
        <3>4. g[n] \in Seq(STRING) /\ Len(g[n]) \in Nat BY <1>1, <3>1
        <3> QED BY <1>0, <3>1, <3>2, <3>3, <3>4
    <2>2. ASSUME NEW n \in {k + 1, k + 3}, NEW c \in STRING, g[k] = <<c>> \o g[n]
          PROVE  k + Len(g[k]) <= l + 1
        <3>1. Len(g[k]) = 1 + Len(g[n])
            <4>1. PICK S, s : S = STRING /\ s = g[n] OBVIOUS
            <4>2. c \in S /\ s \in Seq(S) BY <2>1, <4>1
            <4>3. Len(<<c>> \o s) = 1 + Len(s) BY <4>2, ConsLength
            <4> QED BY <2>2, <4>1, <4>3
        <3>2. Len(g[n]) \in Nat BY <2>1
        <3> QED BY <1>0, <2>1, <3>1, <3>2, SMTT(30)
    <2>3. ~(k > l) BY <1>0
    <2>4. CASE t[k] = "%"
        <3>1. g[k] = <<Unhex(t[k + 1], t[k + 2])>> \o g[k + 3]
            BY <1>1, <2>3, <2>4, Zenon DEF DecodedAt
        <3> QED BY <2>2, <3>1, UnhexIsCharacter
    <2>5. CASE t[k] # "%"
        <3>1. g[k] = <<t[k]>> \o g[k + 1] BY <1>1, <2>3, <2>5, Zenon DEF DecodedAt
        <3>2. t[k] \in STRING BY <1>0
        <3> QED BY <2>2, <3>1, <3>2
    <2> QED BY <2>4, <2>5
<1>4. m \in [D -> Nat] /\ \A r, k \in D : m[r] < m[k] <=> r > k BY <1>0
<1>5. \A k \in D : (\A r \in D : m[r] < m[k] => r \in P) => k \in P BY <1>3, <1>4
<1>6. D \subseteq P
    <2> HIDE DEF P, m, D
    <2> QED BY <1>4, <1>5, MeasureInduction
<1>7. 1 \in D /\ Decoded(t) = g[1] BY <1>0 DEF Decoded, g
<1>8. g[1] \in Seq(STRING) /\ (1 <= l => 1 + Len(g[1]) <= l + 1) /\ (1 > l => g[1] = <<>>)
    BY <1>1, <1>2, <1>6, <1>7
<1>9. Len(g[1]) <= l BY <1>0, <1>8
<1> QED BY <1>7, <1>8, <1>9

\* A text whose escapes are complete is decoded to the same wherever it stands.
LEMMA DecodedFromShifts ==
    ASSUME NEW s \in Seq(STRING), NEW u \in Seq(STRING)
    PROVE  \A k \in 1..(Len(u) + 3) :
               /\ WellFormedFrom(s \o u)[Len(s) + k] = WellFormedFrom(u)[k]
               /\ WellFormedFrom(u)[k] =>
                      DecodedFrom(s \o u)[Len(s) + k] = DecodedFrom(u)[k]
<1> DEFINE n == Len(s)
           l == Len(u)
           t == s \o u
           G == DecodedFrom(t)
           H == DecodedFrom(u)
           V == WellFormedFrom(t)
           W == WellFormedFrom(u)
           D == 1..(l + 3)
           m == [k \in D |-> l + 3 - k]
           P == {k \in D : V[n + k] = W[k] /\ (W[k] => G[n + k] = H[k])}
<1>1. /\ n \in Nat /\ l \in Nat /\ t \in Seq(STRING) /\ Len(t) = n + l
      /\ \A k \in 1..l : t[n + k] = u[k]
    BY ConcatProperties
<1>2. \A k \in 1..(Len(t) + 3) : G[k] = DecodedAt(G, t, k) /\ V[k] = WellFormedAt(V, t, k)
    BY <1>1, DecodedFromUnfolds, WellFormedFromUnfolds
<1>3. \A k \in D : H[k] = DecodedAt(H, u, k) /\ W[k] = WellFormedAt(W, u, k)
    BY DecodedFromUnfolds, WellFormedFromUnfolds
<1> HIDE DEF G, H, V, W, t, l, n
<1>4. ASSUME NEW k \in D, \A r \in D : r > k => r \in P PROVE k \in P
    <2> DEFINE p == n + k
    <2>1. p \in 1..(Len(t) + 3) /\ (p > Len(t) <=> k > l) /\ (p + 2 <= Len(t) <=> k + 2 <= l)
        BY <1>1
    <2>2. /\ G[p] = DecodedAt(G, t, p) /\ H[k] = DecodedAt(H, u, k)
          /\ V[p] = WellFormedAt(V, t, p) /\ W[k] = WellFormedAt(W, u, k)
        BY <1>2, <1>3, <2>1
    <2>3. CASE k > l
        <3> HIDE DEF p
        <3>1. k > Len(u) /\ p > Len(t) BY <2>1, <2>3 DEF l
        <3>2. G[p] = <<>> /\ H[k] = <<>> BY <2>2, <3>1, Zenon DEF DecodedAt
        <3>3. V[p] = TRUE /\ W[k] = TRUE BY <2>2, <3>1, Zenon DEF WellFormedAt
        <3> QED BY <3>2, <3>3 DEF p
    <2>4. CASE k <= l
        <3>1. ~(k > Len(u)) /\ ~(p > Len(t)) BY <1>1, <2>1, <2>4 DEF l
        <3>2. t[p] = u[k] BY <1>1, <2>4
        <3>3. ASSUME NEW d \in {1, 3}
              PROVE  V[p + d] = W[k + d] /\ (W[k + d] => G[p + d] = H[k + d])
            <4>1. k + d \in D /\ k + d > k /\ p + d = n + (k + d) BY <1>1, <2>4
            <4> QED BY <1>4, <4>1
        <3>4. CASE t[p] = "%"
            <4>1. (p + 2 <= Len(t)) = (k + 2 <= Len(u)) BY <2>1 DEF l
            <4>2. V[p + 3] = W[k + 3] BY <3>3
            <4> HIDE DEF p
            <4>3. V[p] = (p + 2 <= Len(t) /\ V[p + 3])
                BY <2>2, <3>1, <3>4, Zenon DEF WellFormedAt
            <4>4. W[k] = (k + 2 <= Len(u) /\ W[k + 3])
                BY <2>2, <3>1, <3>2, <3>4, Zenon DEF WellFormedAt
            <4>5. V[p] = W[k] BY <4>1, <4>2, <4>3, <4>4, Zenon
            <4>6. ASSUME W[k] PROVE G[p] = H[k]
                <5>1. W[k + 3] /\ k + 2 <= Len(u) BY <4>4, <4>6, Zenon
                <5>2. G[p + 3] = H[k + 3] BY <3>3, <5>1 DEF p
                <5>3. t[p + 1] = u[k + 1] /\ t[p + 2] = u[k + 2]
                    <6>1. k + 1 \in 1..l /\ k + 2 \in 1..l BY <1>1, <5>1 DEF l
                    <6>2. p + 1 = n + (k + 1) /\ p + 2 = n + (k + 2) BY <1>1 DEF p
                    <6> QED BY <1>1, <6>1, <6>2
                <5>4. G[p] = <<Unhex(t[p + 1], t[p + 2])>> \o G[p + 3]
                    BY <2>2, <3>1, <3>4, Zenon DEF DecodedAt
                <5>5. H[k] = <<Unhex(u[k + 1], u[k + 2])>> \o H[k + 3]
                    BY <2>2, <3>1, <3>2, <3>4, Zenon DEF DecodedAt
                <5> QED BY <5>2, <5>3, <5>4, <5>5
            <4> QED BY <4>5, <4>6 DEF p
        <3>5. CASE t[p] # "%"
            <4>2. V[p + 1] = W[k + 1] /\ (W[k + 1] => G[p + 1] = H[k + 1]) BY <3>3
            <4> HIDE DEF p
            <4>3. (V[p] <=> V[p + 1]) /\ V[p] \in BOOLEAN
                BY <2>2, <3>1, <3>5, Zenon DEF WellFormedAt
            <4>4. (W[k] <=> W[k + 1]) /\ W[k] \in BOOLEAN
                BY <2>2, <3>1, <3>2, <3>5, Zenon DEF WellFormedAt
            <4>5. V[p] = W[k] BY <4>2, <4>3, <4>4, Zenon
            <4>6. G[p] = <<t[p]>> \o G[p + 1] BY <2>2, <3>1, <3>5, Zenon DEF DecodedAt
            <4>7. H[k] = <<u[k]>> \o H[k + 1] BY <2>2, <3>1, <3>2, <3>5, Zenon DEF DecodedAt
            <4>8. W[k] => G[p] = H[k] BY <3>2, <4>2, <4>4, <4>6, <4>7
            <4> QED BY <4>5, <4>8 DEF p
        <3> QED BY <3>4, <3>5
    <2> QED BY <1>1, <2>3, <2>4
<1>5. m \in [D -> Nat] /\ \A r, k \in D : m[r] < m[k] <=> r > k BY <1>1
<1>6. \A k \in D : (\A r \in D : m[r] < m[k] => r \in P) => k \in P BY <1>4, <1>5
<1>7. D \subseteq P
    <2> HIDE DEF P, m, D
    <2> QED BY <1>5, <1>6, MeasureInduction
<1>8. ASSUME NEW k \in D PROVE V[n + k] = W[k] /\ (W[k] => G[n + k] = H[k])
    BY <1>7
<1> QED BY <1>8 DEF n, l, t, G, H, V, W

\* A character comes back from its code.
LEMMA CodedIs ==
    ASSUME NEW c \in STRING
    PROVE  \/ c \notin {"~", "|", "%"} /\ Coded(c) = <<c>>
           \/ \E a, b \in STRING \ {"~", "|", "%"} :
                  Coded(c) = <<"%", a, b>> /\ Unhex(a, b) = c
<1>1. {"7", "E", "C", "2", "5"} \subseteq STRING \ {"~", "|", "%"} BY CharactersAreStrings
<1>2. CASE c = "~"
    <2>1. Coded(c) = <<"%", "7", "E">> /\ Unhex("7", "E") = c BY <1>2 DEF Coded, Unhex
    <2> QED BY <1>1, <2>1
<1>3. CASE c = "|"
    <2>1. Coded(c) = <<"%", "7", "C">> /\ Unhex("7", "C") = c BY <1>3 DEF Coded, Unhex
    <2> QED BY <1>1, <2>1
<1>4. CASE c = "%"
    <2>1. Coded(c) = <<"%", "2", "5">> /\ Unhex("2", "5") = c BY <1>4 DEF Coded, Unhex
    <2> QED BY <1>1, <2>1
<1>5. CASE c \notin {"~", "|", "%"} BY <1>5 DEF Coded
<1> QED BY <1>2, <1>3, <1>4, <1>5

LEMMA CodedIsClean ==
    ASSUME NEW c \in STRING
    PROVE  Coded(c) \in Seq(STRING) /\ Without(Coded(c), "~") /\ Without(Coded(c), "|")
<1>1. "%" \in STRING BY CharactersAreStrings
<1>2. CASE c \notin {"~", "|", "%"} /\ Coded(c) = <<c>>
    <2>1. <<c>> \in Seq(STRING) /\ Without(<<c>>, "~") /\ Without(<<c>>, "|")
        BY <1>2 DEF Without
    <2> QED BY <1>2, <2>1
<1>3. ASSUME NEW a \in STRING \ {"~", "|", "%"}, NEW b \in STRING \ {"~", "|", "%"},
             Coded(c) = <<"%", a, b>>
      PROVE  Coded(c) \in Seq(STRING) /\ Without(Coded(c), "~") /\ Without(Coded(c), "|")
    <2>1. <<"%", a, b>> \in Seq(STRING) BY <1>1
    <2>2. Without(<<"%", a, b>>, "~") /\ Without(<<"%", a, b>>, "|") BY DEF Without
    <2> QED BY <1>3, <2>1, <2>2
<1> QED BY <1>2, <1>3, CodedIs

LEMMA DecodedCoded ==
    ASSUME NEW c \in STRING, NEW u \in Seq(STRING), WellFormed(u)
    PROVE  WellFormed(Coded(c) \o u) /\ Decoded(Coded(c) \o u) = <<c>> \o Decoded(u)
<1> DEFINE s == Coded(c)
           t == s \o u
           G == DecodedFrom(t)
           V == WellFormedFrom(t)
<1>1. /\ s \in Seq(STRING) /\ t \in Seq(STRING) /\ Len(t) = Len(s) + Len(u)
      /\ Len(s) \in Nat /\ Len(u) \in Nat
      /\ \A k \in 1..Len(s) : t[k] = s[k]
    <2>1. s \in Seq(STRING) BY CodedIsClean
    <2> HIDE DEF s
    <2> QED BY <2>1, ConcatProperties
<1>2. 1 \in 1..(Len(u) + 3) /\ 1 \in 1..(Len(t) + 3)
    <2> HIDE DEF s, t
    <2> QED BY <1>1
<1>3. V[Len(s) + 1] /\ G[Len(s) + 1] = Decoded(u)
    <2> HIDE DEF s
    <2> QED BY <1>1, <1>2, DecodedFromShifts DEF Decoded, WellFormed
<1>4. G[1] = DecodedAt(G, t, 1) /\ V[1] = WellFormedAt(V, t, 1)
    BY <1>1, <1>2, DecodedFromUnfolds, WellFormedFromUnfolds
<1>5. Decoded(t) = G[1] /\ WellFormed(t) = V[1] BY DEF Decoded, WellFormed
<1>6. s = Coded(c) OBVIOUS
<1> HIDE DEF s, t, G, V
<1>7. ASSUME c \notin {"~", "|", "%"}, s = <<c>>
      PROVE  WellFormed(t) /\ Decoded(t) = <<c>> \o Decoded(u)
    <2>1. Len(s) = 1 /\ t[1] = c /\ t[1] # "%" /\ ~(1 > Len(t)) BY <1>1, <1>7
    <2>2. DecodedAt(G, t, 1) = <<c>> \o G[1 + 1] BY <2>1, Zenon DEF DecodedAt
    <2>3. Len(s) + 1 = 1 + 1 BY <2>1
    <2>4. WellFormedAt(V, t, 1) BY <1>3, <2>1, <2>3, Zenon DEF WellFormedAt
    <2> QED BY <1>3, <1>4, <1>5, <2>2, <2>3, <2>4
<1>8. ASSUME NEW a \in STRING, NEW b \in STRING, s = <<"%", a, b>>, Unhex(a, b) = c
      PROVE  WellFormed(t) /\ Decoded(t) = <<c>> \o Decoded(u)
    <2>1. Len(s) = 3 /\ s[1] = "%" /\ s[2] = a /\ s[3] = b BY <1>8
    <2>2. t[1] = "%" /\ t[1 + 1] = a /\ t[1 + 2] = b /\ ~(1 > Len(t)) /\ 1 + 2 <= Len(t)
        BY <1>1, <2>1
    <2>3. DecodedAt(G, t, 1) = <<Unhex(t[1 + 1], t[1 + 2])>> \o G[1 + 3]
        BY <2>2, Zenon DEF DecodedAt
    <2>4. Len(s) + 1 = 1 + 3 BY <2>1
    <2>5. WellFormedAt(V, t, 1) BY <1>3, <2>2, <2>4, Zenon DEF WellFormedAt
    <2> QED BY <1>3, <1>4, <1>5, <1>8, <2>2, <2>3, <2>4, <2>5
<1> QED BY <1>6, <1>7, <1>8, CodedIs DEF t

LEMMA DecodedNothing == WellFormed(<<>>) /\ Decoded(<<>>) = <<>>
<1>1. <<>> \in Seq(STRING) /\ Len(<<>>) = 0 BY EmptySeq
<1>2. 1 \in 1..(Len(<<>>) + 3) /\ 1 > Len(<<>>) BY <1>1
<1> DEFINE G == DecodedFrom(<<>>)
           V == WellFormedFrom(<<>>)
<1>3. G[1] = DecodedAt(G, <<>>, 1) /\ V[1] = WellFormedAt(V, <<>>, 1)
    BY <1>1, <1>2, DecodedFromUnfolds, WellFormedFromUnfolds
<1> HIDE DEF G, V
<1>4. DecodedAt(G, <<>>, 1) = <<>> BY <1>2, Zenon DEF DecodedAt
<1>5. WellFormedAt(V, <<>>, 1) BY <1>2, Zenon DEF WellFormedAt
<1> QED BY <1>3, <1>4, <1>5 DEF Decoded, WellFormed, G, V

\* The daemon's encoding of a text has no separator in it and is decoded to the text.
Codes == [c \in STRING |-> Coded(c)]

LEMMA DecodedEncoded ==
    ASSUME NEW t \in Seq(STRING)
    PROVE  /\ Encoded(t) \in Seq(STRING)
           /\ Without(Encoded(t), "~") /\ Without(Encoded(t), "|")
           /\ Decoded(Encoded(t)) = t
<1> DEFINE U == {u \in Seq(STRING) : WellFormed(u)}
           d == [u \in U |-> Decoded(u)]
<1>1. Encoded(t) = Translated(Codes, t)
    <2>1. \A k \in DOMAIN t : t[k] \in STRING OBVIOUS
    <2>2. \A k \in DOMAIN t : Codes[t[k]] = Coded(t[k]) BY <2>1 DEF Codes
    <2>3. Map(Coded, t) = Image(Codes, t) BY <2>2 DEF Map, Image
    <2> QED BY <2>3 DEF Encoded, Translated
<1>2. /\ Takes(Codes, STRING, Seq(STRING))
      /\ \A c \in STRING : Codes[c] = Coded(c)
    BY CodedIsClean DEF Codes, Takes
<1>3. Reverses(d, Codes, STRING, U)
    <2>1. Takes(d, U, Seq(STRING)) /\ U \subseteq Seq(STRING) BY DecodedIsShort DEF Takes
    <2>2. <<>> \in U /\ d[<<>>] = <<>>
        <3>1. <<>> \in Seq(STRING) BY EmptySeq
        <3> QED BY <3>1, DecodedNothing
    <2>3. ASSUME NEW c \in STRING, NEW u \in U
          PROVE  Codes[c] \o u \in U /\ d[Codes[c] \o u] = <<c>> \o d[u]
        <3>1. Coded(c) \o u \in Seq(STRING) BY CodedIsClean, ConcatProperties
        <3>2. /\ WellFormed(Coded(c) \o u)
              /\ Decoded(Coded(c) \o u) = <<c>> \o Decoded(u)
            BY DecodedCoded
        <3> QED BY <1>2, <3>1, <3>2
    <2> HIDE DEF d, U
    <2> QED BY <1>2, <2>1, <2>2, <2>3 DEF Reverses
<1>4. PICK S, e, R, x, y :
          /\ S = STRING /\ e = Codes /\ R = STRING /\ x = "~" /\ y = "|"
    OBVIOUS
<1>5. Takes(e, S, Seq(R)) /\ t \in Seq(S) BY <1>2, <1>4
<1>6. \A c \in S : Without(e[c], x) /\ Without(e[c], y) BY <1>2, <1>4, CodedIsClean
<1>7. Translated(e, t) \in Seq(R) BY <1>5, TranslatedIsText
<1>8. Without(Translated(e, t), x) /\ Without(Translated(e, t), y)
    BY <1>5, <1>6, TranslatedWithout
<1>9. Reverses(d, e, S, U) BY <1>3, <1>4
<1> HIDE DEF d
<1>10. Translated(e, t) \in U /\ d[Translated(e, t)] = t
    <2> HIDE DEF U
    <2> QED BY <1>5, <1>9, TranslatedComesBack
<1>11. Decoded(Translated(e, t)) = t BY <1>10 DEF d
<1> QED BY <1>1, <1>4, <1>7, <1>8, <1>11

\* An option's line is read as the three texts it was made of.
LEMMA OptionIsParted ==
    ASSUME NEW a \in Seq(STRING), NEW b \in Seq(STRING), NEW c \in Seq(STRING)
    PROVE  /\ OptionLine(a, b, c) \in Seq(STRING) /\ OptionLine(a, b, c) # <<>>
           /\ ~Without(OptionLine(a, b, c), "~") /\ Without(OptionLine(a, b, c), "|")
           /\ Parts(OptionLine(a, b, c)) = <<a, b, c>>
<1> DEFINE whole == <<a, b, c>>
           x == Encoded(a)
           y == Encoded(b)
           z == Encoded(c)
           texts == <<x, y, z>>
<1>1. /\ x \in Seq(STRING) /\ y \in Seq(STRING) /\ z \in Seq(STRING)
      /\ Without(x, "~") /\ Without(y, "~") /\ Without(z, "~")
      /\ Without(x, "|") /\ Without(y, "|") /\ Without(z, "|")
      /\ Decoded(x) = a /\ Decoded(y) = b /\ Decoded(z) = c
    BY DecodedEncoded
<1>2. Map(Encoded, whole) = texts
    <2>1. DOMAIN whole = 1..3 /\ whole[1] = a /\ whole[2] = b /\ whole[3] = c OBVIOUS
    <2>2. Map(Encoded, whole) = [k \in 1..3 |-> Encoded(whole[k])] BY <2>1 DEF Map
    <2> HIDE DEF whole
    <2>3. [k \in 1..3 |-> Encoded(whole[k])] = <<Encoded(a), Encoded(b), Encoded(c)>> BY <2>1
    <2> QED BY <2>2, <2>3
<1> HIDE DEF x, y, z
<1>3. PICK S, sep, bar, max : S = STRING /\ sep = "~" /\ bar = "|" /\ max = 3 OBVIOUS
<1>4. /\ x \in Seq(S) /\ y \in Seq(S) /\ z \in Seq(S)
      /\ sep \in S /\ bar # sep /\ max \in Int /\ 3 <= max
    BY <1>1, <1>3, CharactersAreStrings
<1>5. AllWithout(texts, sep) /\ AllWithout(texts, bar) BY <1>1, <1>3 DEF AllWithout
<1>6. texts \in Seq(Seq(S)) /\ Len(texts) = 3 /\ texts # <<>>
    <2>1. PICK T : T = Seq(S) OBVIOUS
    <2>2. x \in T /\ y \in T /\ z \in T BY <1>4, <2>1
    <2>3. texts \in Seq(T) /\ Len(texts) = 3 /\ texts # <<>> BY <2>2
    <2> QED BY <2>1, <2>3
<1>7. Map(Decoded, texts) = whole
    <2>1. DOMAIN texts = 1..3 /\ texts[1] = x /\ texts[2] = y /\ texts[3] = z OBVIOUS
    <2>2. Map(Decoded, texts) = [k \in 1..3 |-> Decoded(texts[k])] BY <2>1 DEF Map
    <2> HIDE DEF texts
    <2>3. [k \in 1..3 |-> Decoded(texts[k])] = <<Decoded(x), Decoded(y), Decoded(z)>> BY <2>1
    <2> QED BY <1>1, <2>2, <2>3
<1> HIDE DEF texts
<1>8. PICK line : line = Join(texts, <<sep>>) OBVIOUS
<1>9. line = OptionLine(a, b, c) BY <1>2, <1>3, <1>8 DEF OptionLine
<1>10. line \in Seq(S) BY <1>4, <1>6, <1>8, JoinIs
<1>11. ~Without(line, sep) /\ line # <<>>
    <2>1. Len(texts) > 1 BY <1>6
    <2> QED BY <1>4, <1>5, <1>6, <1>8, <2>1, JoinHasSeparator
<1>12. Without(line, bar) BY <1>4, <1>5, <1>6, <1>8, JoinWithout
<1>13. Split(line, sep, max) = texts
    BY <1>4, <1>5, <1>6, <1>8, <1>11, JoinedIsSplit
<1>14. Parts(line) = whole BY <1>3, <1>7, <1>13 DEF Parts
<1> QED BY <1>3, <1>9, <1>10, <1>11, <1>12, <1>14

\* A token and the separators around the others fit into the text.
LEMMA TokensAreShort ==
    ASSUME NEW T, NEW text \in Seq(T), NEW sep, NEW max
    PROVE  \A k \in DOMAIN Tokens(text, sep, max) :
               Len(Tokens(text, sep, max)[k]) + Len(Tokens(text, sep, max)) <= Len(text) + 1
<1> DEFINE Short(s) == \A k \in DOMAIN Tokens(s, sep, max) :
                           Len(Tokens(s, sep, max)[k]) + Len(Tokens(s, sep, max)) <= Len(s) + 1
           P == {s \in Seq(T) : Short(s)}
<1>1. <<>> \in P
    <2>1. <<>> \in Seq(T) /\ Len(<<>>) = 0 BY EmptySeq
    <2>2. PICK tokens, none : tokens = <<none>> /\ none = <<>> OBVIOUS
    <2>3. DOMAIN tokens = {1} /\ tokens[1] = none /\ Len(tokens) = 1 BY <2>2
    <2>4. Tokens(<<>>, sep, max) = tokens BY <2>2, TokensOfNothing
    <2>5. \A k \in DOMAIN tokens : Len(tokens[k]) + Len(tokens) <= Len(<<>>) + 1
        BY <2>1, <2>2, <2>3
    <2> QED BY <2>1, <2>4, <2>5
<1>2. ASSUME NEW s \in Seq(T), NEW c \in T, s \in P PROVE Append(s, c) \in P
    <2> DEFINE tokens == Tokens(s, sep, max)
               next == Tokens(Append(s, c), sep, max)
               n == Len(tokens)
    <2>1. /\ Append(s, c) \in Seq(T) /\ Len(Append(s, c)) = Len(s) + 1 /\ Len(s) \in Nat
        BY AppendProperties
    <2>2. next = SplitStep(tokens, c, sep, max) /\ tokens \in Seq(Seq(T)) \ {<<>>}
        BY TokensAppend
    <2>3. \A k \in DOMAIN tokens : Len(tokens[k]) + n <= Len(s) + 1 BY <1>2
    <2> HIDE DEF tokens, next, P
    <2>4. n \in Nat /\ n \in DOMAIN tokens /\ DOMAIN tokens = 1..n BY <2>2, EmptySeq
    <2>5. \A k \in DOMAIN tokens : tokens[k] \in Seq(T) /\ Len(tokens[k]) \in Nat BY <2>2
    <2>6. CASE c = sep /\ Room(tokens, max)
        <3>1. next = Append(tokens, <<>>) BY <2>2, <2>6, Zenon DEF SplitStep
        <3>2. PICK none : none = <<>> OBVIOUS
        <3>3. none \in Seq(T) /\ Len(none) = 0 BY <3>2, EmptySeq
        <3>4. /\ Len(next) = n + 1 /\ DOMAIN next = 1..(n + 1)
              /\ next[n + 1] = none /\ \A k \in 1..n : next[k] = tokens[k]
            BY <2>2, <3>1, <3>2, <3>3, AppendProperties
        <3>5. ASSUME NEW k \in DOMAIN next PROVE Len(next[k]) + Len(next) <= (Len(s) + 1) + 1
            <4>1. CASE k \in 1..n BY <2>1, <2>3, <2>4, <2>5, <3>4, <4>1
            <4>2. CASE k = n + 1
                <5>1. Len(tokens[n]) + n <= Len(s) + 1 /\ Len(tokens[n]) \in Nat
                    BY <2>3, <2>4, <2>5
                <5> QED BY <2>1, <2>4, <3>3, <3>4, <4>2, <5>1
            <4> QED BY <2>4, <3>4, <4>1, <4>2
        <3> QED BY <2>1, <3>5 DEF P, next
    <2>7. CASE ~(c = sep /\ Room(tokens, max))
        <3>1. next = [tokens EXCEPT ![n] = Append(tokens[n], c)]
            BY <2>2, <2>7, Zenon DEF SplitStep
        <3>2. /\ Len(next) = n /\ DOMAIN next = 1..n
              /\ next[n] = Append(tokens[n], c) /\ \A k \in 1..n : k # n => next[k] = tokens[k]
            <4>1. PICK U, x : U = Seq(T) /\ x = Append(tokens[n], c) OBVIOUS
            <4>2. x \in U /\ tokens \in Seq(U) /\ tokens[n] \in Seq(T)
                BY <2>2, <2>4, <2>5, <4>1, AppendProperties
            <4>3. next = [tokens EXCEPT ![n] = x] BY <3>1, <4>1
            <4>4. /\ Len(next) = n /\ DOMAIN next = 1..n
                  /\ next[n] = x /\ \A k \in 1..n : k # n => next[k] = tokens[k]
                <5>1. n \in 1..Len(tokens) BY <2>4
                <5>2. /\ next \in Seq(U) /\ Len(next) = Len(tokens)
                      /\ \A k \in 1..Len(tokens) : next[k] = IF k = n THEN x ELSE tokens[k]
                    BY <4>2, <4>3, <5>1, ExceptSeq
                <5>3. DOMAIN next = 1..Len(next) BY <5>2
                <5>4. next[n] = x /\ \A k \in 1..n : k # n => next[k] = tokens[k]
                    BY <5>1, <5>2
                <5> QED BY <5>2, <5>3, <5>4
            <4> QED BY <4>1, <4>4
        <3>3. Len(Append(tokens[n], c)) = Len(tokens[n]) + 1
            BY <2>4, <2>5, AppendProperties
        <3>4. ASSUME NEW k \in DOMAIN next PROVE Len(next[k]) + Len(next) <= (Len(s) + 1) + 1
            <4>1. k \in DOMAIN tokens BY <2>4, <3>2
            <4>2. Len(tokens[k]) + n <= Len(s) + 1 /\ Len(tokens[k]) \in Nat
                BY <2>3, <2>5, <4>1
            <4>3. Len(next[k]) = Len(tokens[k]) \/ Len(next[k]) = Len(tokens[k]) + 1
                BY <2>4, <3>2, <3>3, <4>1
            <4>4. PICK a, b, l : a = Len(tokens[k]) /\ b = Len(next[k]) /\ l = Len(s) OBVIOUS
            <4>5. /\ a + n <= l + 1 /\ a \in Nat /\ (b = a \/ b = a + 1)
                  /\ l \in Nat /\ n \in Nat /\ Len(next) = n
                BY <2>1, <2>4, <3>2, <4>2, <4>3, <4>4
            <4>6. b + n <= (l + 1) + 1 BY <4>5
            <4> QED BY <4>4, <4>5, <4>6
        <3> QED BY <2>1, <3>4 DEF P, next
    <2> QED BY <2>6, <2>7
<1>3. Seq(T) \subseteq P
    <2> HIDE DEF P
    <2> QED BY <1>1, <1>2, SequenceInduction2
<1> QED BY <1>3

LEMMA SplitIs ==
    ASSUME NEW T, NEW text \in Seq(T), NEW sep, NEW max
    PROVE  /\ Split(text, sep, max) \in Seq(Seq(T))
           /\ \A k \in DOMAIN Split(text, sep, max) :
                  Len(Split(text, sep, max)[k]) + Len(Split(text, sep, max)) <= Len(text) + 1
<1>1. CASE text = <<>>
    <2>1. Split(text, sep, max) = <<>> BY <1>1, Zenon DEF Split
    <2>2. <<>> \in Seq(Seq(T)) /\ DOMAIN <<>> = {} BY EmptySeq
    <2> QED BY <2>1, <2>2
<1>2. CASE text # <<>>
    <2>1. Split(text, sep, max) = Tokens(text, sep, max) BY <1>2, SplitIsTokens
    <2>2. PICK c : c \in T
        <3>1. 1 \in 1..Len(text) BY <1>2, EmptySeq
        <3> QED BY <3>1
    <2>3. Tokens(text, sep, max) \in Seq(Seq(T)) BY <2>2, TokensAppend
    <2> QED BY <2>1, <2>3, TokensAreShort
<1> QED BY <1>1, <1>2

\* The items parse_menu makes of options, g parsing those of a submenu.
MenuItem(g, part) ==
    IF Contains(part[2], "~")
    THEN [label |-> part[1], items |-> g[Split(part[2], "|", 0)]]
    ELSE Leaf(part[1], part[2], part[3])
ShownItem(g, part) == IF Len(part) = 3 THEN <<MenuItem(g, part)>> ELSE <<>>
MenuBody(g, options) == FlattenSeq(Map(LAMBDA option : ShownItem(g, Parts(option)), options))

OptionLists == Seq(Seq(STRING))
Bounded(n) == {o \in OptionLists : \A k \in DOMAIN o : Len(o[k]) < n}

LEMMA PartsAre ==
    ASSUME NEW option \in Seq(STRING)
    PROVE  /\ Parts(option) \in Seq(Seq(STRING))
           /\ \A k \in DOMAIN Parts(option) :
                  Len(Parts(option)[k]) + Len(Parts(option)) <= Len(option) + 1
<1>1. PICK T, text, sep, max :
          T = STRING /\ text = option /\ sep = "~" /\ max = 3
    OBVIOUS
<1>2. PICK tokens : tokens = Split(text, sep, max) OBVIOUS
<1>3. text \in Seq(T) BY <1>1
<1>4. /\ tokens \in Seq(Seq(T))
      /\ \A k \in DOMAIN tokens : Len(tokens[k]) + Len(tokens) <= Len(text) + 1
    BY <1>2, <1>3, SplitIs
<1>5. PICK parts : parts = Parts(option) OBVIOUS
<1>6. parts = [k \in DOMAIN tokens |-> Decoded(tokens[k])] BY <1>1, <1>2, <1>5 DEF Parts, Map
<1>7. \A k \in DOMAIN tokens : /\ Decoded(tokens[k]) \in Seq(T)
                               /\ Len(Decoded(tokens[k])) <= Len(tokens[k])
                               /\ Len(Decoded(tokens[k])) \in Nat /\ Len(tokens[k]) \in Nat
    BY <1>1, <1>4, DecodedIsShort
<1>8. parts \in Seq(Seq(T)) /\ Len(parts) = Len(tokens) /\ Len(tokens) \in Nat
      /\ DOMAIN parts = DOMAIN tokens
    <2>1. PICK U : U = Seq(T) OBVIOUS
    <2>2. tokens \in Seq(U) /\ \A k \in DOMAIN tokens : Decoded(tokens[k]) \in U
        BY <1>4, <1>7, <2>1
    <2>3. parts \in Seq(U) /\ Len(parts) = Len(tokens) /\ Len(tokens) \in Nat
          /\ DOMAIN parts = DOMAIN tokens
        BY <1>6, <2>2
    <2> QED BY <2>1, <2>3
<1>9. \A k \in DOMAIN parts : Len(parts[k]) + Len(parts) <= Len(text) + 1
    <2>1. Len(text) \in Nat BY <1>3
    <2>2. \A k \in DOMAIN parts : parts[k] = Decoded(tokens[k]) BY <1>6, <1>8
    <2> QED BY <1>4, <1>7, <1>8, <2>1, <2>2
<1> QED BY <1>1, <1>5, <1>8, <1>9

\* The options of a submenu are shorter than the option that holds them.
LEMMA InnerIsShorter ==
    ASSUME NEW option \in Seq(STRING), Len(Parts(option)) = 3
    PROVE  Split(Parts(option)[2], "|", 0) \in Bounded(Len(option))
<1>1. PICK T, sep, max : T = STRING /\ sep = "|" /\ max = 0 OBVIOUS
<1>2. PICK inner : inner = Parts(option)[2] OBVIOUS
<1>3. inner \in Seq(T) /\ Len(inner) + 3 <= Len(option) + 1
    <2>1. Parts(option) \in Seq(Seq(STRING)) /\ 2 \in DOMAIN Parts(option) BY PartsAre
    <2>2. Len(inner) + Len(Parts(option)) <= Len(option) + 1 BY <1>2, <2>1, PartsAre
    <2>3. Len(inner) + 3 <= Len(option) + 1 BY <2>2, Zenon
    <2>4. Parts(option)[2] \in Seq(STRING)
        <3>1. PICK U, parts, k : U = Seq(STRING) /\ parts = Parts(option) /\ k = 2 OBVIOUS
        <3>2. parts \in Seq(U) /\ k \in DOMAIN parts BY <2>1, <3>1
        <3>3. parts[k] \in U BY <3>2
        <3> QED BY <3>1, <3>3
    <2> QED BY <1>1, <1>2, <2>3, <2>4, Zenon
<1>4. PICK tokens : tokens = Split(inner, sep, max) OBVIOUS
<1>5. /\ tokens \in Seq(Seq(T))
      /\ \A k \in DOMAIN tokens : Len(tokens[k]) + Len(tokens) <= Len(inner) + 1
    BY <1>3, <1>4, SplitIs
<1>6. ASSUME NEW k \in DOMAIN tokens PROVE Len(tokens[k]) < Len(option)
    <2>1. tokens[k] \in Seq(T) /\ Len(tokens) \in Nat /\ Len(tokens) >= 1 BY <1>5
    <2>2. Len(tokens[k]) \in Nat /\ Len(inner) \in Nat /\ Len(option) \in Nat
        BY <1>3, <2>1
    <2> QED BY <1>3, <1>5, <2>1, <2>2
<1> QED BY <1>1, <1>2, <1>4, <1>5, <1>6 DEF Bounded, OptionLists

LEMMA MenuBodyIsLocal ==
    ASSUME NEW g, NEW h, NEW options \in OptionLists,
           \A k \in DOMAIN options : \A r \in Bounded(Len(options[k])) : g[r] = h[r]
    PROVE  MenuBody(g, options) = MenuBody(h, options)
<1>1. ASSUME NEW k \in DOMAIN options
      PROVE  ShownItem(g, Parts(options[k])) = ShownItem(h, Parts(options[k]))
    <2> DEFINE part == Parts(options[k])
               inner == Split(part[2], "|", 0)
    <2>1. options[k] \in Seq(STRING) BY DEF OptionLists
    <2>2. CASE Len(part) = 3
        <3>1. inner \in Bounded(Len(options[k])) BY <2>1, <2>2, InnerIsShorter
        <3>2. g[inner] = h[inner] BY <3>1
        <3> HIDE DEF part
        <3>3. MenuItem(g, part) = MenuItem(h, part) BY <3>2, Zenon DEF MenuItem
        <3> QED BY <3>3 DEF ShownItem, part
    <2>3. CASE Len(part) # 3 BY <2>3, Zenon DEF ShownItem
    <2> QED BY <2>2, <2>3
<1>2. Map(LAMBDA option : ShownItem(g, Parts(option)), options)
      = Map(LAMBDA option : ShownItem(h, Parts(option)), options)
    BY <1>1 DEF Map
<1> QED BY <1>2, Zenon DEF MenuBody

MenuUpTo(g, n) == g = [o \in Bounded(n) |-> MenuBody(g, o)]

LEMMA BoundedIs ==
    ASSUME NEW n \in Nat, NEW o \in Bounded(n), NEW k \in DOMAIN o
    PROVE  /\ o \in OptionLists /\ Len(o[k]) \in Nat /\ Len(o[k]) < n
           /\ \A r \in Bounded(Len(o[k])) : r \in Bounded(n)
<1>1. o \in OptionLists /\ Len(o[k]) < n BY DEF Bounded
<1>2. Len(o[k]) \in Nat BY <1>1 DEF OptionLists
<1>3. ASSUME NEW r \in Bounded(Len(o[k])) PROVE r \in Bounded(n)
    <2>1. r \in OptionLists /\ \A i1 \in DOMAIN r : Len(r[i1]) < Len(o[k]) BY DEF Bounded
    <2>2. \A i1 \in DOMAIN r : Len(r[i1]) \in Nat BY <2>1 DEF OptionLists
    <2>3. \A i1 \in DOMAIN r : Len(r[i1]) < n BY <1>1, <1>2, <2>1, <2>2
    <2> QED BY <2>1, <2>3 DEF Bounded
<1> QED BY <1>1, <1>2, <1>3

LEMMA MenuUpToAgree ==
    ASSUME NEW g, NEW h, NEW n \in Nat, NEW m \in Nat, MenuUpTo(g, n), MenuUpTo(h, m)
    PROVE  \A o \in Bounded(n) \cap Bounded(m) : g[o] = h[o]
<1> DEFINE S == {b \in Nat : \A o \in Bounded(n) \cap Bounded(m) :
                                 o \in Bounded(b) => g[o] = h[o]}
<1>1. ASSUME NEW b \in Nat, \A a \in Nat : a < b => a \in S PROVE b \in S
    <2> SUFFICES ASSUME NEW o \in Bounded(n) \cap Bounded(m), o \in Bounded(b)
                 PROVE  g[o] = h[o]
        OBVIOUS
    <2>1. o \in OptionLists BY DEF Bounded
    <2>2. ASSUME NEW k \in DOMAIN o, NEW r \in Bounded(Len(o[k])) PROVE g[r] = h[r]
        <3>1. Len(o[k]) \in Nat /\ Len(o[k]) < b /\ r \in Bounded(n) \cap Bounded(m)
            BY BoundedIs
        <3> QED BY <1>1, <3>1
    <2>3. MenuBody(g, o) = MenuBody(h, o) BY <2>1, <2>2, MenuBodyIsLocal
    <2>4. g[o] = MenuBody(g, o) /\ h[o] = MenuBody(h, o) BY DEF MenuUpTo
    <2> QED BY <2>3, <2>4
<1> DEFINE id == [b \in Nat |-> b]
<1>2. Nat \subseteq S
    <2>1. id \in [Nat -> Nat] OBVIOUS
    <2>2. \A b \in Nat : (\A a \in Nat : id[a] < id[b] => a \in S) => b \in S BY <1>1
    <2> HIDE DEF S, id
    <2> QED BY <2>1, <2>2, MeasureInduction
<1>3. ASSUME NEW o \in Bounded(n) \cap Bounded(m) PROVE g[o] = h[o] BY <1>2
<1> QED BY <1>3

LEMMA MenuUpToExist == \A n \in Nat : \E g : MenuUpTo(g, n)
<1> DEFINE S == {n \in Nat : \E g : MenuUpTo(g, n)}
<1>1. 0 \in S
    <2> DEFINE h == [o \in Bounded(0) |-> MenuBody(<<>>, o)]
    <2>1. ASSUME NEW o \in Bounded(0) PROVE MenuBody(<<>>, o) = MenuBody(h, o)
        <3>1. o \in OptionLists BY DEF Bounded
        <3>2. ASSUME NEW k \in DOMAIN o PROVE FALSE
            <4>1. Len(o[k]) \in Nat /\ Len(o[k]) < 0 BY BoundedIs
            <4> QED BY <4>1
        <3> HIDE DEF h
        <3> QED BY <3>1, <3>2, MenuBodyIsLocal
    <2>2. h = [o \in Bounded(0) |-> MenuBody(h, o)] BY <2>1
    <2> HIDE DEF h
    <2>3. MenuUpTo(h, 0) BY <2>2 DEF MenuUpTo
    <2> QED BY <2>3
<1>2. ASSUME NEW n \in Nat, n \in S PROVE n + 1 \in S
    <2>1. PICK g : MenuUpTo(g, n) BY <1>2
    <2> DEFINE h == [o \in Bounded(n + 1) |-> MenuBody(g, o)]
    <2>2. ASSUME NEW o \in Bounded(n + 1) PROVE MenuBody(g, o) = MenuBody(h, o)
        <3>0. n + 1 \in Nat OBVIOUS
        <3>1. o \in OptionLists BY DEF Bounded
        <3>2. ASSUME NEW k \in DOMAIN o, NEW r \in Bounded(Len(o[k])) PROVE g[r] = h[r]
            <4>1. Len(o[k]) \in Nat /\ Len(o[k]) < n + 1 /\ r \in Bounded(n + 1)
                BY <3>0, BoundedIs
            <4>2. r \in Bounded(n)
                <5>1. r \in OptionLists /\ \A p \in DOMAIN r : Len(r[p]) < Len(o[k])
                    BY DEF Bounded
                <5>2. \A p \in DOMAIN r : Len(r[p]) \in Nat BY <5>1 DEF OptionLists
                <5>3. \A p \in DOMAIN r : Len(r[p]) < n BY <4>1, <5>1, <5>2
                <5> QED BY <5>1, <5>3 DEF Bounded
            <4>3. g[r] = MenuBody(g, r) BY <2>1, <4>2 DEF MenuUpTo
            <4> QED BY <4>1, <4>3
        <3> HIDE DEF h
        <3> QED BY <3>1, <3>2, MenuBodyIsLocal
    <2>3. h = [o \in Bounded(n + 1) |-> MenuBody(h, o)] BY <2>2
    <2> HIDE DEF h
    <2>4. MenuUpTo(h, n + 1) BY <2>3 DEF MenuUpTo
    <2> QED BY <2>4
<1> HIDE DEF S
<1>3. \A n \in Nat : n \in S BY <1>1, <1>2, Induction
<1> QED BY <1>3 DEF S

LEMMA EveryListIsBounded == \A o \in OptionLists : \E n \in Nat : o \in Bounded(n)
<1> DEFINE T == Seq(STRING)
           P == {o \in Seq(T) : \E n \in Nat : \A k \in DOMAIN o : Len(o[k]) < n}
<1>1. <<>> \in P
    <2>1. <<>> \in Seq(T) /\ DOMAIN <<>> = {} BY EmptySeq
    <2> QED BY <2>1
<1>2. ASSUME NEW f \in Seq(T), NEW x \in T, f \in P PROVE Append(f, x) \in P
    <2>1. PICK n \in Nat : \A k \in DOMAIN f : Len(f[k]) < n BY <1>2
    <2>2. Len(x) \in Nat OBVIOUS
    <2>3. /\ Append(f, x) \in Seq(T) /\ Len(Append(f, x)) = Len(f) + 1 /\ Len(f) \in Nat
          /\ Append(f, x)[Len(f) + 1] = x /\ \A k \in 1..Len(f) : Append(f, x)[k] = f[k]
        BY AppendProperties
    <2>4. PICK b \in Nat : b >= n /\ b > Len(x)
        <3>1. n + Len(x) + 1 \in Nat /\ n + Len(x) + 1 >= n /\ n + Len(x) + 1 > Len(x) BY <2>2
        <3> QED BY <3>1
    <2> HIDE DEF T
    <2>5. ASSUME NEW k \in DOMAIN Append(f, x) PROVE Len(Append(f, x)[k]) < b
        <3>1. k \in 1..Len(f) \/ k = Len(f) + 1 BY <2>3
        <3>2. CASE k \in 1..Len(f)
            <4>1. k \in DOMAIN f /\ Append(f, x)[k] = f[k] BY <2>3, <3>2
            <4>2. Len(f[k]) < n /\ Len(f[k]) \in Nat BY <2>1, <4>1 DEF T
            <4> QED BY <2>4, <4>1, <4>2
        <3>3. CASE k = Len(f) + 1 BY <2>3, <2>4, <3>3
        <3> QED BY <3>1, <3>2, <3>3
    <2> QED BY <2>3, <2>5
<1>3. Seq(T) \subseteq P
    <2> HIDE DEF P, T
    <2> QED BY <1>1, <1>2, SequenceInduction2
<1> QED BY <1>3 DEF Bounded, OptionLists

LEMMA ParseMenuUnfolds == \A o \in OptionLists : parse_menu[o] = MenuBody(parse_menu, o)
<1> DEFINE up(n) == CHOOSE g : MenuUpTo(g, n)
           bound(o) == CHOOSE n \in Nat : o \in Bounded(n)
           F == [o \in OptionLists |-> up(bound(o))[o]]
<1>1. \A n \in Nat : MenuUpTo(up(n), n) BY MenuUpToExist
<1>2. \A o \in OptionLists : bound(o) \in Nat /\ o \in Bounded(bound(o))
    BY EveryListIsBounded
<1> HIDE DEF up, bound
<1>3. ASSUME NEW o \in OptionLists PROVE F[o] = MenuBody(F, o)
    <2> DEFINE n == bound(o)
    <2>1. n \in Nat /\ o \in Bounded(n) /\ MenuUpTo(up(n), n) BY <1>1, <1>2
    <2>2. F[o] = MenuBody(up(n), o) BY <2>1 DEF MenuUpTo
    <2>3. ASSUME NEW k \in DOMAIN o, NEW r \in Bounded(Len(o[k])) PROVE up(n)[r] = F[r]
        <3>1. r \in OptionLists BY DEF Bounded
        <3>2. r \in Bounded(n) BY <2>1, BoundedIs
        <3>3. bound(r) \in Nat /\ r \in Bounded(bound(r)) /\ MenuUpTo(up(bound(r)), bound(r))
            BY <1>1, <1>2, <3>1
        <3> HIDE DEF n
        <3>4. up(n)[r] = up(bound(r))[r] BY <2>1, <3>2, <3>3, MenuUpToAgree
        <3> QED BY <3>1, <3>4
    <2> HIDE DEF F, n
    <2>4. MenuBody(up(n), o) = MenuBody(F, o) BY <2>3, MenuBodyIsLocal
    <2> QED BY <2>2, <2>4
<1>4. F = [o \in OptionLists |-> MenuBody(F, o)] BY <1>3
<1> HIDE DEF F
<1>5. parse_menu = CHOOSE g : g = [o \in OptionLists |-> MenuBody(g, o)]
    BY DEF parse_menu, MenuBody, ShownItem, MenuItem, OptionLists
<1>6. parse_menu = [o \in OptionLists |-> MenuBody(parse_menu, o)] BY <1>4, <1>5
<1> QED BY <1>6

\* One item for each option: the items are those of the options, in their order.
LEMMA FlattenSingletons ==
    ASSUME NEW T, NEW items \in Seq(T)
    PROVE  FlattenSeq([k \in DOMAIN items |-> <<items[k]>>]) = items
<1> DEFINE e == [x \in T |-> <<x>>]
           P == {s \in Seq(T) : Translated(e, s) = s}
<1>1. Takes(e, T, Seq(T)) /\ \A x \in T : e[x] = <<x>> BY DEF Takes
<1> HIDE DEF e
<1>2. <<>> \in P BY EmptySeq, TranslatedNothing
<1>3. ASSUME NEW f \in Seq(T), NEW x \in T, f \in P PROVE Append(f, x) \in P
    <2>1. Translated(e, Append(f, x)) = f \o <<x>>
        <3>1. Translated(e, f) = f BY <1>3
        <3> HIDE DEF P
        <3>2. Translated(e, Append(f, x)) = Translated(e, f) \o e[x]
            BY <1>1, TranslatedAppend
        <3> QED BY <1>1, <3>1, <3>2
    <2>2. f \o <<x>> = Append(f, x) OBVIOUS
    <2>3. Append(f, x) \in Seq(T) BY AppendProperties
    <2> QED BY <2>1, <2>2, <2>3
<1>4. Seq(T) \subseteq P
    <2> HIDE DEF P
    <2> QED BY <1>2, <1>3, SequenceInduction2
<1>5. Image(e, items) = [k \in DOMAIN items |-> <<items[k]>>]
    <2>1. \A k \in DOMAIN items : items[k] \in T OBVIOUS
    <2> QED BY <1>1, <2>1 DEF Image
<1> QED BY <1>4, <1>5 DEF Translated

LEMMA ParsedItems ==
    ASSUME NEW options \in OptionLists, NEW T, NEW items \in Seq(T),
           DOMAIN items = DOMAIN options,
           \A k \in DOMAIN options :
               /\ Len(Parts(options[k])) = 3
               /\ MenuItem(parse_menu, Parts(options[k])) = items[k]
    PROVE  parse_menu[options] = items
<1>1. \A k \in DOMAIN options : ShownItem(parse_menu, Parts(options[k])) = <<items[k]>>
    BY Zenon DEF ShownItem
<1>2. Map(LAMBDA option : ShownItem(parse_menu, Parts(option)), options)
      = [k \in DOMAIN items |-> <<items[k]>>]
    BY <1>1 DEF Map
<1>3. MenuBody(parse_menu, options) = items BY <1>2, FlattenSingletons DEF MenuBody
<1> QED BY <1>3, ParseMenuUnfolds

\* A leaf that can be said is parsed back from its line.
LEMMA WithoutIsContains ==
    ASSUME NEW s \in Seq(STRING), NEW c
    PROVE  Contains(s, c) <=> ~Without(s, c)
BY DEF Contains, Without

Marked(leaf) == (IF leaf.grayed THEN <<"!">> ELSE <<>>) \o leaf.label

LEMMA LeafFields ==
    ASSUME NEW leaf \in LeafItems
    PROVE  /\ leaf.label \in Seq(STRING) /\ leaf.grayed \in BOOLEAN
           /\ leaf.tooltip \in Seq(STRING) /\ leaf.verb \in Seq(STRING)
           /\ leaf = [label |-> leaf.label, grayed |-> leaf.grayed,
                      tooltip |-> leaf.tooltip, verb |-> leaf.verb]
           /\ ~IsSubmenu(leaf)
BY DEF LeafItems, IsSubmenu

LEMMA MarkedIs ==
    ASSUME NEW leaf \in LeafItems, SayableLeaf(leaf)
    PROVE  /\ Marked(leaf) \in Seq(STRING)
           /\ Leaf(Marked(leaf), leaf.tooltip, leaf.verb) = leaf
<1>1. /\ leaf.label \in Seq(STRING) /\ leaf.grayed \in BOOLEAN
      /\ leaf = [label |-> leaf.label, grayed |-> leaf.grayed,
                 tooltip |-> leaf.tooltip, verb |-> leaf.verb]
    BY LeafFields
<1>2. CASE leaf.grayed
    <2>1. PICK S, bang, label : S = STRING /\ bang = "!" /\ label = leaf.label OBVIOUS
    <2>2. bang \in S /\ label \in Seq(S) BY <1>1, <2>1, CharactersAreStrings
    <2>3. Marked(leaf) = <<bang>> \o label BY <1>2, <2>1 DEF Marked
    <2>4. /\ <<bang>> \o label \in Seq(S) /\ <<bang>> \o label # <<>>
          /\ (<<bang>> \o label)[1] = bang /\ Tail(<<bang>> \o label) = label
        BY <2>2
    <2>5. PICK m : m = Marked(leaf) OBVIOUS
    <2>6. m \in Seq(STRING) /\ m # <<>> /\ m[1] = "!" /\ Tail(m) = leaf.label
        BY <2>1, <2>3, <2>4, <2>5
    <2>7. Leaf(m, leaf.tooltip, leaf.verb)
          = [label |-> Tail(m), grayed |-> TRUE, tooltip |-> leaf.tooltip, verb |-> leaf.verb]
        BY <2>6 DEF Leaf
    <2>8. leaf.grayed = TRUE BY <1>1, <1>2
    <2> QED BY <1>1, <2>5, <2>6, <2>7, <2>8
<1>3. CASE ~leaf.grayed
    <2>1. PICK m : m = leaf.label OBVIOUS
    <2>2. m \in Seq(STRING) /\ (m # <<>> => m[1] # "!") BY <1>1, <1>3, <2>1 DEF SayableLeaf
    <2>3. Marked(leaf) = m
        <3>1. Marked(leaf) = <<>> \o m BY <1>3, <2>1 DEF Marked
        <3> QED BY <2>2, <3>1, ConcatEmptySeq
    <2>4. (m # <<>> /\ m[1] = "!") = FALSE BY <2>2
    <2>5. Leaf(m, leaf.tooltip, leaf.verb)
          = [label |-> m, grayed |-> FALSE, tooltip |-> leaf.tooltip, verb |-> leaf.verb]
        BY <2>4 DEF Leaf
    <2>6. leaf.grayed = FALSE BY <1>1, <1>3
    <2> QED BY <1>1, <2>1, <2>2, <2>3, <2>5, <2>6
<1> QED BY <1>2, <1>3

LEMMA LeafIsParsed ==
    ASSUME NEW leaf \in LeafItems, SayableLeaf(leaf), NEW g
    PROVE  /\ Len(Parts(LeafLine(leaf))) = 3
           /\ MenuItem(g, Parts(LeafLine(leaf))) = leaf
<1>1. PICK a, b, c : a = Marked(leaf) /\ b = leaf.tooltip /\ c = leaf.verb OBVIOUS
<1>2. /\ a \in Seq(STRING) /\ b \in Seq(STRING) /\ c \in Seq(STRING)
      /\ Leaf(a, b, c) = leaf
    BY <1>1, LeafFields, MarkedIs
<1>3. LeafLine(leaf) = OptionLine(a, b, c) BY <1>1 DEF LeafLine, Marked
<1>4. Parts(LeafLine(leaf)) = <<a, b, c>> BY <1>2, <1>3, OptionIsParted
<1>5. ~Contains(b, "~") BY <1>1 DEF SayableLeaf
<1>6. PICK part : part = <<a, b, c>> OBVIOUS
<1>7. part[1] = a /\ part[2] = b /\ part[3] = c /\ Len(part) = 3 BY <1>6
<1>8. MenuItem(g, part) = Leaf(a, b, c) BY <1>5, <1>7, Zenon DEF MenuItem
<1> QED BY <1>2, <1>4, <1>6, <1>7, <1>8

LEMMA LeafLineIs ==
    ASSUME NEW leaf \in LeafItems
    PROVE  /\ LeafLine(leaf) \in Seq(STRING) /\ LeafLine(leaf) # <<>>
           /\ ~Without(LeafLine(leaf), "~") /\ Without(LeafLine(leaf), "|")
<1>1. PICK a, b, c : a = Marked(leaf) /\ b = leaf.tooltip /\ c = leaf.verb OBVIOUS
<1>2. LeafLine(leaf) = OptionLine(a, b, c) BY <1>1 DEF LeafLine, Marked
<1>3. a \in Seq(STRING) /\ b \in Seq(STRING) /\ c \in Seq(STRING)
    <2>1. b \in Seq(STRING) /\ c \in Seq(STRING) /\ leaf.label \in Seq(STRING)
        BY <1>1, LeafFields
    <2>2. <<"!">> \in Seq(STRING) /\ <<>> \in Seq(STRING)
        <3>1. "!" \in STRING BY CharactersAreStrings
        <3> QED BY <3>1, EmptySeq
    <2>3. \A s \in Seq(STRING) : s \o leaf.label \in Seq(STRING) BY <2>1, ConcatProperties
    <2> QED BY <1>1, <2>1, <2>2, <2>3 DEF Marked
<1> QED BY <1>2, <1>3, OptionIsParted

\* A submenu's leaves are parsed back from the text its option holds.
LEMMA InnerIsParsed ==
    ASSUME NEW items \in Seq(LeafItems), items # <<>>,
           \A k \in DOMAIN items : SayableLeaf(items[k])
    PROVE  LET inner == Join(Map(LeafLine, items), <<"|">>)
           IN  /\ inner \in Seq(STRING) /\ Contains(inner, "~")
               /\ parse_menu[Split(inner, "|", 0)] = items
<1> DEFINE lines == Map(LeafLine, items)
           inner == Join(lines, <<"|">>)
<1>1. /\ DOMAIN lines = DOMAIN items /\ DOMAIN items = 1..Len(items) /\ Len(items) \in Nat
      /\ 1 \in DOMAIN items
      /\ \A k \in DOMAIN items : items[k] \in LeafItems /\ lines[k] = LeafLine(items[k])
    <2>1. Len(items) # 0 BY EmptySeq
    <2> QED BY <2>1 DEF Map
<1>2. \A k \in DOMAIN lines : lines[k] \in Seq(STRING) /\ Without(lines[k], "|")
    BY <1>1, LeafLineIs
<1>3. lines \in Seq(Seq(STRING)) /\ lines # <<>>
    <2> HIDE DEF lines
    <2>1. lines = [k \in 1..Len(items) |-> LeafLine(items[k])] BY DEF lines, Map
    <2>2. PICK T : T = Seq(STRING) OBVIOUS
    <2>3. \A k \in 1..Len(items) : LeafLine(items[k]) \in T BY <1>1, <2>2, LeafLineIs
    <2>4. lines \in Seq(T) /\ Len(lines) = Len(items) BY <1>1, <2>1, <2>3
    <2> QED BY <1>1, <2>2, <2>4
<1>4. ~Without(Head(lines), "~")
    <2>1. Head(lines) = lines[1]
        <3> HIDE DEF lines
        <3> QED BY <1>3
    <2> QED BY <1>1, <2>1, LeafLineIs
<1> HIDE DEF lines
<1>5. PICK S, bar, tilde, max : S = STRING /\ bar = "|" /\ tilde = "~" /\ max = 0 OBVIOUS
<1>6. /\ lines \in Seq(Seq(S)) /\ bar \in S /\ max \in Int /\ max < 1
      /\ AllWithout(lines, bar)
    BY <1>2, <1>3, <1>5, CharactersAreStrings DEF AllWithout
<1>7. PICK t : t = Join(lines, <<bar>>) OBVIOUS
<1>8. t \in Seq(S) BY <1>3, <1>6, <1>7, JoinIs
<1>9. ~Without(t, tilde) /\ t # <<>>
    <2>1. ~Without(t, tilde) BY <1>3, <1>4, <1>5, <1>6, <1>7, JoinBegins
    <2>2. Without(<<>>, tilde) BY DEF Without
    <2> QED BY <2>1, <2>2
<1>10. Split(t, bar, max) = lines BY <1>3, <1>6, <1>7, <1>9, JoinedIsSplit
<1>11. parse_menu[lines] = items
    <2>1. PICK T : T = LeafItems OBVIOUS
    <2>2. \A k \in DOMAIN lines : /\ Len(Parts(lines[k])) = 3
                                  /\ MenuItem(parse_menu, Parts(lines[k])) = items[k]
        BY <1>1, LeafIsParsed
    <2>3. lines \in OptionLists BY <1>3 DEF OptionLists
    <2>4. items \in Seq(T) BY <2>1
    <2> QED BY <1>1, <2>2, <2>3, <2>4, ParsedItems
<1>12. inner = t BY <1>5, <1>7
<1>13. inner \in Seq(STRING) /\ Contains(inner, "~")
    BY <1>5, <1>8, <1>9, <1>12, WithoutIsContains
<1>14. parse_menu[Split(inner, "|", 0)] = items BY <1>5, <1>10, <1>11, <1>12
<1> QED BY <1>13, <1>14 DEF lines

LEMMA ItemIsParsed ==
    ASSUME NEW item \in LeafItems \cup SubmenuItems, Sayable(item)
    PROVE  /\ ItemLine(item) \in Seq(STRING) /\ ItemLine(item) # <<>>
           /\ Len(Parts(ItemLine(item))) = 3
           /\ MenuItem(parse_menu, Parts(ItemLine(item))) = item
<1>1. CASE item \in LeafItems
    <2>1. ~IsSubmenu(item) BY <1>1, LeafFields
    <2>2. ItemLine(item) = LeafLine(item) /\ SayableLeaf(item)
        BY <2>1, Zenon DEF ItemLine, Sayable
    <2> QED BY <1>1, <2>2, LeafIsParsed, LeafLineIs
<1>2. CASE item \in SubmenuItems
    <2>1. /\ item.label \in Seq(STRING) /\ item.items \in Seq(LeafItems)
          /\ item = [label |-> item.label, items |-> item.items] /\ IsSubmenu(item)
        BY <1>2 DEF SubmenuItems, IsSubmenu
    <2>2. item.items # <<>> /\ \A k \in DOMAIN item.items : SayableLeaf(item.items[k])
        BY <2>1, Zenon DEF Sayable
    <2>3. PICK inner : inner = Join(Map(LeafLine, item.items), <<"|">>) OBVIOUS
    <2>4. /\ inner \in Seq(STRING) /\ Contains(inner, "~")
          /\ parse_menu[Split(inner, "|", 0)] = item.items
        BY <2>1, <2>2, <2>3, InnerIsParsed
    <2>5. PICK a, none : a = item.label /\ none = <<>> OBVIOUS
    <2>6. a \in Seq(STRING) /\ none \in Seq(STRING) BY <2>1, <2>5, EmptySeq
    <2>7. ItemLine(item) = OptionLine(a, inner, none)
        BY <2>1, <2>2, <2>3, <2>5, Zenon DEF ItemLine
    <2>8. PICK part : part = <<a, inner, none>> OBVIOUS
    <2>9. part[1] = a /\ part[2] = inner /\ Len(part) = 3 BY <2>8
    <2>10. /\ ItemLine(item) \in Seq(STRING) /\ ItemLine(item) # <<>>
           /\ Parts(ItemLine(item)) = part
        BY <2>4, <2>6, <2>7, <2>8, OptionIsParted
    <2>11. MenuItem(parse_menu, part)
           = [label |-> part[1], items |-> parse_menu[Split(part[2], "|", 0)]]
        BY <2>4, <2>9, Zenon DEF MenuItem
    <2>12. MenuItem(parse_menu, part) = item BY <2>1, <2>4, <2>5, <2>9, <2>11
    <2> QED BY <2>9, <2>10, <2>12
<1> QED BY <1>1, <1>2

LEMMA OfferIsParsed ==
    ASSUME NEW menu \in Menus, \A k \in DOMAIN menu : Sayable(menu[k]), menu # <<>>
    PROVE  Options(menu)[1] # <<>> /\ parse_menu[Options(menu)] = menu
<1> DEFINE lines == Map(ItemLine, menu)
           Items == LeafItems \cup SubmenuItems
<1>1. menu \in Seq(Items) BY MenusAreOfItems
<1> HIDE DEF Items
<1>2. /\ DOMAIN lines = DOMAIN menu /\ DOMAIN menu = 1..Len(menu) /\ Len(menu) \in Nat
      /\ 1 \in DOMAIN menu
      /\ \A k \in DOMAIN menu : menu[k] \in Items /\ lines[k] = ItemLine(menu[k])
    <2>1. Len(menu) # 0 BY <1>1, EmptySeq
    <2> QED BY <1>1, <2>1 DEF Map
<1>3. \A k \in DOMAIN lines :
          /\ lines[k] \in Seq(STRING) /\ lines[k] # <<>>
          /\ Len(Parts(lines[k])) = 3 /\ MenuItem(parse_menu, Parts(lines[k])) = menu[k]
    BY <1>2, ItemIsParsed DEF Items
<1>4. lines \in OptionLists
    <2> HIDE DEF lines
    <2>1. lines = [k \in 1..Len(menu) |-> ItemLine(menu[k])] BY <1>2 DEF lines, Map
    <2>2. PICK T : T = Seq(STRING) OBVIOUS
    <2>3. \A k \in 1..Len(menu) : ItemLine(menu[k]) \in T BY <1>2, <1>3, <2>2
    <2>4. lines \in Seq(T) BY <1>2, <2>1, <2>3
    <2> QED BY <2>2, <2>4 DEF OptionLists
<1> HIDE DEF lines
<1>5. parse_menu[lines] = menu BY <1>1, <1>2, <1>3, <1>4, ParsedItems
<1>6. Options(menu) = lines BY Zenon DEF Options, lines
<1> QED BY <1>2, <1>3, <1>5, <1>6

MenuInv ==
    /\ input \in Menus
    /\ buffer = Options(input)
    /\ (result # Null /\ \A k \in DOMAIN input : Sayable(input[k])) =>
           result = IF input = <<>> THEN <<>> ELSE InDropboxMenu(input)

LEMMA MenuInit ==
    ASSUME NEW m \in Menus, CallMenu(m)
    PROVE  MenuInv
BY DEF CallMenu, Called, MenuInv

LEMMA MenuTurn ==
    ASSUME MenuInv, GetFileItems
    PROVE  MenuInv'
<1>1. /\ input \in Menus /\ buffer = Options(input) /\ UNCHANGED <<input, buffer>>
      /\ result' = IF buffer[1] = <<>> THEN <<>> ELSE InDropboxMenu(parse_menu[buffer])
    BY DEF MenuInv, GetFileItems, Return
<1>2. ASSUME \A k \in DOMAIN input : Sayable(input[k])
      PROVE  result' = IF input = <<>> THEN <<>> ELSE InDropboxMenu(input)
    <2>1. CASE input = <<>>
        <3>1. buffer = <<<<>>>> BY <1>1, <2>1, Zenon DEF Options
        <3>2. buffer[1] = <<>> BY <3>1
        <3>3. result' = <<>> BY <1>1, <3>2, Zenon
        <3> QED BY <2>1, <3>3
    <2>2. CASE input # <<>>
        <3>1. buffer[1] # <<>> /\ parse_menu[buffer] = input BY <1>1, <1>2, <2>2, OfferIsParsed
        <3>2. result' = InDropboxMenu(parse_menu[buffer]) BY <1>1, <3>1, Zenon
        <3> QED BY <2>2, <3>1, <3>2
    <2> QED BY <2>1, <2>2
<1> QED BY <1>1, <1>2 DEF MenuInv

-----------------------------------------------------------------------------
(* The results. *)

\* What holds of each function's run.
RunInv ==
    /\ TextInv
    /\ function = "canonicalize" => StackInv
    /\ function = "decode" => DecodedInv
    /\ function = "transmit" => TransmitInv
    /\ function = "menu" => MenuInv

LEMMA RunInvInit == TextInit => RunInv
<1> SUFFICES ASSUME TextInit PROVE RunInv OBVIOUS
<1>1. TextInv BY TextInvInit
<1>2. ASSUME NEW p \in Paths, CallCanonicalize(p) PROVE RunInv
    <2>1. StackInv BY <1>2, StackInit
    <2>2. function = "canonicalize" BY <1>2 DEF CallCanonicalize, Called
    <2> QED BY <1>1, <2>1, <2>2 DEF RunInv
<1>3. ASSUME NEW s \in CodedTexts, CallDecode(s) PROVE RunInv
    <2>1. DecodedInv BY <1>3, DecodedInvInit
    <2>2. function = "decode" BY <1>3 DEF CallDecode, Called
    <2> QED BY <1>1, <2>1, <2>2 DEF RunInv
<1>4. ASSUME NEW a \in Arguments, CallTransmit(a) PROVE RunInv
    <2>1. TransmitInv BY <1>4, TransmitInit
    <2>2. function = "transmit" BY <1>4 DEF CallTransmit, Called
    <2> QED BY <1>1, <2>1, <2>2 DEF RunInv
<1>5. ASSUME NEW m \in Menus, CallMenu(m) PROVE RunInv
    <2>1. MenuInv BY <1>5, MenuInit
    <2>2. function = "menu" BY <1>5 DEF CallMenu, Called
    <2> QED BY <1>1, <2>1, <2>2 DEF RunInv
<1> QED BY <1>2, <1>3, <1>4, <1>5 DEF TextInit

LEMMA RunInvariant == TextSpec => []RunInv
<1>1. RunInv /\ TextInv' /\ [TextNext]_textVars => RunInv'
    <2> SUFFICES ASSUME RunInv, TextInv', [TextNext]_textVars PROVE RunInv' OBVIOUS
    <2>1. CASE CanonicalizeNext
        <3>1. function = "canonicalize" /\ function' = function
            BY <2>1 DEF CanonicalizeNext, Running
        <3>2. CanonicalizeInv /\ StackInv BY <3>1 DEF RunInv, TextInv
        <3>3. StackInv' BY <2>1, <3>2, StackTurn
        <3> QED BY <3>1, <3>3 DEF RunInv
    <2>2. CASE CanonicalizeReturn
        <3>1. function = "canonicalize" /\ function' = function
            BY <2>2 DEF CanonicalizeReturn, Running, Return
        <3>2. CanonicalizeInv /\ StackInv BY <3>1 DEF RunInv, TextInv
        <3>3. StackInv' BY <2>2, <3>2, StackReturned
        <3> QED BY <3>1, <3>3 DEF RunInv
    <2>3. CASE DecodePlain \/ DecodeEscape
        <3>1. function = "decode" /\ function' = function /\ result = Null
            BY <2>3 DEF DecodePlain, DecodeEscape, Decoding, Running
        <3>2. DecodeInv /\ DecodedInv BY <3>1 DEF RunInv, TextInv
        <3>3. DecodedInv' BY <2>3, <3>1, <3>2, DecodedTurn
        <3> QED BY <3>1, <3>3 DEF RunInv
    <2>4. CASE DecodeFail
        <3>1. function = "decode" /\ function' = function /\ input' = input
            BY <2>4 DEF DecodeFail, Decoding, Running, Return
        <3>2. DecodeInv /\ DecodedInv BY <3>1 DEF RunInv, TextInv
        <3>3. ~WellFormed(input) BY <2>4, <3>2, DecodedFailing
        <3>4. DecodedInv' BY <3>1, <3>3 DEF DecodedInv
        <3> QED BY <3>1, <3>4 DEF RunInv
    <2>5. CASE DecodeReturn
        <3>1. function = "decode" /\ function' = function
            BY <2>5 DEF DecodeReturn, Running, Return
        <3>2. DecodeInv /\ DecodedInv BY <3>1 DEF RunInv, TextInv
        <3>3. DecodedInv' BY <2>5, <3>2, DecodedEnds
        <3> QED BY <3>1, <3>3 DEF RunInv
    <2>6. CASE WriteArgument \/ ParseArgument
        <3>1. function = "transmit" /\ function' = function
            BY <2>6 DEF WriteArgument, ParseArgument, Running, Return
        <3>2. TransmitInv BY <3>1 DEF RunInv
        <3>3. TransmitInv' BY <2>6, <3>2, TransmitWrites, TransmitReads
        <3> QED BY <3>1, <3>3 DEF RunInv
    <2>7. CASE GetFileItems
        <3>1. function = "menu" /\ function' = function
            BY <2>7 DEF GetFileItems, Running, Return
        <3>2. MenuInv BY <3>1 DEF RunInv
        <3>3. MenuInv' BY <2>7, <3>2, MenuTurn
        <3> QED BY <3>1, <3>3 DEF RunInv
    <2>8. CASE UNCHANGED textVars
        <3>1. UNCHANGED <<function, input, i, j, buffer, result>> BY <2>8 DEF textVars
        <3>2. StackInv' <=> StackInv BY <3>1 DEF StackInv
        <3>3. DecodedInv' <=> DecodedInv BY <3>1 DEF DecodedInv, Written
        <3>4. TransmitInv' <=> TransmitInv BY <3>1 DEF TransmitInv
        <3>5. MenuInv' <=> MenuInv BY <3>1 DEF MenuInv
        <3> QED BY <3>1, <3>2, <3>3, <3>4, <3>5 DEF RunInv
    <2> QED BY <2>1, <2>2, <2>3, <2>4, <2>5, <2>6, <2>7, <2>8 DEF TextNext
<1>2. TextInit => RunInv BY RunInvInit
<1> QED BY <1>1, <1>2, TextInvariant, PTL DEF TextSpec

(* For every absolute path: what canonicalize_path returns is "/" and the names
   that no parent reference takes away, unless the path climbs above the root;
   climbing by two is refused, and climbing by just one takes the root away. *)
THEOREM PathIsCanonical == TextSpec => []CanonicalUnlessRootIsLost
<1>1. RunInv => CanonicalUnlessRootIsLost
    <2> SUFFICES ASSUME RunInv, function = "canonicalize", result # Null
                 PROVE  \/ /\ \A k \in DOMAIN input : Height(input, k) >= 0
                           /\ result = <<"/">> \o Survivors(input)
                        \/ /\ \E k \in DOMAIN input : Height(input, k) < -1
                           /\ result = Rejected
                        \/ /\ \E k \in DOMAIN input : Height(input, k) = -1
                           /\ \A k \in DOMAIN input : Height(input, k) >= -1
        BY DEF CanonicalUnlessRootIsLost
    <2>1. CanonicalizeInv /\ StackInv BY DEF RunInv, TextInv
    <2> QED BY <2>1, StackIsReturned
<1> QED BY <1>1, RunInvariant, PTL

(* For every text whose escapes are complete, GhettoURLDecode leaves in its buffer
   what the escapes stand for, and the length it returns, if any, is that of it. *)
THEOREM DecodingIsRight == TextSpec => []DecodesWellFormed
<1>1. RunInv => DecodesWellFormed
    <2> SUFFICES ASSUME RunInv, function = "decode", result # Null, WellFormed(input)
                 PROVE  /\ CString = Decoded(input)
                        /\ result # Rejected => result = Len(CString)
        BY DEF DecodesWellFormed
    <2>1. DecodeInv /\ DecodedInv BY DEF RunInv, TextInv
    <2> QED BY <2>1, DecodedIsReturned
<1> QED BY <1>1, RunInvariant, PTL

(* For every key and every list of values: the line send_command_to_db writes has
   no line break in it, and dropbox_client_util_command_parse_arg reads the same
   key and the same values from it, or refuses it when there is no value. *)
THEOREM ArgumentArrives == TextSpec => []ArgumentsComeThrough
<1>1. RunInv => ArgumentsComeThrough
    <2> SUFFICES ASSUME RunInv, function = "transmit" PROVE ArgumentsComeThrough
        BY DEF ArgumentsComeThrough
    <2>1. TransmitInv BY DEF RunInv
    <2>2. /\ input.key \in Seq(STRING) /\ input.values \in Seq(Seq(STRING))
        BY <2>1, ArgumentsAreTexts DEF TransmitInv
    <2>3. \A k \in DOMAIN buffer : buffer[k] # "NL"
        <3>1. CASE i = 0 BY <2>1, <3>1 DEF TransmitInv
        <3>2. CASE i = 1
            <4>1. Without(Line(input.key, input.values), "NL") BY <2>2, LineTokens
            <4> QED BY <2>1, <3>2, <4>1 DEF TransmitInv, Without
        <3> QED BY <2>1, <3>1, <3>2 DEF TransmitInv
    <2> QED BY <2>1, <2>3 DEF TransmitInv, ArgumentsComeThrough
<1> QED BY <1>1, RunInvariant, PTL

(* For every menu of leaves and of submenus of leaves: the user is shown the menu the
   daemon offers, unless it offers what its lines cannot say, though its texts are
   encoded once for each level and parsed with the separators they are free of. *)
THEOREM MenuArrives == TextSpec => []MenuIsAsOffered
<1>1. RunInv => MenuIsAsOffered BY DEF RunInv, MenuInv, MenuIsAsOffered
<1> QED BY <1>1, RunInvariant, PTL

=============================================================================
