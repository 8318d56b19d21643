---------------------------- MODULE FilenamesProofs ----------------------------
(***************************************************************************)
(* Theorems of Filenames, for names of any length and any limit.           *)
(***************************************************************************)
EXTENDS Filenames, SequenceTheorems, WellFoundedInduction, TLAPS

\* What a name on disk is made of.
Kept == {"a", "_", "."}

\* What has been copied fits and has no invalid character; behind the second loop there is
\* no pair of dots either, and what is returned can be saved.
Named(s) == s \in Seq(Kept) /\ Len(s) <= MAX_FILENAME
Whole(s) == Named(s) /\ DotDots(s) = {}
Saved(s) == Whole(s) /\ s # <<>> /\ s[1] # "."

IInv ==
    /\ step \in {"idle", "copy", "dots", "strip", "done"}
    /\ raw \in Seq(Char) /\ p \in 0 .. Len(raw)
    /\ Named(temp)
    /\ step = "idle" => p = 0
    /\ step = "strip" => Whole(temp)
    /\ step = "done" => Saved(dest)

--------------------------------------------------------------------------------
LEMMA Limit == MAX_FILENAME \in Nat /\ MAX_FILENAME >= 3
BY FilenamesAssumption

LEMMA EmptyNamed == Named(<<>>)
BY Limit, EmptySeq DEF Named

LEMMA UnnamedSaved == Saved(Unnamed)
<1>1. Unnamed \in Seq(Kept) /\ Len(Unnamed) = 3
  BY DEF Unnamed, Kept
<1>2. DotDots(Unnamed) = {} /\ Unnamed[1] # "." /\ Unnamed # <<>>
  BY DEF DotDots, IsDotDot, Unnamed
<1> QED
  BY <1>1, <1>2, Limit DEF Saved, Whole, Named

LEMMA KeptPart ==
    ASSUME NEW s, NEW m \in Nat, NEW n \in Nat, m <= n + 1,
           \A i \in m .. n : s[i] \in Kept
    PROVE  SubSeq(s, m, n) \in Seq(Kept) /\ Len(SubSeq(s, m, n)) = n - m + 1
<1>1. /\ SubSeq(s, m, n) \in Seq(Kept)
      /\ Len(SubSeq(s, m, n)) = IF m <= n THEN n - m + 1 ELSE 0
  BY SubSeqProperties
<1> QED
  BY <1>1

LEMMA Underscore ==
    ASSUME NEW s \in Seq(Kept)
    PROVE  Append(s, "_") \in Seq(Kept) /\ Len(Append(s, "_")) = Len(s) + 1
<1>1. "_" \in Kept
  BY DEF Kept
<1> QED
  BY <1>1, AppendProperties

\* n more characters, none of them invalid, leave room for the underscore.
LEMMA CopyRoom ==
    ASSUME NEW s \in Seq(Char), NEW q \in 0 .. Len(s), NEW n \in Nat, q + n <= Len(s),
           \A i \in q + 1 .. q + n : ~ Invalid(s[i]),
           Named(temp), Len(temp) < MAX_FILENAME
    PROVE  LET copied == temp \o SubSeq(s, q + 1, q + Fitting(n))
           IN  /\ Named(copied)
               /\ Len(copied) < MAX_FILENAME
<1> DEFINE part == SubSeq(s, q + 1, q + Fitting(n))
<1>1. Len(temp) \in Nat /\ Len(s) \in Nat
  BY LenProperties DEF Named
<1>2. /\ Fitting(n) \in 0 .. n
      /\ Len(temp) + Fitting(n) < MAX_FILENAME
  BY <1>1, Limit DEF Fitting
<1>3. \A i \in q + 1 .. q + Fitting(n) : s[i] \in Kept
  <2> SUFFICES ASSUME NEW i \in q + 1 .. q + Fitting(n)
               PROVE  s[i] \in Kept
    OBVIOUS
  <2>1. i \in 1 .. Len(s) /\ i \in q + 1 .. q + n
    BY <1>1, <1>2
  <2>2. s[i] \in Char /\ ~ Invalid(s[i])
    BY <2>1, ElementOfSeq
  <2> QED
    BY <2>2 DEF Char, Invalid, Kept
<1>4. part \in Seq(Kept) /\ Len(part) = Fitting(n)
  <2>1. q + 1 \in Nat /\ q + Fitting(n) \in Nat /\ q + 1 <= q + Fitting(n) + 1
    BY <1>1, <1>2
  <2> DEFINE lo == q + 1
             hi == q + Fitting(n)
  <2>2. lo \in Nat /\ hi \in Nat /\ lo <= hi + 1 /\ \A i \in lo .. hi : s[i] \in Kept
    BY <1>3, <2>1
  <2>3. part = SubSeq(s, lo, hi) /\ hi - lo + 1 = Fitting(n)
    BY <1>1, <1>2
  <2> HIDE DEF lo, hi, part
  <2>4. SubSeq(s, lo, hi) \in Seq(Kept) /\ Len(SubSeq(s, lo, hi)) = hi - lo + 1
    BY <2>2, KeptPart
  <2> QED
    BY <2>3, <2>4
<1> HIDE DEF part
<1>5. temp \o part \in Seq(Kept) /\ Len(temp \o part) = Len(temp) + Len(part)
  BY <1>4, ConcatProperties DEF Named
<1>6. Named(temp \o part) /\ Len(temp \o part) < MAX_FILENAME
  BY <1>1, <1>2, <1>4, <1>5, Limit DEF Named
<1> QED
  BY <1>6 DEF part

LEMMA CopyStep ==
    ASSUME IInv, Copy
    PROVE  IInv'
<1> DEFINE invalid == {i \in p + 1 .. Len(raw) : Invalid(raw[i])}
<1>1. Len(raw) \in Nat /\ p \in Nat /\ p < Len(raw) /\ Len(temp) < MAX_FILENAME
  <2>1. raw \in Seq(Char) /\ p \in 0 .. Len(raw)
    BY DEF IInv
  <2>2. p < Len(raw) /\ Len(temp) < MAX_FILENAME
    BY DEF Copy
  <2> QED
    BY <2>1, <2>2, LenProperties
<1>2. ASSUME NEW first \in invalid, \A i \in invalid : first <= i,
             temp' = LET copied == temp \o SubSeq(raw, p + 1, p + Fitting(first - p - 1))
                     IN  IF Len(copied) < MAX_FILENAME THEN Append(copied, "_") ELSE copied,
             p' = first, UNCHANGED <<step, raw, dest>>
      PROVE  IInv'
  <2> DEFINE n == first - p - 1
             copied == temp \o SubSeq(raw, p + 1, p + Fitting(n))
  <2>1. n \in Nat /\ p + n <= Len(raw) /\ p + n = first - 1 /\ first \in 0 .. Len(raw)
    BY <1>1
  <2>2. \A i \in p + 1 .. p + n : ~ Invalid(raw[i])
    <3>1. ASSUME NEW i \in p + 1 .. p + n, Invalid(raw[i])
          PROVE  FALSE
      <4>1. i \in p + 1 .. Len(raw) /\ i \in Nat /\ i < first /\ first \in Nat
        BY <1>1, <2>1
      <4>2. first <= i
        BY <1>2, <3>1, <4>1
      <4> HIDE DEF n
      <4> QED
        BY <4>1, <4>2
    <3> QED
      BY <3>1
  <2>3. Named(copied) /\ Len(copied) < MAX_FILENAME
    <3> HIDE DEF n
    <3> QED
      BY <2>1, <2>2, <1>1, CopyRoom DEF IInv
  <2>4. temp' = Append(copied, "_")
    BY <1>2, <2>3
  <2> HIDE DEF copied
  <2>5. /\ temp' \in Seq(Kept) /\ Len(temp') = Len(copied) + 1
        /\ Len(copied) \in Nat
    BY <2>3, <2>4, Underscore, LenProperties DEF Named
  <2>6. Named(temp')
    BY <2>3, <2>5, Limit DEF Named
  <2> QED
    BY <1>2, <2>1, <2>6 DEF IInv, Copy
<1>3. ASSUME invalid = {},
             temp' = temp \o SubSeq(raw, p + 1, p + Fitting(Len(raw) - p)),
             p' = Len(raw), step' = "dots", UNCHANGED <<raw, dest>>
      PROVE  IInv'
  <2>1. Len(raw) - p \in Nat /\ p + (Len(raw) - p) = Len(raw)
    BY <1>1
  <2>2. \A i \in p + 1 .. Len(raw) : ~ Invalid(raw[i])
    BY <1>3
  <2>3. Named(temp')
    <3> DEFINE n == Len(raw) - p
    <3>1. n \in Nat /\ p + n = Len(raw) /\ p + n <= Len(raw)
      BY <1>1, <2>1
    <3>2. \A i \in p + 1 .. p + n : ~ Invalid(raw[i])
      BY <2>2, <3>1
    <3>3. temp' = temp \o SubSeq(raw, p + 1, p + Fitting(n))
      BY <1>3
    <3> HIDE DEF n
    <3>4. Named(temp \o SubSeq(raw, p + 1, p + Fitting(n)))
      BY <1>1, <3>1, <3>2, CopyRoom DEF IInv
    <3> QED
      BY <3>3, <3>4
  <2> QED
    BY <1>1, <1>3, <2>3 DEF IInv
<1> QED
  BY <1>2, <1>3 DEF Copy

\* Two dots give way to an underscore: the name gets shorter.
LEMMA CollapsedNamed ==
    ASSUME NEW s, Named(s), NEW i \in DotDots(s)
    PROVE  LET collapsed == Append(SubSeq(s, 1, i - 1), "_") \o Rest(s, i + 1)
           IN  Named(collapsed) /\ Len(collapsed) = Len(s) - 1
<1> DEFINE before == SubSeq(s, 1, i - 1)
           after == SubSeq(s, i + 2, Len(s))
<1>1. s \in Seq(Kept) /\ Len(s) \in Nat /\ DOMAIN s = 1 .. Len(s)
  BY LenProperties DEF Named
<1>2. i \in 1 .. Len(s) /\ i < Len(s)
  BY <1>1 DEF DotDots, IsDotDot
<1> HIDE DEF before, after
<1>3. before \in Seq(Kept) /\ Len(before) = i - 1
  <2>1. i - 1 \in Nat /\ \A k \in 1 .. i - 1 : s[k] \in Kept
    BY <1>1, <1>2, ElementOfSeq
  <2>2. before \in Seq(Kept) /\ Len(before) = i - 1 - 1 + 1
    BY <1>2, <2>1, KeptPart DEF before
  <2> QED
    BY <1>2, <2>2
<1>4. after \in Seq(Kept) /\ Len(after) = Len(s) - i - 1
  <2>1. i + 2 \in Nat /\ i + 2 <= Len(s) + 1 /\ \A k \in i + 2 .. Len(s) : s[k] \in Kept
    BY <1>1, <1>2, ElementOfSeq
  <2>2. after \in Seq(Kept) /\ Len(after) = Len(s) - (i + 2) + 1
    BY <1>1, <2>1, KeptPart DEF after
  <2> QED
    BY <1>1, <1>2, <2>2
<1> DEFINE collapsed == Append(before, "_")
<1>5. collapsed \in Seq(Kept) /\ Len(collapsed) = i
  <2>1. collapsed \in Seq(Kept) /\ Len(collapsed) = Len(before) + 1
    BY <1>3, Underscore
  <2> HIDE DEF collapsed
  <2> QED
    BY <1>2, <1>3, <2>1
<1> HIDE DEF collapsed
<1>6. collapsed \o after \in Seq(Kept) /\ Len(collapsed \o after) = Len(s) - 1
  <2>1. /\ collapsed \o after \in Seq(Kept)
        /\ Len(collapsed \o after) = Len(collapsed) + Len(after)
    BY <1>4, <1>5, ConcatProperties
  <2> QED
    BY <1>1, <1>2, <1>4, <1>5, <2>1
<1>7. Named(collapsed \o after)
  BY <1>1, <1>6, Limit DEF Named
<1>8. Rest(s, i + 1) = after
  <2>1. i + 1 + 1 = i + 2
    BY <1>2
  <2> QED
    BY <2>1 DEF Rest, after
<1> QED
  BY <1>6, <1>7, <1>8 DEF collapsed, before

\* Without its leading dot a name without pairs of dots begins with something else.
LEMMA StrippedSaved ==
    ASSUME NEW s, Whole(s), s # <<>>, s[1] = ".", Tail(s) # <<>>
    PROVE  Saved(Tail(s))
<1>1. s \in Seq(Kept) /\ Len(s) \in Nat /\ DOMAIN s = 1 .. Len(s) /\ Len(s) <= MAX_FILENAME
  BY LenProperties DEF Whole, Named
<1>2. /\ Tail(s) \in Seq(Kept) /\ Len(Tail(s)) = Len(s) - 1
      /\ \A i \in 1 .. Len(Tail(s)) : Tail(s)[i] = s[i + 1]
  BY <1>1, HeadTailProperties
<1>3. Len(Tail(s)) \in Nat \ {0} /\ DOMAIN Tail(s) = 1 .. Len(Tail(s))
  BY <1>2, EmptySeq, LenProperties
<1>4. \A i \in 1 .. Len(s) : i < Len(s) => ~ (s[i] = "." /\ s[i + 1] = ".")
  BY <1>1 DEF Whole, DotDots, IsDotDot
<1>5. Tail(s)[1] # "."
  BY <1>1, <1>2, <1>3, <1>4
<1>6. \A i \in 1 .. Len(Tail(s)) : ~ IsDotDot(Tail(s), i)
  BY <1>1, <1>2, <1>3, <1>4 DEF IsDotDot
<1> QED
  BY <1>1, <1>2, <1>3, <1>5, <1>6, Limit DEF Saved, Whole, Named, DotDots

LEMMA Inductive == IInv /\ [FilenamesNext]_filenameVars => IInv'
<1> SUFFICES ASSUME IInv, [FilenamesNext]_filenameVars
             PROVE  IInv'
  OBVIOUS
<1>1. CASE CallSanitize
  <2>1. raw' \in Seq(Char)
    BY <1>1, FilenamesAssumption DEF CallSanitize
  <2>2. p \in 0 .. Len(raw')
    BY <1>1, <2>1, LenProperties DEF CallSanitize, IInv
  <2> QED
    BY <1>1, <2>1, <2>2 DEF CallSanitize, IInv
<1>2. CASE GiveUp
  BY <1>2, UnnamedSaved DEF GiveUp, IInv
<1>3. CASE Copy
  BY <1>3, CopyStep
<1>4. CASE EndCopy
  BY <1>4 DEF EndCopy, IInv
<1>5. CASE Collapse
  <2>1. CASE DotDots(temp) = {} /\ step' = "strip" /\ UNCHANGED temp
    BY <1>5, <2>1 DEF Collapse, IInv, Whole
  <2>2. ASSUME NEW i \in DotDots(temp), UNCHANGED step,
               temp' = Append(SubSeq(temp, 1, i - 1), "_") \o Rest(temp, i + 1)
        PROVE  IInv'
    <3>1. Named(temp')
      BY <2>2, CollapsedNamed DEF IInv
    <3> QED
      BY <1>5, <2>2, <3>1 DEF Collapse, IInv
  <2> QED
    BY <1>5, <2>1, <2>2 DEF Collapse
<1>6. CASE Strip
  <2>1. Whole(temp)
    BY <1>6 DEF Strip, IInv
  <2>2. Saved(dest')
    <3>1. CASE temp = <<>>
      BY <1>6, <3>1, UnnamedSaved DEF Strip
    <3>2. CASE temp # <<>> /\ temp[1] # "."
      BY <1>6, <2>1, <3>2 DEF Strip, Saved
    <3>3. CASE temp # <<>> /\ temp[1] = "." /\ Tail(temp) = <<>>
      BY <1>6, <3>3, UnnamedSaved DEF Strip
    <3>4. CASE temp # <<>> /\ temp[1] = "." /\ Tail(temp) # <<>>
      BY <1>6, <2>1, <3>4, StrippedSaved DEF Strip
    <3> QED
      BY <3>1, <3>2, <3>3, <3>4
  <2> QED
    BY <1>6, <2>2 DEF Strip, IInv
<1>7. CASE ReturnName
  BY <1>7, EmptyNamed, EmptySeq DEF ReturnName, IInv
<1>8. CASE UNCHANGED filenameVars
  BY <1>8 DEF filenameVars, IInv
<1> QED
  BY <1>1, <1>2, <1>3, <1>4, <1>5, <1>6, <1>7, <1>8 DEF FilenamesNext

\* Whatever name a client sends, of any length and against any limit, is saved under one that
\* stays inside SAVE_DIR and inside its buffers.
THEOREM SavedNamesSafe == FilenamesSpec => []SavedNameSafe
<1>1. FilenamesInit => IInv
  BY EmptyNamed, EmptySeq DEF FilenamesInit, IInv
<1>2. IInv => SavedNameSafe
  <2> SUFFICES ASSUME IInv
               PROVE  SavedNameSafe
    OBVIOUS
  <2>1. p <= Len(raw) /\ Len(temp) <= MAX_FILENAME
    BY LenProperties DEF IInv, Named
  <2>2. ASSUME step = "done"
        PROVE  /\ Len(dest) \in 1 .. MAX_FILENAME
               /\ \A i \in DOMAIN dest : ~ Invalid(dest[i])
               /\ DotDots(dest) = {}
               /\ dest[1] # "."
    <3>1. Saved(dest) /\ dest \in Seq(Kept)
      BY <2>2 DEF IInv, Saved, Whole, Named
    <3>2. Len(dest) \in Nat \ {0} /\ DOMAIN dest = 1 .. Len(dest)
      BY <3>1, EmptySeq, LenProperties DEF Saved
    <3>3. \A i \in DOMAIN dest : dest[i] \in Kept
      BY <3>1, <3>2, ElementOfSeq
    <3>4. \A i \in DOMAIN dest : ~ Invalid(dest[i])
      BY <3>3 DEF Kept, Invalid
    <3>5. Len(dest) <= MAX_FILENAME /\ DotDots(dest) = {} /\ dest[1] # "."
      BY <3>1 DEF Saved, Whole, Named
    <3> QED
      BY <3>2, <3>4, <3>5, Limit
  <2> QED
    BY <2>1, <2>2 DEF SavedNameSafe
<1> QED
  BY <1>1, <1>2, Inductive, PTL DEF FilenamesSpec

--------------------------------------------------------------------------------
(***************************************************************************)
(* The loops end.                                                          *)
(***************************************************************************)
\* How many rounds and steps are left of a call: a round of the first loop reads at least a
\* character of src, one of the second makes the name a character shorter.
Left ==
    CASE step = "copy"  -> Len(raw) - p + MAX_FILENAME + 3
      [] step = "dots"  -> Len(temp) + 2
      [] step = "strip" -> 1
      [] OTHER          -> 0

\* sanitize_filename returns after at most Len(src) + MAX_FILENAME + 3 rounds: each of them
\* brings the end nearer (the while loop and the strstr loop of FileService.c:79-111).
RoundsEnd == [][step \notin {"idle", "done"} => Left' \in Nat /\ Left' < Left]_filenameVars

\* Left by where the call is.
LEMMA LeftAt ==
    /\ step = "copy" => Left = Len(raw) - p + MAX_FILENAME + 3
    /\ step = "dots" => Left = Len(temp) + 2
    /\ step = "strip" => Left = 1
    /\ step \in {"idle", "done"} => Left = 0
BY DEF Left

LEMMA RoundShrinks ==
    ASSUME IInv, IInv', FilenamesNext, step \notin {"idle", "done"}
    PROVE  Left' \in Nat /\ Left' < Left
<1>1. /\ Len(raw) \in Nat /\ p \in 0 .. Len(raw) /\ Len(temp) \in 0 .. MAX_FILENAME
      /\ Len(raw') \in Nat /\ p' \in 0 .. Len(raw') /\ Len(temp') \in 0 .. MAX_FILENAME
  BY Limit, LenProperties DEF IInv, Named
<1>2. /\ step' = "copy" => Left' = Len(raw') - p' + MAX_FILENAME + 3
      /\ step' = "dots" => Left' = Len(temp') + 2
      /\ step' = "strip" => Left' = 1
      /\ step' \in {"idle", "done"} => Left' = 0
  BY DEF Left
<1>3. CASE GiveUp
  BY <1>1, <1>2, <1>3, LeftAt, Limit DEF GiveUp
<1>4. CASE Copy
  <2>1. raw' = raw /\ step = "copy" /\ p < Len(raw)
    BY <1>4 DEF Copy
  <2>2. (step' = "copy" /\ p < p') \/ step' = "dots"
    <3>1. \A first \in p + 1 .. Len(raw) : p < first
      BY <1>1
    <3> QED
      BY <1>4, <2>1, <3>1 DEF Copy
  <2> QED
    BY <1>1, <1>2, <2>1, <2>2, LeftAt, Limit
<1>5. CASE EndCopy
  BY <1>1, <1>2, <1>5, LeftAt, Limit DEF EndCopy
<1>6. CASE Collapse
  <2>1. CASE step' = "strip"
    BY <1>1, <1>2, <1>6, <2>1, LeftAt DEF Collapse
  <2>2. ASSUME NEW i \in DotDots(temp), step' = step,
               temp' = Append(SubSeq(temp, 1, i - 1), "_") \o Rest(temp, i + 1)
        PROVE  Left' \in Nat /\ Left' < Left
    <3>1. Len(temp') = Len(temp) - 1
      BY <2>2, CollapsedNamed DEF IInv
    <3>2. step = "dots" /\ step' = "dots"
      BY <1>6, <2>2 DEF Collapse
    <3>3. Left = Len(temp) + 2 /\ Left' = Len(temp') + 2
      BY <1>2, <3>2, LeftAt
    <3> QED
      BY <1>1, <3>1, <3>3
  <2> QED
    BY <1>6, <2>1, <2>2 DEF Collapse
<1>7. CASE Strip
  BY <1>2, <1>7, LeftAt DEF Strip
<1> QED
  BY <1>3, <1>4, <1>5, <1>6, <1>7 DEF FilenamesNext, CallSanitize, ReturnName

\* No name, whatever its length and its dots, keeps sanitize_filename from returning.
THEOREM SanitizeEnds == FilenamesSpec => RoundsEnd
<1>1. FilenamesInit => IInv
  BY EmptyNamed, EmptySeq DEF FilenamesInit, IInv
<1>2. IInv /\ IInv' /\ [FilenamesNext]_filenameVars =>
        [step \notin {"idle", "done"} => Left' \in Nat /\ Left' < Left]_filenameVars
  BY RoundShrinks
<1> QED
  BY <1>1, <1>2, Inductive, PTL DEF FilenamesSpec, RoundsEnd

--------------------------------------------------------------------------------
(***************************************************************************)
(* The client's function.  Its second replacement is a recursion over the  *)
(* characters, so the induction comes first: the natural numbers are well  *)
(* founded, a set of them has a least element.                             *)
(***************************************************************************)
LEMMA LeastNatural ==
    ASSUME NEW S \in SUBSET Nat, S # {}
    PROVE  \E m \in S : \A k \in S : m <= k
<1> DEFINE R == OpToRel(<, Nat)
<1>1. IsWellFoundedOn(R, Nat)
  BY NatLessThanWellFounded
<1>2. \A x, y \in Nat : x < y => <<x, y>> \in R
  BY DEF OpToRel
<1> HIDE DEF R
<1>3. PICK m \in S : \A k \in S : ~ (<<k, m>> \in R)
  BY <1>1, WFMin
<1>4. \A k \in S : k \in Nat /\ m \in Nat /\ ~ (k < m)
  BY <1>2, <1>3
<1>5. \A k \in S : m <= k
  BY <1>4
<1> QED
  BY <1>5

\* A set that has 0, and with n its successor up to last, has every number up to last.
LEMMA CountingUp ==
    ASSUME NEW S, NEW last \in Nat, 0 \in S,
           \A n \in 0 .. last - 1 : n \in S => n + 1 \in S
    PROVE  \A n \in 0 .. last : n \in S
<1> DEFINE Missing == {n \in Nat : n <= last /\ n \notin S}
<1> SUFFICES ASSUME Missing # {} PROVE FALSE
  OBVIOUS
<1>1. PICK m \in Missing : \A k \in Missing : m <= k
  BY LeastNatural
<1>2. m # 0 /\ m - 1 \in 0 .. last - 1 /\ ~ (m <= m - 1) /\ (m - 1) + 1 = m
  BY <1>1
<1>3. m - 1 \in S
  BY <1>1, <1>2
<1> QED
  BY <1>1, <1>2, <1>3

\* The recursion has a solution, and so computes what its equations say.
Solves(f, clean, n) ==
    f = [i \in 0 .. n |-> IF i = 0 THEN <<>> ELSE DotsReplaced(f[i - 1], clean, i)]

LEMMA SolutionExists ==
    ASSUME NEW clean, NEW last \in Nat
    PROVE  \E f : Solves(f, clean, last)
<1> DEFINE S == {n \in Nat : \E f : Solves(f, clean, n)}
<1>1. 0 \in S
  <2>1. Solves([i \in 0 .. 0 |-> <<>>], clean, 0)
    BY DEF Solves
  <2> QED
    BY <2>1
<1>2. ASSUME NEW n \in 0 .. last - 1, n \in S
      PROVE  n + 1 \in S
  <2>1. PICK f : Solves(f, clean, n)
    BY <1>2
  <2> DEFINE g == [i \in 0 .. n + 1 |->
                     IF i <= n THEN f[i] ELSE DotsReplaced(f[n], clean, n + 1)]
  <2>2. n \in Nat /\ n + 1 \in Nat
    OBVIOUS
  <2>3. \A i \in 0 .. n : f[i] = IF i = 0 THEN <<>> ELSE DotsReplaced(f[i - 1], clean, i)
    BY <2>1 DEF Solves
  <2>4. ASSUME NEW i \in 0 .. n + 1
        PROVE  g[i] = IF i = 0 THEN <<>> ELSE DotsReplaced(g[i - 1], clean, i)
    <3>1. CASE i = n + 1
      <4>1. i # 0 /\ i - 1 = n /\ n \in 0 .. n + 1 /\ ~ (i <= n)
        BY <2>2, <3>1
      <4>2. g[i] = DotsReplaced(f[n], clean, n + 1) /\ g[i - 1] = f[n]
        BY <2>2, <4>1
      <4> HIDE DEF g
      <4> QED
        BY <3>1, <4>1, <4>2
    <3>2. CASE i # n + 1
      <4>1. i \in 0 .. n /\ i <= n
        BY <2>2, <3>2
      <4>2. g[i] = f[i]
        BY <4>1
      <4>3. i # 0 => g[i - 1] = f[i - 1]
        <5>1. i # 0 => i - 1 \in 0 .. n + 1 /\ i - 1 <= n
          BY <2>2, <4>1
        <5> QED
          BY <5>1
      <4> HIDE DEF g
      <4> QED
        BY <2>3, <4>1, <4>2, <4>3
    <3> QED
      BY <3>1, <3>2
  <2>5. g = [i \in 0 .. n + 1 |-> g[i]]
    OBVIOUS
  <2> HIDE DEF g
  <2>6. Solves(g, clean, n + 1)
    BY <2>4, <2>5 DEF Solves
  <2> QED
    BY <2>2, <2>6
<1> HIDE DEF S
<1>3. last \in S
  BY <1>1, <1>2, CountingUp
<1> QED
  BY <1>3 DEF S

LEMMA ClientCleanSolves ==
    ASSUME NEW name, NEW clean, clean = Underscored(name), Len(clean) \in Nat
    PROVE  \E f : /\ ClientClean(name) = f[Len(clean)]
                 /\ f[0] = <<>>
                 /\ \A i \in 1 .. Len(clean) : f[i] = DotsReplaced(f[i - 1], clean, i)
<1> DEFINE f == CHOOSE g : Solves(g, clean, Len(clean))
<1>1. Solves(f, clean, Len(clean))
  BY SolutionExists
<1>2. ClientClean(name) = f[Len(clean)]
  BY DEF ClientClean, Solves
<1> HIDE DEF f
<1>3. \A i \in 0 .. Len(clean) :
        f[i] = IF i = 0 THEN <<>> ELSE DotsReplaced(f[i - 1], clean, i)
  BY <1>1 DEF Solves
<1> QED
  BY <1>2, <1>3

\* A name without invalid characters and pairs of dots, and one that begins with no dot.
Clean(s) == s \in Seq(Kept) /\ DotDots(s) = {}
Given(s) == Clean(s) /\ (s # <<>> => s[1] # ".")

LEMMA UnderscoredName ==
    ASSUME NEW name \in Seq(Char)
    PROVE  Underscored(name) \in Seq(Kept) /\ Len(Underscored(name)) = Len(name)
<1>1. Len(name) \in Nat /\ DOMAIN name = 1 .. Len(name) /\ \A i \in 1 .. Len(name) : name[i] \in Char
  BY LenProperties, ElementOfSeq
<1>2. \A i \in 1 .. Len(name) : (IF Invalid(name[i]) THEN "_" ELSE name[i]) \in Kept
  BY <1>1 DEF Char, Invalid, Kept
<1>3. Underscored(name) \in [1 .. Len(name) -> Kept]
  BY <1>1, <1>2 DEF Underscored
<1> QED
  BY <1>1, <1>3

\* A character may follow: it makes no pair of dots with the last one.
LEMMA AppendedClean ==
    ASSUME NEW s, Clean(s), NEW c \in Kept, c = "." => s = <<>> \/ s[Len(s)] # "."
    PROVE  Clean(Append(s, c))
<1> DEFINE t == Append(s, c)
<1>1. Len(s) \in Nat /\ DOMAIN s = 1 .. Len(s) /\ s \in Seq(Kept)
  BY LenProperties DEF Clean
<1>2. /\ t \in Seq(Kept) /\ Len(t) = Len(s) + 1 /\ t[Len(s) + 1] = c
      /\ \A i \in 1 .. Len(s) : t[i] = s[i]
  BY <1>1, AppendProperties
<1>3. DOMAIN t = 1 .. Len(s) + 1
  BY <1>2, LenProperties
<1> HIDE DEF t
<1>4. ASSUME NEW i \in DOMAIN t, IsDotDot(t, i)
      PROVE  FALSE
  <2>1. i \in 1 .. Len(s) /\ t[i] = "." /\ t[i + 1] = "." /\ s[i] = "."
    BY <1>1, <1>2, <1>3, <1>4 DEF IsDotDot
  <2>2. CASE i < Len(s)
    <3>1. i + 1 \in 1 .. Len(s)
      BY <1>1, <2>1, <2>2
    <3>2. s[i + 1] = "."
      BY <1>2, <2>1, <3>1
    <3> QED
      BY <1>1, <2>1, <2>2, <3>2 DEF Clean, DotDots, IsDotDot
  <2>3. CASE i = Len(s)
    <3>1. c = "." /\ s[Len(s)] = "."
      BY <1>2, <2>1, <2>3
    <3>2. s # <<>>
      BY <1>1, <2>1, EmptySeq
    <3> QED
      BY <3>1, <3>2
  <2> QED
    BY <1>1, <2>1, <2>2, <2>3
<1> QED
  BY <1>2, <1>4 DEF Clean, DotDots, t

LEMMA CharacterFollows ==
    ASSUME NEW s, NEW clean, NEW i, ~ (i > 1 /\ IsDotDot(clean, i - 1))
    PROVE  /\ IsDotDot(clean, i) => DotsReplaced(s, clean, i) = Append(s, "_")
           /\ ~ IsDotDot(clean, i) => DotsReplaced(s, clean, i) = Append(s, clean[i])
<1>1. ASSUME IsDotDot(clean, i)
      PROVE  DotsReplaced(s, clean, i) = Append(s, "_")
  BY <1>1 DEF DotsReplaced
<1>2. ASSUME ~ IsDotDot(clean, i)
      PROVE  DotsReplaced(s, clean, i) = Append(s, clean[i])
  BY <1>2 DEF DotsReplaced
<1> QED
  BY <1>1, <1>2

\* The client's replacements leave no invalid character and no pair of dots.
LEMMA ClientCleanClean ==
    ASSUME NEW name \in Seq(Char)
    PROVE  Clean(ClientClean(name))
<1> DEFINE clean == Underscored(name)
<1>1. clean \in Seq(Kept) /\ Len(clean) \in Nat /\ \A i \in 1 .. Len(clean) : clean[i] \in Kept
  BY UnderscoredName, LenProperties, ElementOfSeq
<1> HIDE DEF clean
<1>2. PICK f : /\ ClientClean(name) = f[Len(clean)]
               /\ f[0] = <<>>
               /\ \A i \in 1 .. Len(clean) : f[i] = DotsReplaced(f[i - 1], clean, i)
  BY <1>1, ClientCleanSolves DEF clean
<1> DEFINE EndsAt(n) == f[n] # <<>> /\ f[n][Len(f[n])] = "." =>
                            n # 0 /\ clean[n] = "." /\ ~ IsDotDot(clean, n)
           S == {n \in Nat : Clean(f[n]) /\ EndsAt(n)}
<1>3. 0 \in S
  <2>1. Clean(<<>>)
    BY EmptySeq DEF Clean, DotDots
  <2> QED
    BY <1>2, <2>1
<1>4. ASSUME NEW n \in 0 .. Len(clean) - 1, n \in S
      PROVE  n + 1 \in S
  <2>1. PICK k : k = n + 1
    OBVIOUS
  <2>2. n \in Nat /\ k \in 1 .. Len(clean) /\ k \in Nat /\ n = k - 1
    BY <1>1, <2>1
  <2>3. f[k] = DotsReplaced(f[n], clean, k) /\ clean[k] \in Kept
    BY <1>1, <1>2, <2>2
  <2>4. Clean(f[n]) /\ EndsAt(n)
    BY <1>4
  <2>5. CASE k > 1 /\ IsDotDot(clean, k - 1)
    <3>1. f[k] = f[n]
      BY <2>3, <2>5 DEF DotsReplaced
    <3>2. EndsAt(k)
      BY <2>2, <2>4, <2>5, <3>1
    <3> QED
      BY <2>1, <2>2, <2>4, <3>1, <3>2
  <2>6. CASE ~ (k > 1 /\ IsDotDot(clean, k - 1))
    <3>1. PICK c : c = IF IsDotDot(clean, k) THEN "_" ELSE clean[k]
      OBVIOUS
    <3>2. f[k] = Append(f[n], c)
      BY <2>3, <2>6, <3>1, CharacterFollows
    <3>3. c \in Kept
      BY <2>3, <3>1 DEF Kept
    <3>4. c = "." => clean[k] = "." /\ ~ IsDotDot(clean, k)
      BY <3>1
    <3>5. ASSUME c = ".", f[n] # <<>>, f[n][Len(f[n])] = "."
          PROVE  FALSE
      <4>1. n # 0 /\ clean[n] = "." /\ ~ IsDotDot(clean, n)
        BY <2>4, <3>5
      <4>2. n < Len(clean) /\ clean[n + 1] = "."
        BY <1>1, <2>1, <2>2, <3>4, <3>5
      <4> QED
        BY <4>1, <4>2 DEF IsDotDot
    <3>6. Clean(f[k])
      BY <2>4, <3>2, <3>3, <3>5, AppendedClean
    <3>7. f[k][Len(f[k])] = c
      BY <2>4, <3>2, <3>3, AppendProperties DEF Clean
    <3>8. EndsAt(k)
      BY <2>2, <3>4, <3>7
    <3> QED
      BY <2>1, <2>2, <3>6, <3>8
  <2> QED
    BY <2>5, <2>6
<1> HIDE DEF S
<1>5. \A n \in 0 .. Len(clean) : n \in S
  <2> DEFINE last == Len(clean)
  <2>1. last \in Nat /\ 0 \in S /\ \A n \in 0 .. last - 1 : n \in S => n + 1 \in S
    BY <1>1, <1>3, <1>4
  <2> HIDE DEF last
  <2>2. \A n \in 0 .. last : n \in S
    BY <2>1, CountingUp
  <2> QED
    BY <2>2 DEF last
<1>6. Len(clean) \in S
  BY <1>1, <1>5
<1> QED
  BY <1>2, <1>6 DEF S

LEMMA StrippedGiven ==
    ASSUME NEW s, Clean(s), s # <<>>, s[1] = "."
    PROVE  Given(Tail(s))
<1>1. s \in Seq(Kept) /\ Len(s) \in Nat /\ DOMAIN s = 1 .. Len(s)
  BY LenProperties DEF Clean
<1>2. /\ Tail(s) \in Seq(Kept) /\ Len(Tail(s)) = Len(s) - 1
      /\ \A i \in 1 .. Len(Tail(s)) : Tail(s)[i] = s[i + 1]
  BY <1>1, HeadTailProperties
<1>3. Len(Tail(s)) \in Nat /\ DOMAIN Tail(s) = 1 .. Len(Tail(s))
  BY <1>2, LenProperties
<1>4. \A i \in 1 .. Len(s) : i < Len(s) => ~ (s[i] = "." /\ s[i + 1] = ".")
  BY <1>1 DEF Clean, DotDots, IsDotDot
<1>5. ASSUME Tail(s) # <<>>
      PROVE  Tail(s)[1] # "."
  <2>1. 1 \in 1 .. Len(Tail(s)) /\ 1 \in 1 .. Len(s) /\ 1 < Len(s)
    BY <1>1, <1>2, <1>3, <1>5, EmptySeq
  <2> QED
    BY <1>2, <1>4, <2>1
<1>6. \A i \in 1 .. Len(Tail(s)) : ~ IsDotDot(Tail(s), i)
  BY <1>1, <1>2, <1>3, <1>4 DEF IsDotDot
<1> QED
  BY <1>2, <1>3, <1>5, <1>6 DEF Given, Clean, DotDots

\* What the client sends as a name.
LEMMA ClientSanitizedGiven ==
    ASSUME NEW name \in Seq(Char)
    PROVE  Given(ClientSanitized(name))
<1>1. Given(<<>>)
  BY EmptySeq DEF Given, Clean, DotDots
<1>2. Given(Unnamed)
  BY UnnamedSaved DEF Saved, Whole, Named, Given, Clean
<1> DEFINE clean == ClientClean(name)
<1>3. Clean(clean)
  BY ClientCleanClean
<1> HIDE DEF clean
<1>4. Given(IF clean # <<>> /\ clean[1] = "." THEN Tail(clean) ELSE clean)
  BY <1>3, StrippedGiven DEF Given
<1> QED
  BY <1>1, <1>2, <1>4 DEF ClientSanitized, clean

--------------------------------------------------------------------------------
(***************************************************************************)
(* Names that are kept: by the client when they are sanitised once more,   *)
(* and by the server.                                                      *)
(***************************************************************************)
LEMMA CleanFacts ==
    ASSUME NEW s, Clean(s)
    PROVE  /\ Len(s) \in Nat /\ DOMAIN s = 1 .. Len(s) /\ s \in Seq(Kept)
           /\ \A i \in 1 .. Len(s) : s[i] \in Kept /\ ~ Invalid(s[i]) /\ ~ IsDotDot(s, i)
<1>1. Len(s) \in Nat /\ DOMAIN s = 1 .. Len(s) /\ s \in Seq(Kept)
  BY LenProperties DEF Clean
<1>2. \A i \in 1 .. Len(s) : s[i] \in Kept
  BY <1>1, ElementOfSeq
<1>3. \A c \in Kept : ~ Invalid(c)
  BY DEF Kept, Invalid
<1> QED
  BY <1>1, <1>2, <1>3 DEF Clean, DotDots

\* The replacements find nothing to replace.
LEMMA CleanUnchanged ==
    ASSUME NEW s, Clean(s)
    PROVE  ClientClean(s) = s
<1>1. Len(s) \in Nat /\ DOMAIN s = 1 .. Len(s) /\ s \in Seq(Kept)
  BY CleanFacts
<1>2. \A i \in 1 .. Len(s) : ~ Invalid(s[i]) /\ ~ IsDotDot(s, i)
  BY CleanFacts
<1>3. Underscored(s) = s
  <2>1. s = [i \in 1 .. Len(s) |-> s[i]]
    BY <1>1, LenProperties
  <2> QED
    BY <1>1, <1>2, <2>1 DEF Underscored
<1>4. PICK f : /\ ClientClean(s) = f[Len(s)]
               /\ f[0] = <<>>
               /\ \A i \in 1 .. Len(s) : f[i] = DotsReplaced(f[i - 1], s, i)
  BY <1>1, <1>3, ClientCleanSolves
<1> DEFINE S == {n \in Nat : f[n] = SubSeq(s, 1, n)}
<1>5. 0 \in S
  <2>1. 1 \in Int /\ 0 \in Int /\ 0 < 1 /\ 0 \in Nat
    OBVIOUS
  <2>2. SubSeq(s, 1, 0) = <<>>
    BY <2>1, SubSeqEmpty
  <2> QED
    BY <1>4, <2>1, <2>2
<1>6. ASSUME NEW n \in 0 .. Len(s) - 1, n \in S
      PROVE  n + 1 \in S
  <2>1. PICK k : k = n + 1
    OBVIOUS
  <2>2. k \in 1 .. Len(s) /\ k \in Nat /\ n = k - 1 /\ (k > 1 => k - 1 \in 1 .. Len(s))
    BY <1>1, <2>1
  <2>3. ~ (k > 1 /\ IsDotDot(s, k - 1)) /\ ~ IsDotDot(s, k)
    BY <1>2, <2>2
  <2>4. DotsReplaced(f[n], s, k) = Append(f[n], s[k])
    BY <2>3, CharacterFollows
  <2>5. f[k] = Append(f[n], s[k])
    BY <1>4, <2>2, <2>4
  <2>6. f[n] = SubSeq(s, 1, k - 1) /\ s[k] \in Kept
    BY <1>1, <1>6, <2>2, ElementOfSeq
  <2>7. SubSeq(s, 1, k - 1) \in Seq(Kept)
    <3>1. \A i \in 1 .. k - 1 : s[i] \in Kept
      BY <1>1, <2>2, ElementOfSeq
    <3>2. 1 \in Nat /\ k - 1 \in Nat /\ 1 <= k - 1 + 1
      BY <2>2
    <3> QED
      BY <3>1, <3>2, KeptPart
  <2>8. SubSeq(s, 1, k) = SubSeq(s, 1, k - 1) \o <<s[k]>>
    <3>1. 1 \in 1 .. Len(s) /\ k \in 1 .. Len(s)
      BY <1>1, <2>2
    <3> QED
      BY <1>1, <3>1, SubSeqRecursiveSecond
  <2>9. f[k] = SubSeq(s, 1, k)
    BY <2>5, <2>6, <2>7, <2>8, AppendIsConcat
  <2> QED
    BY <2>1, <2>2, <2>9
<1> HIDE DEF S
<1>7. \A n \in 0 .. Len(s) : n \in S
  <2> DEFINE last == Len(s)
  <2>1. last \in Nat /\ 0 \in S /\ \A n \in 0 .. last - 1 : n \in S => n + 1 \in S
    BY <1>1, <1>5, <1>6
  <2> HIDE DEF last
  <2>2. \A n \in 0 .. last : n \in S
    BY <2>1, CountingUp
  <2> QED
    BY <2>2 DEF last
<1>8. Len(s) \in S
  BY <1>1, <1>7
<1> QED
  BY <1>1, <1>4, <1>8, SubSeqFull DEF S

LEMMA GivenUnchanged ==
    ASSUME NEW s, Given(s)
    PROVE  ClientSanitized(s) = s
<1>1. ClientClean(s) = s
  BY CleanUnchanged DEF Given
<1> QED
  BY <1>1 DEF ClientSanitized, Given

\* A name that was sanitised when the form was read is not changed when the request is built
\* from it (SendDataViewModel, Connector.setFile): what ClientSend assumes of the function.
THEOREM ClientSanitizesOnce ==
    \A name \in Seq(Char) : ClientSanitized(ClientSanitized(name)) = ClientSanitized(name)
BY ClientSanitizedGiven, GivenUnchanged

\* What the server has room for.
Cut(s) == IF Len(s) < MAX_FILENAME THEN s ELSE SubSeq(s, 1, MAX_FILENAME - 1)

LEMMA CutFacts ==
    ASSUME NEW s, Given(s), s # <<>>
    PROVE  /\ Cut(s) # <<>> /\ Cut(s)[1] # "."
           /\ DotDots(Cut(s)) = {}
<1>1. /\ Len(s) \in Nat /\ DOMAIN s = 1 .. Len(s) /\ s \in Seq(Kept)
      /\ \A i \in 1 .. Len(s) : s[i] \in Kept /\ ~ IsDotDot(s, i)
  BY CleanFacts DEF Given
<1>2. CASE Len(s) < MAX_FILENAME
  BY <1>2 DEF Cut, Given, Clean
<1>3. CASE ~ (Len(s) < MAX_FILENAME)
  <2>1. PICK n : n = MAX_FILENAME - 1
    OBVIOUS
  <2>2. n \in Nat /\ n >= 2 /\ n < Len(s) /\ n - 1 + 1 = n
    BY <1>1, <1>3, <2>1, Limit
  <2> DEFINE t == SubSeq(s, 1, n)
  <2>3. /\ t \in Seq(Kept) /\ Len(t) = n
        /\ \A i \in 1 .. n : t[i] = s[i]
    <3>1. \A i \in 1 .. n : s[i] \in Kept
      BY <1>1, <2>2
    <3>2. /\ t \in Seq(Kept)
          /\ Len(t) = IF 1 <= n THEN n - 1 + 1 ELSE 0
          /\ \A i \in 1 .. n - 1 + 1 : t[i] = s[1 + i - 1]
      BY <2>2, <3>1, SubSeqProperties
    <3>3. \A i \in 1 .. n : 1 + i - 1 = i
      BY <2>2
    <3> HIDE DEF t
    <3> QED
      BY <2>2, <3>2, <3>3
  <2>4. Cut(s) = t
    BY <1>3, <2>1 DEF Cut
  <2> HIDE DEF t
  <2>5. DOMAIN t = 1 .. n /\ t # <<>>
    BY <2>2, <2>3, LenProperties, EmptySeq
  <2>6. t[1] # "."
    BY <1>1, <2>2, <2>3 DEF Given
  <2>7. \A i \in 1 .. n : ~ IsDotDot(t, i)
    BY <1>1, <2>2, <2>3 DEF IsDotDot
  <2> QED
    BY <2>4, <2>5, <2>6, <2>7 DEF DotDots
<1> QED
  BY <1>2, <1>3

\* How far a name that may be kept has come.
KeptSoFar ==
    /\ step = "idle" => p = 0 /\ temp = <<>>
    /\ Given(raw) =>
        /\ step = "copy" => p = 0 /\ temp = <<>>
        /\ step \in {"dots", "strip"} /\ p > 0 => temp = Cut(raw)
        /\ step = "done" /\ p > 0 => dest = Cut(raw)

\* Such a name is copied in one round.
LEMMA CopiedWhole ==
    ASSUME IInv, Copy, Given(raw), p = 0, temp = <<>>
    PROVE  step' = "dots" /\ temp' = Cut(raw)
<1>1. /\ Len(raw) \in Nat /\ DOMAIN raw = 1 .. Len(raw) /\ raw \in Seq(Kept)
      /\ \A i \in 1 .. Len(raw) : raw[i] \in Kept /\ ~ Invalid(raw[i])
  BY CleanFacts DEF Given
<1>2. {i \in p + 1 .. Len(raw) : Invalid(raw[i])} = {}
  BY <1>1
<1>3. /\ step' = "dots"
      /\ temp' = temp \o SubSeq(raw, p + 1, p + Fitting(Len(raw) - p))
  BY <1>2 DEF Copy
<1>4. PICK n : n = Fitting(Len(raw))
  OBVIOUS
<1>5. n = IF Len(raw) >= MAX_FILENAME THEN MAX_FILENAME - 1 ELSE Len(raw)
  <2>1. Len(raw) \in Nat /\ MAX_FILENAME \in Nat
    BY <1>1, Limit
  <2>2. Len(temp) = 0
    BY EmptySeq
  <2>3. Len(temp) + Len(raw) = Len(raw) /\ MAX_FILENAME - Len(temp) - 1 = MAX_FILENAME - 1
    BY <2>1, <2>2
  <2> QED
    BY <1>4, <2>3 DEF Fitting
<1>6. /\ n \in 0 .. Len(raw)
      /\ Len(raw) < MAX_FILENAME => n = Len(raw)
      /\ ~ (Len(raw) < MAX_FILENAME) => n = MAX_FILENAME - 1
  <2>1. Len(raw) \in Nat /\ MAX_FILENAME \in Nat /\ MAX_FILENAME >= 3
    BY <1>1, Limit
  <2>2. CASE Len(raw) >= MAX_FILENAME
    BY <1>5, <2>1, <2>2
  <2>3. CASE ~ (Len(raw) >= MAX_FILENAME)
    BY <1>5, <2>1, <2>3
  <2> QED
    BY <2>2, <2>3
<1>7. temp' = <<>> \o SubSeq(raw, 1, n)
  <2>1. Len(raw) \in Nat /\ n \in 0 .. Len(raw) /\ p = 0
    BY <1>1, <1>6
  <2>2. p + 1 = 1 /\ Len(raw) - p = Len(raw) /\ p + n = n
    BY <2>1
  <2>3. p + Fitting(Len(raw) - p) = n
    BY <1>4, <2>2
  <2> QED
    BY <1>3, <2>3, <2>2
<1>8. SubSeq(raw, 1, n) \in Seq(Kept)
  <2>1. Len(raw) \in Nat /\ n \in 0 .. Len(raw)
    BY <1>1, <1>6
  <2>2. 1 \in Nat /\ n \in Nat /\ 1 <= n + 1 /\ \A i \in 1 .. n : i \in 1 .. Len(raw)
    BY <2>1
  <2>3. \A i \in 1 .. n : raw[i] \in Kept
    BY <1>1, <2>2
  <2> QED
    BY <2>2, <2>3, KeptPart
<1>9. temp' = SubSeq(raw, 1, n)
  BY <1>7, <1>8, ConcatEmptySeq
<1>10. SubSeq(raw, 1, Len(raw)) = raw
  BY <1>1, SubSeqFull
<1>11. SubSeq(raw, 1, n) = Cut(raw)
  <2>1. CASE Len(raw) < MAX_FILENAME
    BY <1>6, <1>10, <2>1 DEF Cut
  <2>2. CASE ~ (Len(raw) < MAX_FILENAME)
    BY <1>6, <2>2 DEF Cut
  <2> QED
    BY <2>1, <2>2
<1> QED
  BY <1>3, <1>9, <1>11

LEMMA KeptStep == IInv /\ KeptSoFar /\ [FilenamesNext]_filenameVars => KeptSoFar'
<1> SUFFICES ASSUME IInv, KeptSoFar, [FilenamesNext]_filenameVars
             PROVE  KeptSoFar'
  OBVIOUS
<1>0. (step = "idle" => p = 0 /\ temp = <<>>)'
  BY DEF KeptSoFar, FilenamesNext, filenameVars, CallSanitize, GiveUp, Copy, EndCopy, Collapse,
         Strip, ReturnName, IInv
<1> SUFFICES ASSUME Given(raw)'
             PROVE  KeptSoFar'
  BY <1>0 DEF KeptSoFar
<1>1. CASE CallSanitize
  BY <1>1 DEF CallSanitize, IInv, KeptSoFar
<1>2. CASE GiveUp
  BY <1>2 DEF GiveUp, KeptSoFar
<1>3. CASE Copy
  <2>1. Given(raw) /\ raw' = raw
    BY <1>3 DEF Copy
  <2>2. p = 0 /\ temp = <<>>
    BY <1>3, <2>1 DEF Copy, KeptSoFar
  <2> QED
    BY <1>3, <2>1, <2>2, CopiedWhole DEF KeptSoFar, Cut
<1>4. CASE EndCopy
  BY <1>4 DEF EndCopy, KeptSoFar
<1>5. CASE Collapse
  <2>1. Given(raw) /\ raw' = raw /\ p' = p /\ dest' = dest /\ step = "dots"
    BY <1>5 DEF Collapse
  <2>2. CASE p > 0
    <3>1. temp = Cut(raw) /\ raw # <<>>
      BY <2>1, <2>2, EmptySeq DEF KeptSoFar, IInv
    <3>2. DotDots(temp) = {}
      BY <2>1, <3>1, CutFacts
    <3>3. temp' = temp /\ step' = "strip"
      BY <1>5, <3>2 DEF Collapse
    <3> QED
      BY <2>1, <3>1, <3>3 DEF KeptSoFar, Cut
  <2>3. CASE ~ (p > 0)
    <3>1. step' \in {"dots", "strip"}
      BY <1>5, <2>1 DEF Collapse
    <3> QED
      BY <2>1, <2>3, <3>1 DEF KeptSoFar
  <2> QED
    BY <2>2, <2>3
<1>6. CASE Strip
  <2>1. Given(raw) /\ raw' = raw /\ p' = p /\ step' = "done"
    BY <1>6 DEF Strip
  <2>2. ASSUME p > 0
        PROVE  dest' = Cut(raw)
    <3>1. temp = Cut(raw) /\ raw # <<>>
      BY <1>6, <2>1, <2>2, EmptySeq DEF Strip, KeptSoFar, IInv
    <3>2. temp # <<>> /\ temp[1] # "."
      BY <2>1, <3>1, CutFacts
    <3> QED
      BY <1>6, <3>1, <3>2 DEF Strip
  <2> QED
    BY <2>1, <2>2 DEF KeptSoFar, Cut
<1>7. CASE ReturnName
  BY <1>7 DEF ReturnName, KeptSoFar
<1>8. CASE UNCHANGED filenameVars
  BY <1>8 DEF filenameVars, KeptSoFar, Cut
<1> QED
  BY <1>1, <1>2, <1>3, <1>4, <1>5, <1>6, <1>7, <1>8 DEF FilenamesNext

\* A name the client has sanitised, of any length, is saved as it is, up to any limit.
THEOREM ClientNamesKept == FilenamesSpec => []ClientNameKept
<1>1. FilenamesInit => IInv
  BY EmptyNamed, EmptySeq DEF FilenamesInit, IInv
<1>2. FilenamesInit => KeptSoFar
  BY DEF FilenamesInit, KeptSoFar
<1>3. KeptSoFar => ClientNameKept
  <2>1. raw \in ClientNames => Given(raw)
    BY ClientSanitizedGiven, FilenamesAssumption DEF ClientNames
  <2> QED
    BY <2>1 DEF KeptSoFar, ClientNameKept, Cut
<1> QED
  BY <1>1, <1>2, <1>3, Inductive, KeptStep, PTL DEF FilenamesSpec
================================================================================
