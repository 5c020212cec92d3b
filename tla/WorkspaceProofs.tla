--------------------------- MODULE WorkspaceProofs ---------------------------
(***************************************************************************)
(* What apply_patch does to the lines of a file, proved of every file and  *)
(* every patch.                                                            *)
(***************************************************************************)
EXTENDS Workspace, Induction, SequenceTheorems, TLAPS

HunkRecords == [start : Nat, count : Nat, new : Seq(Lines)]
Parsers     == {p \in [left : Nat, hunks : Seq(HunkRecords)] : p.left # 0 => p.hunks # <<>>}

-----------------------------------------------------------------------------
(* The recursive definitions, unfolded *)

LEMMA TokenTypes ==
  ASSUME NEW token \in Tokens
  PROVE  /\ token.tag = "@" => token.start \in Nat /\ token.count \in Nat
         /\ token.tag # "@" => token.tag \in {"=", "-", "+", "\\"} /\ token.line \in Lines
BY DEF Tokens

LEMMA KeptTyped ==
  ASSUME NEW lines \in Seq(Lines), NEW token \in Tokens, token.tag # "@"
  PROVE  Kept(lines, token) \in Seq(Lines)
BY TokenTypes, AppendProperties DEF Kept

LEMMA ParseTokenTyped ==
  ASSUME NEW parsed \in Parsers, NEW token \in Tokens
  PROVE  ParseToken(parsed, token) \in Parsers
<1>1. parsed.left \in Nat /\ parsed.hunks \in Seq(HunkRecords)
  BY DEF Parsers
<1>2. CASE parsed.left = 0 /\ token.tag = "@"
  <2> DEFINE h == [start |-> token.start, count |-> token.count, new |-> <<>>]
  <2>1. h \in HunkRecords
    BY <1>2, TokenTypes, EmptySeq DEF HunkRecords
  <2> HIDE DEF h
  <2>2. Append(parsed.hunks, h) \in Seq(HunkRecords) /\ Append(parsed.hunks, h) # <<>>
    BY <1>1, <2>1, AppendProperties
  <2>3. ParseToken(parsed, token) = [left |-> token.count, hunks |-> Append(parsed.hunks, h)]
    BY <1>2 DEF ParseToken, h
  <2>4. token.count \in Nat
    BY <1>2, TokenTypes
  <2>5. QED
    BY <2>2, <2>3, <2>4 DEF Parsers
<1>3. CASE parsed.left # 0 /\ token.tag \in {"=", "-", "+"}
  <2> DEFINE n == Len(parsed.hunks)
             h == [parsed.hunks[n] EXCEPT !.new = Kept(@, token)]
             left == IF token.tag = "+" THEN parsed.left ELSE parsed.left - 1
  <2>1. parsed.hunks # <<>>
    BY <1>3 DEF Parsers
  <2>2. n \in 1..Len(parsed.hunks)
    BY <2>1, <1>1, EmptySeq
  <2>3. parsed.hunks[n] \in HunkRecords
    BY <1>1, <2>2, ElementOfSeq
  <2>4. h \in HunkRecords
    BY <2>3, <1>3, KeptTyped DEF HunkRecords
  <2> HIDE DEF h
  <2>5. /\ [parsed.hunks EXCEPT ![n] = h] \in Seq(HunkRecords)
        /\ [parsed.hunks EXCEPT ![n] = h] # <<>>
    BY <1>1, <2>2, <2>4, ExceptSeq, EmptySeq
  <2>6. ParseToken(parsed, token) = [left |-> left, hunks |-> [parsed.hunks EXCEPT ![n] = h]]
    BY <1>3 DEF ParseToken, h
  <2>7. left \in Nat
    <3>1. parsed.left # 0 /\ parsed.left \in Nat
      BY <1>1, <1>3
    <3>2. QED
      BY <3>1
  <2>8. QED
    BY <2>5, <2>6, <2>7 DEF Parsers
<1>4. CASE ParseToken(parsed, token) = parsed
  BY <1>4
<1>5. QED
  BY <1>2, <1>3, <1>4 DEF ParseToken

\* The parser of a patch, one token at a time.
LEMMA ParsedStep ==
  ASSUME NEW patch \in Seq(Tokens)
  PROVE  /\ Parsed(patch) \in [0..Len(patch) -> Parsers]
         /\ Parsed(patch)[0] = [left |-> 0, hunks |-> <<>>]
         /\ \A i \in 1..Len(patch) : Parsed(patch)[i] = ParseToken(Parsed(patch)[i-1], patch[i])
<1> DEFINE N == Len(patch)
           base == [left |-> 0, hunks |-> <<>>]
           step == [z \in Parsers \X (1..N) |-> ParseToken(z[1], patch[z[2]])]
           Is(f) == f = [i \in 0..N |-> IF i = 0 THEN base ELSE ParseToken(f[i-1], patch[i])]
<1>1. N \in Nat /\ \A i \in 1..N : patch[i] \in Tokens
  BY ElementOfSeq, LenProperties
<1>2. base \in Parsers
  BY EmptySeq DEF Parsers
<1>3. \A x \in Parsers, n \in 1..N : step[<<x, n>>] = ParseToken(x, patch[n])
  OBVIOUS
<1>4. \A x \in Parsers, n \in 1..N : step[<<x, n>>] \in Parsers
  BY <1>1, <1>3, ParseTokenTyped
<1> HIDE DEF step, base, N
<1>5. PICK f : Computes(f, Parsers, base, step, N)
  BY <1>1, <1>2, <1>4, RecursionExists
<1>6. /\ f \in [0..N -> Parsers] /\ f[0] = base
      /\ \A n \in 1..N : f[n-1] \in Parsers /\ f[n] = step[<<f[n-1], n>>]
  BY <1>1, <1>5 DEF Computes
<1>7. Is(f)
  <2>1. \A n \in 1..N : f[n] = ParseToken(f[n-1], patch[n])
    BY <1>3, <1>6
  <2>2. \A n \in 0..N : n # 0 => n \in 1..N
    BY <1>1
  <2>3. \A n \in 0..N : f[n] = IF n = 0 THEN base ELSE ParseToken(f[n-1], patch[n])
    BY <1>6, <2>1, <2>2
  <2>4. f = [n \in 0..N |-> f[n]]
    BY <1>6
  <2>5. QED
    BY <2>3, <2>4
<1>8. Parsed(patch) = CHOOSE g : Is(g)
  BY DEF Parsed, base, N
<1>9. Is(Parsed(patch))
  BY <1>7, <1>8
<1> DEFINE P == Parsed(patch)
<1> HIDE DEF P
<1>10. P = [i \in 0..N |-> IF i = 0 THEN base ELSE ParseToken(P[i-1], patch[i])]
  BY <1>9 DEF P
<1>11. P[0] = base /\ \A i \in 1..N : P[i] = ParseToken(P[i-1], patch[i])
  BY <1>10, <1>1
<1>12. \A n \in 1..N : P[n-1] \in Parsers => P[n] \in Parsers
  BY <1>1, <1>11, ParseTokenTyped
<1>13. \A n \in 0..N : P[n] \in Parsers
  BY <1>1, <1>2, <1>11, <1>12, StaysIn
<1>14. P \in [0..N -> Parsers]
  BY <1>10, <1>13
<1>15. QED
  BY <1>11, <1>14 DEF P, N, base
\* A part of a sequence: its type, its length, its elements.
LEMMA SubSeqTyped ==
  ASSUME NEW S, NEW s \in Seq(S), NEW m \in Nat \ {0}, NEW n \in Nat, n <= Len(s)
  PROVE  /\ SubSeq(s, m, n) \in Seq(S)
         /\ Len(SubSeq(s, m, n)) = IF m <= n THEN n - m + 1 ELSE 0
         /\ \A i \in 1..(n - m + 1) : SubSeq(s, m, n)[i] = s[m + i - 1]
<1>1. \A i \in m..n : s[i] \in S
  BY ElementOfSeq, LenProperties
<1>2. QED
  BY <1>1, SubSeqProperties

LEMMA SpliceTyped ==
  ASSUME NEW h \in HunkRecords, NEW lines \in Seq(Lines)
  PROVE  Splice(h, lines) \in Seq(Lines)
<1> DEFINE n    == Len(lines)
           last == Greater(0, n - 1)
           from == IF h.start = 0 THEN last ELSE Lesser(h.start - 1, n)
           to   == Greater(from, Lesser(h.start + h.count - 1, n))
<1>1. n \in Nat /\ h.start \in Nat /\ h.count \in Nat /\ h.new \in Seq(Lines)
  BY LenProperties DEF HunkRecords
<1>2. from \in Nat /\ from <= n
  BY <1>1 DEF Lesser, Greater
<1>3. to \in Nat /\ from <= to /\ to <= n
  BY <1>1, <1>2 DEF Lesser, Greater
<1>4. Splice(h, lines) = SubSeq(lines, 1, from) \o h.new \o SubSeq(lines, to + 1, n)
  BY DEF Splice
<1> HIDE DEF from, to, n
<1>5. SubSeq(lines, 1, from) \in Seq(Lines) /\ SubSeq(lines, to + 1, n) \in Seq(Lines)
  BY <1>2, <1>3, SubSeqTyped DEF n
<1>6. QED
  BY <1>1, <1>4, <1>5, ConcatProperties

\* The lines of a file, one hunk at a time.
LEMMA AppliedStep ==
  ASSUME NEW lines \in Seq(Lines), NEW hunks \in Seq(HunkRecords)
  PROVE  /\ Applied(lines, hunks) \in [0..Len(hunks) -> Seq(Lines)]
         /\ Applied(lines, hunks)[0] = lines
         /\ \A i \in 1..Len(hunks) :
              Applied(lines, hunks)[i] = Splice(hunks[Len(hunks) - i + 1], Applied(lines, hunks)[i-1])
<1> DEFINE N == Len(hunks)
           base == lines
           step == [z \in Seq(Lines) \X (1..N) |-> Splice(hunks[N - z[2] + 1], z[1])]
           Is(f) == f = [i \in 0..N |-> IF i = 0 THEN base ELSE Splice(hunks[N - i + 1], f[i-1])]
<1>1. N \in Nat /\ \A i \in 1..N : hunks[N - i + 1] \in HunkRecords
  BY ElementOfSeq, LenProperties
<1>2. base \in Seq(Lines)
  OBVIOUS
<1>3. \A x \in Seq(Lines), n \in 1..N : step[<<x, n>>] = Splice(hunks[N - n + 1], x)
  OBVIOUS
<1>4. \A x \in Seq(Lines), n \in 1..N : step[<<x, n>>] \in Seq(Lines)
  BY <1>1, <1>3, SpliceTyped
<1> HIDE DEF step, base, N
<1>5. PICK f : Computes(f, Seq(Lines), base, step, N)
  BY <1>1, <1>2, <1>4, RecursionExists
<1>6. /\ f \in [0..N -> Seq(Lines)] /\ f[0] = base
      /\ \A n \in 1..N : f[n-1] \in Seq(Lines) /\ f[n] = step[<<f[n-1], n>>]
  BY <1>1, <1>5 DEF Computes
<1>7. Is(f)
  <2>1. \A n \in 1..N : f[n] = Splice(hunks[N - n + 1], f[n-1])
    BY <1>3, <1>6
  <2>2. \A n \in 0..N : n # 0 => n \in 1..N
    BY <1>1
  <2>3. \A n \in 0..N : f[n] = IF n = 0 THEN base ELSE Splice(hunks[N - n + 1], f[n-1])
    BY <1>6, <2>1, <2>2
  <2>4. f = [n \in 0..N |-> f[n]]
    BY <1>6
  <2>5. QED
    BY <2>3, <2>4
<1>8. Applied(lines, hunks) = CHOOSE g : Is(g)
  BY DEF Applied, base, N
<1>9. Is(Applied(lines, hunks))
  BY <1>7, <1>8
<1> DEFINE P == Applied(lines, hunks)
<1> HIDE DEF P
<1>10. P = [i \in 0..N |-> IF i = 0 THEN base ELSE Splice(hunks[N - i + 1], P[i-1])]
  BY <1>9 DEF P
<1>11. P[0] = base /\ \A i \in 1..N : P[i] = Splice(hunks[N - i + 1], P[i-1])
  BY <1>10, <1>1
<1>12. \A n \in 1..N : P[n-1] \in Seq(Lines) => P[n] \in Seq(Lines)
  BY <1>1, <1>11, SpliceTyped
<1>13. \A n \in 0..N : P[n] \in Seq(Lines)
  BY <1>1, <1>2, <1>11, <1>12, StaysIn
<1>14. P \in [0..N -> Seq(Lines)]
  BY <1>10, <1>13
<1>15. QED
  BY <1>11, <1>14 DEF P, N, base

LEMMA OldStartTyped ==
  ASSUME NEW h, h.start \in Nat, h.count \in Nat
  PROVE  OldStart(h) \in Nat /\ (h.count = 0 => OldStart(h) # 0)
BY DEF OldStart

\* What a reader may write of `lines`, whether or not the patch fits them.
Readable(lines) == Lines \union {lines[i] : i \in Nat}
Readers(lines)  == [out : Seq(Readable(lines)), next : Nat, end : Nat]

LEMMA ReadTokenTyped ==
  ASSUME NEW lines, NEW r \in Readers(lines), NEW token \in Tokens
  PROVE  ReadToken(lines, r, token) \in Readers(lines)
<1>1. r.out \in Seq(Readable(lines)) /\ r.next \in Nat /\ r.end \in Nat
  BY DEF Readers
<1>2. CASE token.tag = "@"
  <2> DEFINE s == OldStart(token)
             copied == SubSeq(lines, r.next, s - 1)
  <2>1. s \in Nat /\ token.count \in Nat
    BY <1>2, TokenTypes, OldStartTyped
  <2>2. s - 1 \in Int /\ r.next \in Int
    BY <1>1, <2>1
  <2>3. \A i \in r.next..(s-1) : lines[i] \in Readable(lines)
    BY <1>1, <2>1 DEF Readable
  <2> HIDE DEF s
  <2>4. copied \in Seq(Readable(lines))
    BY <2>2, <2>3, SubSeqProperties
  <2> HIDE DEF copied
  <2>5. r.out \o copied \in Seq(Readable(lines))
    BY <1>1, <2>4, ConcatProperties
  <2>6. ReadToken(lines, r, token) = [out |-> r.out \o copied, next |-> s, end |-> s + token.count]
    BY <1>2 DEF ReadToken, copied, s
  <2>7. s + token.count \in Nat
    BY <2>1
  <2>8. QED
    BY <2>1, <2>5, <2>6, <2>7 DEF Readers
<1>3. CASE token.tag \in {"=", "-", "+"} /\ r.end # 0
  <2> DEFINE out  == IF token.tag = "-" THEN r.out ELSE Append(r.out, token.line)
             next == IF token.tag = "+" THEN r.next ELSE r.next + 1
  <2>1. token.line \in Readable(lines)
    BY <1>3, TokenTypes DEF Readable
  <2>2. out \in Seq(Readable(lines))
    BY <1>1, <2>1, AppendProperties
  <2>3. next \in Nat
    BY <1>1
  <2>4. ReadToken(lines, r, token) = [r EXCEPT !.out = out, !.next = next]
    BY <1>3 DEF ReadToken
  <2> HIDE DEF out, next
  <2>5. QED
    BY <2>2, <2>3, <2>4 DEF Readers
<1>4. CASE token.tag # "@" /\ ~(token.tag \in {"=", "-", "+"} /\ r.end # 0)
  BY <1>4 DEF ReadToken
<1>5. QED
  BY <1>2, <1>3, <1>4

\* The reader of a patch, one token at a time.
LEMMA ReadingStep ==
  ASSUME NEW lines, NEW patch \in Seq(Tokens)
  PROVE  /\ Reading(lines, patch) \in [0..Len(patch) -> Readers(lines)]
         /\ Reading(lines, patch)[0] = [out |-> <<>>, next |-> 1, end |-> 0]
         /\ \A i \in 1..Len(patch) :
              Reading(lines, patch)[i] = ReadToken(lines, Reading(lines, patch)[i-1], patch[i])
<1> DEFINE N == Len(patch)
           base == [out |-> <<>>, next |-> 1, end |-> 0]
           step == [z \in Readers(lines) \X (1..N) |-> ReadToken(lines, z[1], patch[z[2]])]
           Is(f) == f = [i \in 0..N |-> IF i = 0 THEN base ELSE ReadToken(lines, f[i-1], patch[i])]
<1>1. N \in Nat /\ \A i \in 1..N : patch[i] \in Tokens
  BY ElementOfSeq, LenProperties
<1>2. base \in Readers(lines)
  BY EmptySeq DEF Readers
<1>3. \A x \in Readers(lines), n \in 1..N : step[<<x, n>>] = ReadToken(lines, x, patch[n])
  OBVIOUS
<1>4. \A x \in Readers(lines), n \in 1..N : step[<<x, n>>] \in Readers(lines)
  BY <1>1, <1>3, ReadTokenTyped
<1> HIDE DEF step, base, N
<1>5. PICK f : Computes(f, Readers(lines), base, step, N)
  BY <1>1, <1>2, <1>4, RecursionExists
<1>6. /\ f \in [0..N -> Readers(lines)] /\ f[0] = base
      /\ \A n \in 1..N : f[n-1] \in Readers(lines) /\ f[n] = step[<<f[n-1], n>>]
  BY <1>1, <1>5 DEF Computes
<1>7. Is(f)
  <2>1. \A n \in 1..N : f[n] = ReadToken(lines, f[n-1], patch[n])
    BY <1>3, <1>6
  <2>2. \A n \in 0..N : n # 0 => n \in 1..N
    BY <1>1
  <2>3. \A n \in 0..N : f[n] = IF n = 0 THEN base ELSE ReadToken(lines, f[n-1], patch[n])
    BY <1>6, <2>1, <2>2
  <2>4. f = [n \in 0..N |-> f[n]]
    BY <1>6
  <2>5. QED
    BY <2>3, <2>4
<1>8. Reading(lines, patch) = CHOOSE g : Is(g)
  BY DEF Reading, base, N
<1>9. Is(Reading(lines, patch))
  BY <1>7, <1>8
<1> DEFINE P == Reading(lines, patch)
<1> HIDE DEF P
<1>10. P = [i \in 0..N |-> IF i = 0 THEN base ELSE ReadToken(lines, P[i-1], patch[i])]
  BY <1>9 DEF P
<1>11. P[0] = base /\ \A i \in 1..N : P[i] = ReadToken(lines, P[i-1], patch[i])
  BY <1>10, <1>1
<1>12. \A n \in 1..N : P[n-1] \in Readers(lines) => P[n] \in Readers(lines)
  BY <1>1, <1>11, ReadTokenTyped
<1>13. \A n \in 0..N : P[n] \in Readers(lines)
  BY <1>1, <1>2, <1>11, <1>12, StaysIn
<1>14. P \in [0..N -> Readers(lines)]
  BY <1>10, <1>13
<1>15. QED
  BY <1>11, <1>14 DEF P, N, base

-----------------------------------------------------------------------------
(* Applying hunks *)

LEMMA AllAppliedTyped ==
  ASSUME NEW lines \in Seq(Lines), NEW hunks \in Seq(HunkRecords)
  PROVE  AllApplied(lines, hunks) \in Seq(Lines)
<1>1. Len(hunks) \in 0..Len(hunks)
  BY LenProperties
<1>2. QED
  BY <1>1, AppliedStep DEF AllApplied

LEMMA NoneApplied ==
  ASSUME NEW lines \in Seq(Lines)
  PROVE  AllApplied(lines, <<>>) = lines
BY AppliedStep, EmptySeq DEF AllApplied

\* Hunks are applied from the last to the first: the last one to the lines as they were.
LEMMA LastHunkFirst ==
  ASSUME NEW lines \in Seq(Lines), NEW hunks \in Seq(HunkRecords), NEW h \in HunkRecords
  PROVE  AllApplied(lines, Append(hunks, h)) = AllApplied(Splice(h, lines), hunks)
<1> DEFINE N == Len(hunks)
           all == Append(hunks, h)
           F == Applied(lines, all)
           G == Applied(Splice(h, lines), hunks)
           S == {n \in Nat : F[n + 1] = G[n]}
<1>1. /\ N \in Nat /\ all \in Seq(HunkRecords) /\ Len(all) = N + 1
      /\ all[N + 1] = h /\ \A i \in 1..N : all[i] = hunks[i]
  BY LenProperties, AppendProperties
<1> HIDE DEF all
<1>2. F[0] = lines /\ \A i \in 1..(N+1) : F[i] = Splice(all[N + 1 - i + 1], F[i-1])
  <2>1. F[0] = lines /\ \A i \in 1..Len(all) : F[i] = Splice(all[Len(all) - i + 1], F[i-1])
    BY <1>1, AppliedStep
  <2>2. Len(all) = N + 1 /\ N \in Nat
    BY <1>1
  <2> HIDE DEF F, N
  <2>3. ASSUME NEW i \in 1..(N+1)
        PROVE  F[i] = Splice(all[N + 1 - i + 1], F[i-1])
    <3>1. i \in 1..Len(all) /\ Len(all) - i + 1 = N + 1 - i + 1
      BY <2>2
    <3>2. QED
      BY <2>1, <3>1
  <2>4. QED
    BY <2>1, <2>3
<1>3. G[0] = Splice(h, lines) /\ \A i \in 1..N : G[i] = Splice(hunks[N - i + 1], G[i-1])
  BY SpliceTyped, AppliedStep
<1> HIDE DEF F, G, N
<1>4. 0 \in S
  <2>1. F[1] = Splice(all[N + 1], F[0])
    BY <1>1, <1>2
  <2>2. QED
    BY <2>1, <1>1, <1>2, <1>3
<1>5. ASSUME NEW n \in 1..N, n - 1 \in S
      PROVE  n \in S
  <2>1. F[n] = G[n-1]
    BY <1>5
  <2>2. F[n + 1] = Splice(all[N - n + 1], F[n])
    <3>1. n + 1 \in 1..(N+1) /\ N + 1 - (n + 1) + 1 = N - n + 1 /\ (n + 1) - 1 = n
      BY <1>1
    <3>2. QED
      BY <3>1, <1>2
  <2>3. all[N - n + 1] = hunks[N - n + 1]
    BY <1>1
  <2>4. G[n] = Splice(hunks[N - n + 1], G[n-1])
    BY <1>3
  <2>5. QED
    BY <2>1, <2>2, <2>3, <2>4
<1> HIDE DEF S
<1>6. N \in Nat
  BY <1>1
<1>7. \A n \in 0..N : n \in S
  BY <1>4, <1>5, <1>6, RangeInduction
<1>8. F[N + 1] = G[N]
  BY <1>6, <1>7 DEF S
<1>9. QED
  BY <1>1, <1>8 DEF AllApplied, F, G, N, all

\* A hunk without old or new lines changes nothing, even one at line 0.
LEMMA SpliceNothing ==
  ASSUME NEW lines \in Seq(Lines), NEW h \in HunkRecords, h.count = 0, h.new = <<>>
  PROVE  Splice(h, lines) = lines
<1> DEFINE n    == Len(lines)
           last == Greater(0, n - 1)
           from == IF h.start = 0 THEN last ELSE Lesser(h.start - 1, n)
           to   == Greater(from, Lesser(h.start + h.count - 1, n))
<1>1. n \in Nat /\ h.start \in Nat
  BY LenProperties DEF HunkRecords
<1>2. from \in 0..n
  BY <1>1 DEF Lesser, Greater
<1>3. to = from
  BY <1>1, <1>2 DEF Lesser, Greater
<1>4. Splice(h, lines) = SubSeq(lines, 1, from) \o <<>> \o SubSeq(lines, from + 1, n)
  BY <1>3 DEF Splice
<1> HIDE DEF from, to
<1>5. SubSeq(lines, 1, from) \o <<>> = SubSeq(lines, 1, from)
  BY <1>1, <1>2, SubSeqTyped, ConcatEmptySeq
<1>6. SubSeq(lines, 1, from) \o SubSeq(lines, from + 1, n) = SubSeq(lines, 1, n)
  <2>1. 1 \in 1..(n+1) /\ from \in (1-1)..n /\ n \in from..n
    BY <1>1, <1>2
  <2>2. QED
    BY <2>1, ConcatAdjacentSubSeq
<1>7. QED
  BY <1>4, <1>5, <1>6, SubSeqFull

\* The ends of a sequence, by what it was put together from.
LEMMA EndsOfJoined ==
  ASSUME NEW S, NEW s \in Seq(S), NEW t \in Seq(S)
  PROVE  /\ SubSeq(s \o t, 1, Len(s)) = s
         /\ SubSeq(s \o t, Len(s) + 1, Len(s \o t)) = t
<1> DEFINE m == Len(s)
           n == Len(t)
           st == s \o t
<1>1. /\ m \in Nat /\ n \in Nat /\ st \in Seq(S) /\ Len(st) = m + n
      /\ \A i \in 1..(m+n) : st[i] = IF i <= m THEN s[i] ELSE t[i - m]
  BY ConcatProperties, LenProperties
<1> HIDE DEF st
<1>2. /\ SubSeq(st, 1, m) \in Seq(S) /\ Len(SubSeq(st, 1, m)) = m
      /\ \A i \in 1..m : SubSeq(st, 1, m)[i] = st[i]
  BY <1>1, SubSeqTyped
<1>3. /\ SubSeq(st, m + 1, m + n) \in Seq(S) /\ Len(SubSeq(st, m + 1, m + n)) = n
      /\ \A i \in 1..n : SubSeq(st, m + 1, m + n)[i] = st[m + i]
  BY <1>1, SubSeqTyped
<1>4. SubSeq(st, 1, m) = s
  BY <1>1, <1>2, SeqEqual
<1>5. SubSeq(st, m + 1, m + n) = t
  BY <1>1, <1>3, SeqEqual
<1>6. QED
  BY <1>1, <1>4, <1>5 DEF st

\* ConcatAssociative in the form in which it is instantiated below.
LEMMA Reassociated == \A s, t, u \in Seq(Lines) : (s \o t) \o u = s \o (t \o u)
BY ConcatAssociative

LEMMA SpliceAfter ==
  ASSUME NEW h, NEW lines \in Seq(Lines), NEW m \in Nat, NEW k \in Nat,
         h.start = m + 1, h.count \in Nat, m + h.count = k, k <= Len(lines)
  PROVE  Splice(h, lines) = SubSeq(lines, 1, m) \o h.new \o SubSeq(lines, k + 1, Len(lines))
<1>1. Len(lines) \in Nat
  BY LenProperties
<1>2. h.start # 0 /\ Lesser(h.start - 1, Len(lines)) = m
  BY <1>1 DEF Lesser
<1>3. Greater(m, Lesser(h.start + h.count - 1, Len(lines))) = k
  BY <1>1 DEF Lesser, Greater
<1>4. QED
  BY <1>2, <1>3 DEF Splice

\* A hunk replaces the old lines it stands at.
LEMMA SpliceBetween ==
  ASSUME NEW h \in HunkRecords, NEW before \in Seq(Lines), NEW old \in Seq(Lines),
         NEW rest \in Seq(Lines),
         OldStart(h) = Len(before) + 1, Len(old) = h.count, h.count = 0 => h.new = <<>>
  PROVE  Splice(h, before \o (old \o rest)) = before \o (h.new \o rest)
<1> DEFINE x == before \o (old \o rest)
<1>1. /\ h.start \in Nat /\ h.count \in Nat /\ h.new \in Seq(Lines)
      /\ Len(before) \in Nat /\ Len(old) \in Nat /\ Len(rest) \in Nat
  BY LenProperties DEF HunkRecords
<1>2. old \o rest \in Seq(Lines) /\ Len(old \o rest) = Len(old) + Len(rest)
  BY ConcatProperties
<1>3. x \in Seq(Lines) /\ Len(x) = Len(before) + (Len(old) + Len(rest))
  BY <1>2, ConcatProperties
<1>4. CASE h.count = 0
  <2>1. Splice(h, x) = x
    BY <1>3, <1>4, SpliceNothing
  <2>2. old = <<>>
    BY <1>4, EmptySeq
  <2>3. QED
    BY <2>1, <2>2, <1>4
<1>5. CASE h.count # 0
  <2>1. h.start = Len(before) + 1
    BY <1>5 DEF OldStart
  <2> DEFINE m == Len(before)
             k == Len(before) + Len(old)
  <2>2. Splice(h, x) = SubSeq(x, 1, m) \o h.new \o SubSeq(x, k + 1, Len(x))
    <3>1. /\ h.start = m + 1 /\ m \in Nat
          /\ h.count \in Nat /\ k \in Nat /\ m + h.count = k /\ k <= Len(x)
      BY <1>1, <1>3, <2>1
    <3> HIDE DEF x, m, k
    <3>2. QED
      BY <1>3, <3>1, SpliceAfter
  <2>3. SubSeq(x, 1, m) = before
    BY <1>2, EndsOfJoined
  <2>4. SubSeq(x, k + 1, Len(x)) = rest
    <3>1. x = (before \o old) \o rest
      BY Reassociated
    <3>2. before \o old \in Seq(Lines) /\ Len(before \o old) = k
      BY ConcatProperties
    <3> HIDE DEF x, k
    <3>3. QED
      BY <3>1, <3>2, EndsOfJoined
  <2>5. (before \o h.new) \o rest = before \o (h.new \o rest)
    <3>1. h.new \in Seq(Lines)
      BY <1>1
    <3>2. QED
      BY <3>1, Reassociated, Zenon
  <2> HIDE DEF x, m, k
  <2>6. QED
    BY <2>2, <2>3, <2>4, <2>5 DEF x
<1>6. QED
  BY <1>4, <1>5

-----------------------------------------------------------------------------
(* The parser and the reader, token by token *)

\* Within the hunk h, which stands after the hunks hs: pre is what those make of
\* the lines before h.
OpenHunk(lines, p, r, hs, h, pre) ==
  /\ hs \in Seq(HunkRecords) /\ h \in HunkRecords /\ pre \in Seq(Lines)
  /\ p.hunks = Append(hs, h)
  /\ OldStart(h) >= 1 /\ OldStart(h) + h.count = r.end /\ r.end <= Len(lines) + 1
  /\ r.next + p.left = r.end /\ p.left <= h.count
  /\ h.count = 0 => h.new = <<>>
  /\ r.out = pre \o h.new
  /\ \A rest \in Seq(Lines) :
       AllApplied(SubSeq(lines, 1, OldStart(h) - 1) \o rest, hs) = pre \o rest

Lockstep(lines, p, r) ==
  \/ p = [left |-> 0, hunks |-> <<>>] /\ r = [out |-> <<>>, next |-> 1, end |-> 0]
  \/ r.end # 0 /\ \E hs, h, pre : OpenHunk(lines, p, r, hs, h, pre)

\* Between hunks: those parsed make of the lines passed what has been written.
Between(lines, p, r) ==
  /\ r.out \in Seq(Lines) /\ r.next \in 1..(Len(lines) + 1)
  /\ \A rest \in Seq(Lines) :
       AllApplied(SubSeq(lines, 1, r.next - 1) \o rest, p.hunks) = r.out \o rest

\* When the parser expects no more old lines, the last hunk may be applied.
LEMMA HunkOver ==
  ASSUME NEW lines \in Seq(Lines), NEW p \in Parsers, NEW r \in Readers(lines),
         Lockstep(lines, p, r), p.left = 0
  PROVE  Between(lines, p, r)
<1>1. Len(lines) \in Nat /\ r.next \in Nat
  BY LenProperties DEF Readers
<1>2. CASE p = [left |-> 0, hunks |-> <<>>] /\ r = [out |-> <<>>, next |-> 1, end |-> 0]
  <2>1. r.out = <<>> /\ r.next = 1 /\ p.hunks = <<>>
    BY <1>2
  <2>2. SubSeq(lines, 1, 0) = <<>>
    BY SubSeqEmpty
  <2>3. ASSUME NEW rest \in Seq(Lines)
        PROVE  AllApplied(<<>> \o rest, <<>>) = <<>> \o rest
    BY ConcatEmptySeq, NoneApplied
  <2>4. <<>> \in Seq(Lines) /\ 1 \in 1..(Len(lines) + 1) /\ 1 - 1 = 0
    BY <1>1, EmptySeq
  <2>5. QED
    BY <2>1, <2>2, <2>3, <2>4 DEF Between
<1>3. ASSUME NEW hs, NEW h, NEW pre, OpenHunk(lines, p, r, hs, h, pre)
      PROVE  Between(lines, p, r)
  <2> DEFINE s      == OldStart(h)
             before == SubSeq(lines, 1, s - 1)
             old    == SubSeq(lines, s, r.next - 1)
             passed == SubSeq(lines, 1, r.next - 1)
             new    == h.new
  <2>1. /\ hs \in Seq(HunkRecords) /\ h \in HunkRecords /\ pre \in Seq(Lines)
        /\ p.hunks = Append(hs, h)
    BY <1>3 DEF OpenHunk
  <2>2. s >= 1 /\ s + h.count = r.next /\ r.next <= Len(lines) + 1
    BY <1>1, <1>3 DEF OpenHunk
  <2>3. r.out = pre \o new /\ (h.count = 0 => h.new = <<>>)
    BY <1>3 DEF OpenHunk
  <2>4. \A rest \in Seq(Lines) : AllApplied(before \o rest, hs) = pre \o rest
    BY <1>3 DEF OpenHunk
  <2>5. h.start \in Nat /\ h.count \in Nat /\ new \in Seq(Lines)
    BY <2>1 DEF HunkRecords
  <2>6. s \in Nat
    BY <2>5, OldStartTyped
  <2> HIDE DEF s
  <2>7. before \in Seq(Lines) /\ Len(before) = s - 1
    <3>1. s - 1 \in Nat /\ s - 1 <= Len(lines)
      BY <1>1, <2>2, <2>5, <2>6
    <3>2. QED
      BY <3>1, SubSeqTyped
  <2>8. old \in Seq(Lines) /\ Len(old) = h.count
    <3>1. s \in Nat \ {0} /\ r.next - 1 \in Nat /\ r.next - 1 <= Len(lines)
      BY <1>1, <2>2, <2>5, <2>6
    <3>2. old \in Seq(Lines) /\ Len(old) = IF s <= r.next - 1 THEN r.next - 1 - s + 1 ELSE 0
      BY <3>1, SubSeqTyped
    <3>3. QED
      BY <3>2, <2>2, <2>5, <2>6
  <2>9. passed = before \o old
    <3>1. /\ 1 \in 1..(Len(lines)+1) /\ s - 1 \in (1-1)..Len(lines)
          /\ r.next - 1 \in (s-1)..Len(lines) /\ (s - 1) + 1 = s
      BY <1>1, <2>2, <2>5, <2>6
    <3>2. SubSeq(lines, 1, s - 1) \o SubSeq(lines, (s - 1) + 1, r.next - 1) = SubSeq(lines, 1, r.next - 1)
      BY <3>1, ConcatAdjacentSubSeq
    <3>3. QED
      BY <3>1, <3>2
  <2>10. s = Len(before) + 1
    BY <2>6, <2>7
  <2> HIDE DEF before, old, passed, new
  <2>11. ASSUME NEW rest \in Seq(Lines)
         PROVE  AllApplied(passed \o rest, p.hunks) = r.out \o rest
    <3>1. passed \o rest = before \o (old \o rest)
      BY <2>7, <2>8, <2>9, Reassociated
    <3>2. before \o (old \o rest) \in Seq(Lines) /\ new \o rest \in Seq(Lines)
      BY <2>5, <2>7, <2>8, ConcatProperties
    <3>3. Splice(h, before \o (old \o rest)) = before \o (new \o rest)
      BY <2>1, <2>3, <2>7, <2>8, <2>10, SpliceBetween DEF s, new
    <3>4. AllApplied(passed \o rest, p.hunks) = AllApplied(before \o (new \o rest), hs)
      <4> DEFINE x == before \o (old \o rest)
      <4>1. x \in Seq(Lines)
        BY <3>2
      <4> HIDE DEF x
      <4>2. AllApplied(x, Append(hs, h)) = AllApplied(Splice(h, x), hs)
        BY <2>1, <4>1, LastHunkFirst
      <4>3. QED
        BY <2>1, <3>1, <3>3, <4>2 DEF x
    <3>5. AllApplied(before \o (new \o rest), hs) = pre \o (new \o rest)
      BY <2>4, <3>2
    <3>6. pre \o (new \o rest) = (pre \o new) \o rest
      BY <2>1, <2>5, Reassociated
    <3>7. QED
      BY <2>3, <3>4, <3>5, <3>6
  <2>12. r.out \in Seq(Lines)
    BY <2>1, <2>3, <2>5, ConcatProperties
  <2>13. r.next \in 1..(Len(lines) + 1)
    BY <1>1, <2>2, <2>5, <2>6
  <2>14. QED
    BY <2>11, <2>12, <2>13 DEF Between, passed
<1>4. QED
  BY <1>2, <1>3 DEF Lockstep

\* A header, where the last hunk is complete, opens the next one.
LEMMA LockstepHeader ==
  ASSUME NEW lines \in Seq(Lines), NEW p \in Parsers, NEW r \in Readers(lines),
         NEW token \in Tokens, token.tag = "@",
         Lockstep(lines, p, r), FitsToken(lines, r, token)
  PROVE  Lockstep(lines, ParseToken(p, token), ReadToken(lines, r, token))
<1>1. /\ Len(lines) \in Nat /\ r.next \in Nat /\ r.end \in Nat
      /\ p.left \in Nat /\ p.hunks \in Seq(HunkRecords)
      /\ token.start \in Nat /\ token.count \in Nat
  BY LenProperties, TokenTypes DEF Readers, Parsers
<1>2. p.left = 0
  <2>1. CASE r.end = r.next /\ r.end # 0
    <3>1. PICK hs, h, pre : OpenHunk(lines, p, r, hs, h, pre)
      BY <2>1 DEF Lockstep
    <3>2. r.next + p.left = r.end
      BY <3>1 DEF OpenHunk
    <3>3. QED
      BY <1>1, <2>1, <3>2
  <2>2. CASE r.end = 0
    BY <2>2 DEF Lockstep
  <2>3. QED
    BY <2>1, <2>2 DEF FitsToken
<1>3. Between(lines, p, r)
  BY <1>2, HunkOver
<1> DEFINE s      == OldStart(token)
           h      == [start |-> token.start, count |-> token.count, new |-> <<>>]
           copied == SubSeq(lines, r.next, s - 1)
           pre    == r.out \o copied
<1>4. r.out \in Seq(Lines) /\ r.next \in 1..(Len(lines) + 1)
  BY <1>3 DEF Between
<1>5. s \in Nat /\ r.next <= s /\ s + token.count <= Len(lines) + 1
  BY <1>1, OldStartTyped DEF FitsToken
<1>6. h \in HunkRecords /\ OldStart(h) = s /\ h.count = token.count /\ h.new = <<>>
  BY <1>1, EmptySeq DEF HunkRecords, OldStart
<1>7. /\ ParseToken(p, token) = [left |-> token.count, hunks |-> Append(p.hunks, h)]
      /\ ReadToken(lines, r, token) = [out |-> pre, next |-> s, end |-> s + token.count]
  BY <1>2 DEF ParseToken, ReadToken
<1> HIDE DEF s, h
<1>8. copied \in Seq(Lines)
  <2>1. r.next \in Nat \ {0} /\ s - 1 \in Nat /\ s - 1 <= Len(lines)
    BY <1>1, <1>4, <1>5
  <2>2. QED
    BY <2>1, SubSeqTyped
<1>9. pre \in Seq(Lines)
  BY <1>4, <1>8, ConcatProperties
<1>10. SubSeq(lines, 1, s - 1) = SubSeq(lines, 1, r.next - 1) \o copied
  <2>1. /\ 1 \in 1..(Len(lines)+1) /\ r.next - 1 \in (1-1)..Len(lines)
        /\ s - 1 \in (r.next-1)..Len(lines) /\ (r.next - 1) + 1 = r.next
    BY <1>1, <1>4, <1>5
  <2>2. SubSeq(lines, 1, r.next - 1) \o SubSeq(lines, (r.next - 1) + 1, s - 1) = SubSeq(lines, 1, s - 1)
    BY <2>1, ConcatAdjacentSubSeq
  <2>3. QED
    BY <2>1, <2>2
<1>11. ASSUME NEW rest \in Seq(Lines)
       PROVE  AllApplied(SubSeq(lines, 1, s - 1) \o rest, p.hunks) = pre \o rest
  <2> DEFINE passed == SubSeq(lines, 1, r.next - 1)
             out    == r.out
  <2>1. passed \in Seq(Lines)
    <3>1. r.next - 1 \in Nat /\ r.next - 1 <= Len(lines)
      BY <1>1, <1>4
    <3>2. QED
      BY <3>1, SubSeqTyped
  <2>2. out \in Seq(Lines)
    BY <1>4
  <2>3. \A rest2 \in Seq(Lines) : AllApplied(passed \o rest2, p.hunks) = out \o rest2
    BY <1>3 DEF Between
  <2>4. SubSeq(lines, 1, s - 1) = passed \o copied /\ pre = out \o copied
    BY <1>10
  <2> HIDE DEF passed, copied, pre, out
  <2>5. /\ (passed \o copied) \o rest = passed \o (copied \o rest)
        /\ (out \o copied) \o rest = out \o (copied \o rest)
    BY <1>8, <2>1, <2>2, Reassociated
  <2>6. copied \o rest \in Seq(Lines)
    BY <1>8, ConcatProperties
  <2>7. QED
    BY <2>3, <2>4, <2>5, <2>6
<1>12. pre = pre \o <<>>
  BY <1>9, ConcatEmptySeq
<1> DEFINE q  == ParseToken(p, token)
           r2 == ReadToken(lines, r, token)
<1> HIDE DEF q, r2, pre, copied
<1>13. /\ q = [left |-> token.count, hunks |-> Append(p.hunks, h)]
       /\ r2 = [out |-> pre, next |-> s, end |-> s + token.count]
  BY <1>7 DEF q, r2
<1>14. /\ q.left = token.count /\ q.hunks = Append(p.hunks, h)
       /\ r2.out = pre /\ r2.next = s /\ r2.end = s + token.count
  BY <1>13
<1>15. s >= 1 /\ r2.end # 0
  BY <1>1, <1>4, <1>5, <1>14
<1>16. OpenHunk(lines, q, r2, p.hunks, h, pre)
  <2>1. /\ OldStart(h) >= 1 /\ OldStart(h) + h.count = r2.end /\ r2.end <= Len(lines) + 1
        /\ r2.next + q.left = r2.end /\ q.left <= h.count
    BY <1>1, <1>5, <1>6, <1>14, <1>15
  <2>2. q.hunks = Append(p.hunks, h) /\ r2.out = pre \o h.new
    BY <1>6, <1>12, <1>14
  <2>3. \A rest \in Seq(Lines) :
          AllApplied(SubSeq(lines, 1, OldStart(h) - 1) \o rest, p.hunks) = pre \o rest
    BY <1>6, <1>11
  <2>4. QED
    BY <1>1, <1>6, <1>9, <2>1, <2>2, <2>3 DEF OpenHunk
<1>17. QED
  BY <1>15, <1>16 DEF Lockstep, q, r2

LEMMA LastReplaced ==
  ASSUME NEW S, NEW s \in Seq(S), NEW x \in S, NEW y \in S
  PROVE  /\ Append(s, x)[Len(Append(s, x))] = x
         /\ [Append(s, x) EXCEPT ![Len(Append(s, x))] = y] = Append(s, y)
<1> DEFINE n  == Len(s)
           sx == Append(s, x)
           sy == Append(s, y)
<1>1. /\ n \in Nat /\ sx \in Seq(S) /\ Len(sx) = n + 1 /\ sx[n + 1] = x
      /\ \A i \in 1..n : sx[i] = s[i]
  BY LenProperties, AppendProperties
<1>2. /\ sy \in Seq(S) /\ Len(sy) = n + 1 /\ sy[n + 1] = y
      /\ \A i \in 1..n : sy[i] = s[i]
  BY LenProperties, AppendProperties
<1> HIDE DEF sx, sy
<1> DEFINE z == [sx EXCEPT ![n + 1] = y]
<1>3. /\ z \in Seq(S) /\ Len(z) = n + 1
      /\ \A i \in 1..(n+1) : z[i] = IF i = n + 1 THEN y ELSE sx[i]
  BY <1>1, ExceptSeq
<1> HIDE DEF z
<1>4. z = sy
  BY <1>1, <1>2, <1>3, SeqEqual
<1>5. QED
  BY <1>1, <1>4 DEF sx, sy, z

\* A line of a hunk that is not complete goes into the hunk and to the output alike.
LEMMA LockstepLine ==
  ASSUME NEW lines \in Seq(Lines), NEW p \in Parsers, NEW r \in Readers(lines),
         NEW token \in Tokens, token.tag \in {"=", "-", "+"}, r.end # 0, r.next < r.end,
         Lockstep(lines, p, r)
  PROVE  Lockstep(lines, ParseToken(p, token), ReadToken(lines, r, token))
<1>1. token.tag # "@" /\ token.line \in Lines
  BY TokenTypes
<1>2. PICK hs, h, pre : OpenHunk(lines, p, r, hs, h, pre)
  <2>1. r # [out |-> <<>>, next |-> 1, end |-> 0]
    OBVIOUS
  <2>2. QED
    BY <2>1, Zenon DEF Lockstep
<1>3. /\ hs \in Seq(HunkRecords) /\ h \in HunkRecords /\ pre \in Seq(Lines)
      /\ p.hunks = Append(hs, h) /\ r.out = pre \o h.new
  BY <1>2 DEF OpenHunk
<1>4. \A rest \in Seq(Lines) :
        AllApplied(SubSeq(lines, 1, OldStart(h) - 1) \o rest, hs) = pre \o rest
  BY <1>2 DEF OpenHunk
<1>5. /\ OldStart(h) >= 1 /\ OldStart(h) + h.count = r.end /\ r.end <= Len(lines) + 1
      /\ r.next + p.left = r.end /\ p.left <= h.count
  BY <1>2 DEF OpenHunk
<1>6. h.new \in Seq(Lines)
  BY <1>3 DEF HunkRecords
<1>7. p.left # 0 /\ h.count # 0
  <2>1. p.left \in Nat /\ r.next \in Nat /\ r.end \in Nat /\ h.count \in Nat
    BY <1>3 DEF Parsers, Readers, HunkRecords
  <2>2. r.next + p.left = r.end /\ p.left <= h.count
    BY <1>5
  <2>3. QED
    BY <2>1, <2>2
<1> DEFINE new  == Kept(h.new, token)
           h2   == [h EXCEPT !.new = new]
           left == IF token.tag = "+" THEN p.left ELSE p.left - 1
           next == IF token.tag = "+" THEN r.next ELSE r.next + 1
           out  == IF token.tag = "-" THEN r.out ELSE Append(r.out, token.line)
           q    == ParseToken(p, token)
           r2   == ReadToken(lines, r, token)
<1>8. new \in Seq(Lines)
  BY <1>1, <1>6, KeptTyped
<1>9. h2 \in HunkRecords /\ h2.new = new /\ h2.count = h.count /\ OldStart(h2) = OldStart(h)
  <2> HIDE DEF new
  <2>1. QED
    BY <1>3, <1>8 DEF HunkRecords, OldStart
<1>10. q = [left |-> left, hunks |-> Append(hs, h2)]
  <2> DEFINE ph == p.hunks
             n  == Len(ph)
  <2>1. q = [left |-> left, hunks |-> [ph EXCEPT ![n].new = Kept(@, token)]]
    BY <1>1, <1>7 DEF ParseToken
  <2>2. ph = Append(hs, h)
    BY <1>3
  <2>3. ph[n] = h
    <3> HIDE DEF h2
    <3>1. QED
      BY <1>3, <1>9, <2>2, LastReplaced
  <2>4. [ph EXCEPT ![n].new = Kept(@, token)] = [ph EXCEPT ![n] = h2]
    BY <2>3
  <2>5. [ph EXCEPT ![n] = h2] = Append(hs, h2)
    <3> HIDE DEF h2
    <3>1. QED
      BY <1>3, <1>9, <2>2, LastReplaced
  <2> HIDE DEF q, left, h2, ph, n
  <2>6. QED
    BY <2>1, <2>4, <2>5
<1>11. r2 = [r EXCEPT !.out = out, !.next = next]
  BY <1>1 DEF ReadToken
<1>12. /\ q.left = left /\ q.hunks = Append(hs, h2)
       /\ r2.out = out /\ r2.next = next /\ r2.end = r.end
  <2> HIDE DEF q, r2, out, next, left, h2
  <2>1. QED
    BY <1>10, <1>11 DEF Readers
<1>13. left \in Nat /\ left <= h.count /\ next + left = r.end
  <2>1. p.left \in Nat /\ r.next \in Nat /\ r.end \in Nat /\ h.count \in Nat
    BY <1>3 DEF Parsers, Readers, HunkRecords
  <2>2. r.next + p.left = r.end /\ p.left <= h.count /\ p.left # 0
    BY <1>5, <1>7
  <2>3. QED
    BY <2>1, <2>2
<1>14. out = pre \o new
  <2>1. CASE token.tag = "-"
    BY <2>1, <1>3 DEF Kept
  <2>2. CASE token.tag # "-"
    <3> DEFINE old == h.new
               line == token.line
    <3>1. old \in Seq(Lines) /\ line \in Lines
      BY <1>1, <1>6
    <3>2. new = Append(old, line) /\ out = Append(pre \o old, line)
      BY <2>2, <1>3 DEF Kept
    <3> HIDE DEF old, new, out, line
    <3>3. pre \o old \in Seq(Lines) /\ <<line>> \in Seq(Lines)
      BY <1>3, <3>1, ConcatProperties
    <3>4. new = old \o <<line>> /\ out = (pre \o old) \o <<line>>
      BY <3>1, <3>2, <3>3, AppendIsConcat
    <3>5. QED
      BY <1>3, <3>1, <3>3, <3>4, Reassociated
  <2>3. QED
    BY <2>1, <2>2
<1> HIDE DEF q, r2, out, next, left, h2, new
<1>15. h2.count # 0
  BY <1>7, <1>9
<1>16. /\ OldStart(h2) >= 1 /\ OldStart(h2) + h2.count = r2.end /\ r2.end <= Len(lines) + 1
       /\ r2.next + q.left = r2.end /\ q.left <= h2.count
  BY <1>5, <1>9, <1>12, <1>13
<1>17. q.hunks = Append(hs, h2) /\ r2.out = pre \o h2.new
  BY <1>9, <1>12, <1>14
<1>18. OpenHunk(lines, q, r2, hs, h2, pre)
  BY <1>3, <1>4, <1>9, <1>15, <1>16, <1>17 DEF OpenHunk
<1>19. QED
  BY <1>12, <1>18 DEF Lockstep, q, r2

\* Other tokens change nothing.
LEMMA LockstepOther ==
  ASSUME NEW lines \in Seq(Lines), NEW p \in Parsers, NEW r \in Readers(lines),
         NEW token \in Tokens, token.tag # "@", token.tag = "\\" \/ r.end = 0,
         Lockstep(lines, p, r)
  PROVE  Lockstep(lines, ParseToken(p, token), ReadToken(lines, r, token))
<1>1. ReadToken(lines, r, token) = r
  BY DEF ReadToken
<1>2. ParseToken(p, token) = p
  <2>1. CASE r.end = 0
    BY <2>1 DEF Lockstep, ParseToken
  <2>2. CASE token.tag = "\\"
    BY <2>2 DEF ParseToken
  <2>3. QED
    BY <2>1, <2>2
<1>3. QED
  BY <1>1, <1>2

\* Lines that are not headers keep the reader in its hunk, and never move it back.
LEMMA ReaderAdvances ==
  ASSUME NEW lines, NEW r \in Readers(lines), NEW token \in Tokens, token.tag # "@"
  PROVE  ReadToken(lines, r, token).end = r.end /\ ReadToken(lines, r, token).next >= r.next
<1>1. r.next \in Nat
  BY DEF Readers
<1>2. CASE token.tag \in {"=", "-", "+"} /\ r.end # 0
  <2> DEFINE out  == IF token.tag = "-" THEN r.out ELSE Append(r.out, token.line)
             next == IF token.tag = "+" THEN r.next ELSE r.next + 1
  <2>1. ReadToken(lines, r, token) = [r EXCEPT !.out = out, !.next = next]
    BY <1>2 DEF ReadToken
  <2>2. next >= r.next
    BY <1>1
  <2> HIDE DEF out, next
  <2>3. QED
    BY <2>1, <2>2 DEF Readers
<1>3. CASE ~(token.tag \in {"=", "-", "+"} /\ r.end # 0)
  BY <1>1, <1>3 DEF ReadToken
<1>4. QED
  BY <1>2, <1>3

\* A new line is followed by an old one of the same hunk, so the hunk is not complete.
LEMMA RoomForNewLine ==
  ASSUME NEW lines \in Seq(Lines), NEW patch \in Seq(Tokens),
         Fits(lines, patch), EndsInOldLines(patch),
         NEW i \in 1..Len(patch), patch[i].tag = "+", Reading(lines, patch)[i-1].end # 0
  PROVE  Reading(lines, patch)[i-1].next < Reading(lines, patch)[i-1].end
<1> DEFINE R == Reading(lines, patch)
           N == Len(patch)
<1>1. N \in Nat /\ DOMAIN patch = 1..N /\ \A k \in 1..N : patch[k] \in Tokens
  BY ElementOfSeq, LenProperties
<1>2. /\ \A k \in 0..N : R[k] \in Readers(lines) /\ R[k].next \in Nat /\ R[k].end \in Nat
      /\ R[0].end = 0
      /\ \A k \in 1..N : R[k] = ReadToken(lines, R[k-1], patch[k])
  <2>1. /\ R \in [0..N -> Readers(lines)]
        /\ R[0] = [out |-> <<>>, next |-> 1, end |-> 0]
        /\ \A k \in 1..N : R[k] = ReadToken(lines, R[k-1], patch[k])
    BY ReadingStep
  <2>2. \A r \in Readers(lines) : r.next \in Nat /\ r.end \in Nat
    BY DEF Readers
  <2> HIDE DEF R, N
  <2>3. QED
    BY <2>1, <2>2
<1>3. \A k \in 1..N : FitsToken(lines, R[k-1], patch[k])
  BY <1>1 DEF Fits
<1> HIDE DEF R, N
<1>4. \A k \in 1..N : patch[k].tag # "@" => R[k].end = R[k-1].end /\ R[k].next >= R[k-1].next
  <2> SUFFICES ASSUME NEW k \in 1..N, patch[k].tag # "@"
               PROVE  R[k].end = R[k-1].end /\ R[k].next >= R[k-1].next
    OBVIOUS
  <2>1. R[k-1] \in Readers(lines)
    BY <1>1, <1>2
  <2>2. QED
    BY <1>1, <1>2, <2>1, ReaderAdvances
<1>5. \E h \in 1..i : patch[h].tag = "@"
  <2> DEFINE S == {n \in Nat : n <= N /\ R[n].end # 0 => \E h \in 1..n : patch[h].tag = "@"}
  <2>1. 0 \in S
    BY <1>2
  <2>2. ASSUME NEW n \in 1..N, n - 1 \in S
        PROVE  n \in S
    <3>1. CASE patch[n].tag = "@"
      BY <3>1
    <3>2. CASE patch[n].tag # "@"
      <4>1. R[n].end = R[n-1].end
        BY <1>4, <3>2
      <4>2. \A h \in 1..(n-1) : h \in 1..n
        OBVIOUS
      <4>3. QED
        BY <2>2, <4>1, <4>2, <1>1
    <3>3. QED
      BY <3>1, <3>2
  <2> HIDE DEF S
  <2>3. \A n \in 0..N : n \in S
    BY <1>1, <2>1, <2>2, RangeInduction
  <2>4. i - 1 \in 0..N /\ i - 1 \in S /\ R[i-1].end # 0
    BY <1>1, <2>3 DEF R, N
  <2>5. \E h \in 1..(i-1) : patch[h].tag = "@"
    BY <1>1, <2>4 DEF S
  <2>6. \A h \in 1..(i-1) : h \in 1..i
    BY <1>1 DEF N
  <2>7. QED
    BY <2>5, <2>6
<1>6. PICK j \in i..N : patch[j].tag \in {"=", "-"} /\ \A k \in i..j : patch[k].tag # "@"
  BY <1>1, <1>5 DEF EndsInOldLines, N
<1>7. i \in 1..N /\ j \in 1..N /\ j - 1 \in Nat /\ i <= j
  BY <1>1 DEF N
<1> DEFINE T == {n \in Nat : i - 1 <= n => R[n].end = R[i-1].end /\ R[n].next >= R[i-1].next}
<1>8. 0 \in T
  <2>1. i - 1 <= 0 => i - 1 = 0
    BY <1>7
  <2>2. R[i-1].next \in Nat
    BY <1>1, <1>2, <1>7
  <2>3. QED
    BY <2>1, <2>2
<1>9. ASSUME NEW n \in 1..(j-1), n - 1 \in T
      PROVE  n \in T
  <2>1. CASE i - 1 = n
    BY <2>1, <1>1, <1>2, <1>7
  <2>2. CASE i <= n
    <3>1. n \in 1..N /\ n - 1 \in 0..N /\ n \in i..j /\ i - 1 \in 0..N
      BY <1>1, <1>7, <2>2
    <3>2. R[n].end = R[n-1].end /\ R[n].next >= R[n-1].next
      BY <1>4, <1>6, <3>1
    <3>3. R[n-1].end = R[i-1].end /\ R[n-1].next >= R[i-1].next
      BY <1>7, <1>9, <2>2
    <3>4. R[n].next \in Nat /\ R[n-1].next \in Nat /\ R[i-1].next \in Nat
      BY <1>2, <3>1
    <3>5. QED
      BY <3>2, <3>3, <3>4
  <2>3. CASE n < i - 1
    BY <2>3, <1>7
  <2>4. QED
    BY <1>7, <2>1, <2>2, <2>3
<1> HIDE DEF T
<1>10. \A n \in 0..(j-1) : n \in T
  BY <1>7, <1>8, <1>9, RangeInduction
<1>11. R[j-1].end = R[i-1].end /\ R[j-1].next >= R[i-1].next
  BY <1>7, <1>10 DEF T
<1>12. R[j-1].next < R[j-1].end
  <2>1. R[j-1].end # 0
    BY <1>11 DEF R
  <2>2. QED
    BY <1>3, <1>6, <1>7, <2>1 DEF FitsToken
<1>13. R[i-1].next < R[i-1].end
  <2>1. j - 1 \in 0..N /\ i - 1 \in 0..N
    BY <1>1, <1>7
  <2>2. R[j-1].next \in Nat /\ R[i-1].next \in Nat /\ R[i-1].end \in Nat
    BY <1>2, <2>1
  <2>3. QED
    BY <1>11, <1>12, <2>2
<1>14. QED
  BY <1>13 DEF R

-----------------------------------------------------------------------------
(* The theorems *)

\* apply_patch writes lines, whatever the patch.
THEOREM PatchedTyped ==
  ASSUME NEW lines \in Seq(Lines), NEW patch \in Seq(Tokens)
  PROVE  Patched(lines, patch) \in Seq(Lines)
<1>1. Len(patch) \in 0..Len(patch)
  BY LenProperties
<1>2. Hunks(patch) \in Seq(HunkRecords)
  BY <1>1, ParsedStep DEF Hunks, Parsers
<1>3. QED
  BY <1>2, AllAppliedTyped DEF Patched

\* A patch made for the lines leads to the lines it was made for, if its new lines
\* are followed by old ones (filesystem.py:174-211).
THEOREM PatchLands ==
  ASSUME NEW lines \in Seq(Lines), NEW patch \in Seq(Tokens),
         Fits(lines, patch), EndsInOldLines(patch)
  PROVE  Patched(lines, patch) = Intended(lines, patch)
<1> DEFINE P == Parsed(patch)
           R == Reading(lines, patch)
           N == Len(patch)
           S == {n \in Nat : Lockstep(lines, P[n], R[n])}
<1>1. N \in Nat /\ DOMAIN patch = 1..N /\ \A i \in 1..N : patch[i] \in Tokens
  BY ElementOfSeq, LenProperties
<1>2. /\ \A i \in 0..N : P[i] \in Parsers
      /\ P[0] = [left |-> 0, hunks |-> <<>>]
      /\ \A i \in 1..N : P[i] = ParseToken(P[i-1], patch[i])
  BY ParsedStep
<1>3. /\ \A i \in 0..N : R[i] \in Readers(lines)
      /\ R[0] = [out |-> <<>>, next |-> 1, end |-> 0]
      /\ \A i \in 1..N : R[i] = ReadToken(lines, R[i-1], patch[i])
  BY ReadingStep
<1>4. (\A i \in 1..N : FitsToken(lines, R[i-1], patch[i])) /\ R[N].next = R[N].end
  BY <1>1 DEF Fits
<1>5. \A i \in 1..N : patch[i].tag = "+" /\ R[i-1].end # 0 => R[i-1].next < R[i-1].end
  BY RoomForNewLine
<1> HIDE DEF P, R, N
<1>6. 0 \in S
  BY <1>2, <1>3 DEF Lockstep
<1>7. ASSUME NEW n \in 1..N, n - 1 \in S
      PROVE  n \in S
  <2>1. /\ P[n-1] \in Parsers /\ R[n-1] \in Readers(lines) /\ patch[n] \in Tokens
        /\ Lockstep(lines, P[n-1], R[n-1])
    BY <1>1, <1>2, <1>3, <1>7
  <2>2. FitsToken(lines, R[n-1], patch[n])
    BY <1>4
  <2>3. CASE patch[n].tag = "@"
    BY <2>1, <2>2, <2>3, <1>2, <1>3, LockstepHeader
  <2>4. CASE patch[n].tag \in {"=", "-", "+"} /\ R[n-1].end # 0
    <3>1. R[n-1].next < R[n-1].end
      BY <1>5, <2>2, <2>4 DEF FitsToken
    <3>2. QED
      BY <2>1, <2>4, <3>1, <1>2, <1>3, LockstepLine
  <2>5. CASE patch[n].tag # "@" /\ (patch[n].tag = "\\" \/ R[n-1].end = 0)
    BY <2>1, <2>5, <1>2, <1>3, LockstepOther
  <2>6. QED
    BY <2>1, <2>3, <2>4, <2>5, TokenTypes
<1> HIDE DEF S
<1>8. \A n \in 0..N : n \in S
  BY <1>1, <1>6, <1>7, RangeInduction
<1>9. P[N] \in Parsers /\ R[N] \in Readers(lines) /\ Lockstep(lines, P[N], R[N])
  BY <1>1, <1>2, <1>3, <1>8 DEF S
<1>10. P[N].left = 0
  <2>1. CASE P[N] = [left |-> 0, hunks |-> <<>>]
    BY <2>1
  <2>2. ASSUME NEW hs, NEW h, NEW pre, OpenHunk(lines, P[N], R[N], hs, h, pre)
        PROVE  P[N].left = 0
    <3>1. R[N].next + P[N].left = R[N].end
      BY <2>2 DEF OpenHunk
    <3>2. P[N].left \in Nat /\ R[N].next \in Nat
      BY <1>9 DEF Parsers, Readers
    <3>3. QED
      BY <1>4, <3>1, <3>2
  <2>3. QED
    BY <1>9, <2>1, <2>2 DEF Lockstep
<1>11. Between(lines, P[N], R[N])
  BY <1>9, <1>10, HunkOver
<1> DEFINE next == R[N].next
           rest == SubSeq(lines, next, Len(lines))
<1>12. next \in 1..(Len(lines) + 1) /\ Len(lines) \in Nat
  BY <1>11, LenProperties DEF Between
<1>13. rest \in Seq(Lines)
  BY <1>12, SubSeqTyped
<1>14. SubSeq(lines, 1, next - 1) \o rest = lines
  <2>1. /\ 1 \in 1..(Len(lines)+1) /\ next - 1 \in (1-1)..Len(lines)
        /\ Len(lines) \in (next-1)..Len(lines) /\ (next - 1) + 1 = next
    BY <1>12
  <2> HIDE DEF next
  <2>2. SubSeq(lines, 1, next - 1) \o SubSeq(lines, (next - 1) + 1, Len(lines)) = SubSeq(lines, 1, Len(lines))
    BY <2>1, ConcatAdjacentSubSeq
  <2>3. QED
    BY <2>1, <2>2, SubSeqFull
<1>15. AllApplied(SubSeq(lines, 1, next - 1) \o rest, P[N].hunks) = R[N].out \o rest
  BY <1>11, <1>13 DEF Between
<1>16. QED
  BY <1>14, <1>15 DEF Patched, Hunks, Intended, P, R, N
=============================================================================
