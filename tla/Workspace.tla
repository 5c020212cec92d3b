------------------------------ MODULE Workspace ------------------------------
(***************************************************************************)
(* The filesystem tools (tools/filesystem.py).                             *)
(*                                                                         *)
(* They never await, so each call is one step.  A file is a sequence of    *)
(* lines, each with its line end.  A patch is a sequence of tokens: hunk   *)
(* headers, and lines tagged as in a unified diff, those of both sides     *)
(* with "=" (a space there).                                               *)
(***************************************************************************)
EXTENDS Integers, Sequences

CONSTANTS
  Names,           \* paths the model may name
  Usable,          \* those inside the sandbox that are not of a binary type
  Lines,
  Missing,         \* the content of a file that is not there
  InitialDisks     \* the files there may be at first

ASSUME WorkspaceAssumption ==
  /\ Usable \subseteq Names
  /\ InitialDisks \subseteq [Names -> Seq(Lines) \union {Missing}]

VARIABLE disk

FileTools == {"read_file", "write_file", "apply_patch"}

WorkspaceInit == disk \in InitialDisks

Header(start, count) == [tag |-> "@", start |-> start, count |-> count]
Tagged(tag, line)    == [tag |-> tag, line |-> line]

Tokens == [tag : {"@"}, start : Nat, count : Nat]
            \union [tag : {"=", "-", "+", "\\"}, line : Lines]

-----------------------------------------------------------------------------
(* apply_patch *)

\* What a line of the hunk adds to the lines the hunk puts in place of the old ones.
Kept(lines, token) == IF token.tag = "-" THEN lines ELSE Append(lines, token.line)

\* One round of the parser's loops.  `left` is how many old lines the hunk at
\* the end of `hunks` still expects; when there are none, it is over, and lines
\* up to the next header are passed over.
ParseToken(parsed, token) ==
  IF parsed.left = 0
    THEN IF token.tag # "@" THEN parsed
         ELSE [left  |-> token.count,
               hunks |-> Append(parsed.hunks,
                           [start |-> token.start, count |-> token.count, new |-> <<>>])]
    ELSE IF token.tag \notin {"=", "-", "+"} THEN parsed
         ELSE [left  |-> IF token.tag = "+" THEN parsed.left ELSE parsed.left - 1,
               hunks |-> [parsed.hunks EXCEPT ![Len(parsed.hunks)].new = Kept(@, token)]]

\* The parser after each number of tokens.
Parsed(patch) ==
  LET parsed[i \in 0..Len(patch)] ==
        IF i = 0 THEN [left |-> 0, hunks |-> <<>>] ELSE ParseToken(parsed[i-1], patch[i])
  IN parsed

Hunks(patch) == Parsed(patch)[Len(patch)].hunks

Lesser(m, n)  == IF m < n THEN m ELSE n
Greater(m, n) == IF m < n THEN n ELSE m

\* Mutant of Splice: `start` taken for an index from 0.
SpliceOffByOne(h, lines) ==
  LET from == Lesser(h.start, Len(lines))
      to   == Greater(from, Lesser(h.start + h.count, Len(lines))) IN
  SubSeq(lines, 1, from) \o h.new \o SubSeq(lines, to + 1, Len(lines))

\* result_lines[old_start : old_start + old_count] = new_hunk.  An index beyond the
\* end is the end, the index -1 of a hunk at line 0 the last line.  The old lines
\* are not compared with the hunk's.
Splice(h, lines) ==
  LET last == Greater(0, Len(lines) - 1)
      from == IF h.start = 0 THEN last ELSE Lesser(h.start - 1, Len(lines))
      to   == Greater(from, Lesser(h.start + h.count - 1, Len(lines))) IN
  SubSeq(lines, 1, from) \o h.new \o SubSeq(lines, to + 1, Len(lines))

\* The lines after each number of hunks, which are applied from the last to the first.
Applied(lines, hunks) ==
  LET done[n \in 0..Len(hunks)] ==
        IF n = 0 THEN lines ELSE Splice(hunks[Len(hunks) - n + 1], done[n-1])
  IN done

AllApplied(lines, hunks) == Applied(lines, hunks)[Len(hunks)]

Patched(lines, patch) == AllApplied(lines, Hunks(patch))

-----------------------------------------------------------------------------
(* The tools.  Each yields the text it returns. *)

\* _safe_resolve and _check_binary raise for the others, which dispatch turns into a text.
Accessible(name) == name \in Usable

ReadFile(name) ==
  IF Accessible(name) /\ disk[name] # Missing THEN "text" ELSE "error"

WriteFile(name, lines) ==
  IF Accessible(name)
    THEN disk' = [disk EXCEPT ![name] = lines]
    ELSE UNCHANGED disk

PatchAccepted(name, patch) ==
  Accessible(name) /\ disk[name] # Missing /\ Hunks(patch) # <<>>

ApplyPatch(name, patch) ==
  IF PatchAccepted(name, patch)
    THEN disk' = [disk EXCEPT ![name] = Patched(@, patch)]
    ELSE UNCHANGED disk

\* A call by its arguments: whether it succeeds, and what it does.
FileResult(args) ==
  CASE args.tool = "read_file"  -> ReadFile(args.name)
    [] args.tool = "write_file" -> IF Accessible(args.name) THEN "ok" ELSE "error"
    [] OTHER -> IF PatchAccepted(args.name, args.patch) THEN "ok" ELSE "error"

FileEffect(args) ==
  CASE args.tool = "read_file"  -> UNCHANGED disk
    [] args.tool = "write_file" -> WriteFile(args.name, args.lines)
    [] OTHER -> ApplyPatch(args.name, args.patch)

-----------------------------------------------------------------------------
(* What a unified diff means, independently of the code above: it is read once,
   from the first token to the last, beside the lines it was made for *)

\* The line at which the old side of a hunk begins: after line `start` if it is empty.
OldStart(h) == IF h.count = 0 THEN h.start + 1 ELSE h.start

\* `out` is what has been written, `next` the first line not yet passed, `end`
\* the line after the hunk's old side, or 0 before the first hunk.
ReadToken(lines, r, token) ==
  CASE token.tag = "@" ->
         [out  |-> r.out \o SubSeq(lines, r.next, OldStart(token) - 1),
          next |-> OldStart(token),
          end  |-> OldStart(token) + token.count]
    [] token.tag \in {"=", "-", "+"} /\ r.end # 0 ->
         [r EXCEPT !.out  = IF token.tag = "-" THEN @ ELSE Append(@, token.line),
                   !.next = IF token.tag = "+" THEN @ ELSE @ + 1]
    [] OTHER -> r

\* The reader after each number of tokens.
Reading(lines, patch) ==
  LET reading[i \in 0..Len(patch)] ==
        IF i = 0 THEN [out |-> <<>>, next |-> 1, end |-> 0]
                 ELSE ReadToken(lines, reading[i-1], patch[i])
  IN reading

\* A hunk begins where the last one is complete, not before the line reached, and
\* within the file; its old lines are those of the file.
FitsToken(lines, r, token) ==
  /\ token.tag = "@" =>
       /\ r.end \in {0, r.next}
       /\ r.next <= OldStart(token) /\ OldStart(token) + token.count <= Len(lines) + 1
  /\ token.tag \in {"=", "-"} /\ r.end # 0 =>
       r.next < r.end /\ token.line = lines[r.next]

\* The patch was made for these lines, and its last hunk is complete.
Fits(lines, patch) ==
  /\ lines # Missing
  /\ \E i \in DOMAIN patch : patch[i].tag = "@"
  /\ LET reading == Reading(lines, patch) IN
       /\ \A i \in DOMAIN patch : FitsToken(lines, reading[i-1], patch[i])
       /\ reading[Len(patch)].next = reading[Len(patch)].end

\* The lines the patch leads to.
Intended(lines, patch) ==
  LET last == Reading(lines, patch)[Len(patch)] IN
  last.out \o SubSeq(lines, last.next, Len(lines))

\* Each new line of a hunk is followed by an old one of the same hunk, as in a
\* diff with trailing context.
EndsInOldLines(patch) ==
  \A i \in DOMAIN patch :
    patch[i].tag = "+" /\ (\E h \in 1..i : patch[h].tag = "@") =>
      \E j \in i..Len(patch) :
        patch[j].tag \in {"=", "-"} /\ \A k \in i..j : patch[k].tag # "@"
=============================================================================
