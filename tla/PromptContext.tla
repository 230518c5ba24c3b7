---------------------------- MODULE PromptContext ----------------------------
(***************************************************************************)
(* What an AI commit tells Codex of the staged files, in a bounded number  *)
(* of bytes.  A text is a sequence of characters, and only the bytes they  *)
(* take once escaped matter; the markup around them is a number of bytes.  *)
(***************************************************************************)
EXTENDS SequencesExt, FiniteSetsExt, Functions, Integers

CONSTANTS
  Budget,         \* MAX_AI_COMMIT_CONTEXT_BYTES
  PreludeLength,  \* repository, branch and number of files, without subjects
  SubjectsMarkup, \* around the recent subjects
  SubjectsOmitted, \* the note that they were left out
  FileFooter,     \* around a diff
  EntryEnd,       \* after a header without a diff
  ContextFooter,
  Omission,       \* the note inside a diff that was cut
  Reserve         \* room for the note on omitted files

(***************************************************************************)
(* A request: the staged files, each with the length of its header and its *)
(* diff, and the lengths of the subjects of recent commits.                *)
(***************************************************************************)
EscapedCharLen(character) ==
  CASE character = "&" -> 5
    [] character \in {"<", ">"} -> 4
    [] character \in {"quote", "apostrophe"} -> 6
    [] character = "ascii" -> 1
    [] character = "emoji" -> 4

Total(lengths) == FoldLeft(+, 0, lengths)
EscapedLen(text) == Total([i \in DOMAIN text |-> EscapedCharLen(text[i])])
EscapedLenCapped(text, cap) == Min({EscapedLen(text), cap})

ContextPrelude(request, recent) ==
  PreludeLength
    + IF recent
      THEN SubjectsMarkup + Total([i \in DOMAIN request.subjects |-> request.subjects[i] + 3])
      ELSE SubjectsOmitted

CompleteContextLen(prelude, headers, lengths) ==
  prelude + Total(headers) + Total(lengths) + FileFooter * Len(headers) + ContextFooter

(***************************************************************************)
(* Every file gets an equal share of the bytes; what a shorter diff leaves *)
(* over is shared again among the longer ones.                             *)
(***************************************************************************)
RECURSIVE Share(_, _, _)
Share(lengths, pending, remaining) ==
  LET share == remaining \div Len(pending)
      completed == SelectSeq(pending, LAMBDA i : lengths[i] <= share)
      Position(i) == SelectInSeq(pending, LAMBDA j : j = i) - 1
  IN  IF pending = <<>> THEN [i \in DOMAIN lengths |-> lengths[i]]
      ELSE IF completed = <<>>
      THEN [i \in DOMAIN lengths |->
             IF i \notin Range(pending) THEN lengths[i]
             ELSE share + IF Position(i) < remaining % Len(pending) THEN 1 ELSE 0]
      ELSE Share(lengths, SelectSeq(pending, LAMBDA i : lengths[i] > share),
                 remaining - Total([k \in DOMAIN completed |-> lengths[completed[k]]]))

\* Mutant: each file gets its share of the whole and the rest is left unused.
ShareOnce(lengths, budget) ==
  [i \in DOMAIN lengths |-> Min({lengths[i], budget \div Len(lengths)})]

FairAllocations(lengths, budget) == Share(lengths, [i \in DOMAIN lengths |-> i], budget)

(***************************************************************************)
(* A diff that does not fit shows its first and its last characters.  A    *)
(* sample is how many characters of each end it shows and its bytes.       *)
(***************************************************************************)
EscapeWithBudget(text, budget) ==
  Max({n \in 0 .. Len(text) : EscapedLen(SubSeq(text, 1, n)) <= budget})

EscapedSuffixWithBudget(text, budget) ==
  Max({n \in 0 .. Len(text) : EscapedLen(SubSeq(text, Len(text) - n + 1, Len(text))) <= budget})

SampleEscaped(text, budget) ==
  LET content == budget - Omission
      prefix == EscapeWithBudget(text, (content + 1) \div 2)
      suffix == EscapedSuffixWithBudget(text, content \div 2)
  IN  IF EscapedLenCapped(text, budget + 1) <= budget
      THEN [prefix |-> Len(text), suffix |-> 0, length |-> EscapedLen(text)]
      ELSE IF budget <= Omission THEN [prefix |-> 0, suffix |-> 0, length |-> 0]
      ELSE [prefix |-> prefix, suffix |-> suffix,
            length |-> Omission + EscapedLen(SubSeq(text, 1, prefix))
                         + EscapedLen(SubSeq(text, Len(text) - suffix + 1, Len(text)))]

RenderContext(request, prelude, allocations) ==
  LET samples == [i \in DOMAIN request.files |->
                    SampleEscaped(request.files[i].diff, allocations[i])]
      headers == [i \in DOMAIN request.files |-> request.files[i].header]
  IN  [samples |-> samples, omitted |-> 0,
       length |-> CompleteContextLen(prelude, headers,
                    [i \in DOMAIN samples |-> samples[i].length])]

\* With too many files even for their names: the first ones, and how many more.
ManifestContext(request, prelude) ==
  LET Entries(n) == Total([i \in 1 .. n |-> request.files[i].header + EntryEnd])
      included == Max({n \in 0 .. Len(request.files) :
                         \A k \in 1 .. n : prelude + Entries(k) + ContextFooter + Reserve <= Budget})
  IN  [samples |-> <<>>, omitted |-> Len(request.files) - included,
       length |-> prelude + Entries(included) + Reserve + ContextFooter]

PromptContext(request) ==
  LET files == request.files
      headers == [i \in DOMAIN files |-> files[i].header]
      lengths == [i \in DOMAIN files |-> EscapedLenCapped(files[i].diff, Budget + 1)]
      complete == ContextPrelude(request, TRUE)
      compact == ContextPrelude(request, FALSE)
      fixed == CompleteContextLen(compact, headers, [i \in DOMAIN files |-> 0])
  IN  IF CompleteContextLen(complete, headers, lengths) <= Budget
      THEN RenderContext(request, complete, lengths)
      ELSE IF fixed <= Budget
      THEN RenderContext(request, compact, FairAllocations(lengths, Budget - fixed))
      ELSE ManifestContext(request, compact)
=============================================================================
