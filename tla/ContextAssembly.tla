-------------------------- MODULE ContextAssembly --------------------------
(***************************************************************************)
(* How search results become a context: the token estimate, the formatter  *)
(* with its sections, the greedy selection of assemble_context_with_budget *)
(* and the compression of what it skipped.                                 *)
(*                                                                         *)
(* A text is what the code decides by: its number of characters, and the   *)
(* memories it shows in their order.  The fixed parts of a text have the   *)
(* lengths of the source's literals.  Of the opt-in metadata the type is   *)
(* modelled, the other parts are appended the same way.                    *)
(*                                                                         *)
(*   an item    [f: fact, ty: type, n: characters of its content]          *)
(*   an option  [format, sections, types: BOOLEAN, max, reserved,          *)
(*               mode, summary, header: BOOLEAN]                           *)
(***************************************************************************)
EXTENDS Integers, Sequences, SequencesExt, FiniteSetsExt

Monus(a, b) == IF a > b THEN a - b ELSE 0
Least(a, b) == IF a < b THEN a ELSE b

\* SimpleTokenEstimator: ceil(chars / 4).
EstimateTokens(chars) == (chars + 3) \div 4

-----------------------------------------------------------------------------
(* ContextFormatter. *)

SECTION_ORDER == <<"profile", "preference", "project", "skill", "task",
                   "entity", "conversation", "system">>

TitleChars ==
  [profile |-> 7, preference |-> 11, project |-> 8, skill |-> 6, task |-> 5,
   entity |-> 8, conversation |-> 12, system |-> 6]
LabelChars ==
  [profile |-> 7, preference |-> 10, project |-> 7, skill |-> 5, task |-> 4,
   entity |-> 6, conversation |-> 12, system |-> 6]

EmptyMessage == [order |-> <<>>, chars |-> 37, empty |-> TRUE]

TotalChars(lengths) == FoldLeft(LAMBDA sum, n : sum + n, 0, lengths)

\* Texts joined with a separator of sep characters.
Joined(lengths, sep) == TotalChars(lengths) + sep * Monus(Len(lengths), 1)

Mapped(s, Op(_)) == [i \in DOMAIN s |-> Op(s[i])]

\* type=<label>, or nothing.
MetadataChars(item, opt) == IF opt.types THEN 5 + LabelChars[item.ty] ELSE 0

\* Both text formats write "- content"; their suffixes differ in brackets.
PlainLine(item, opt) ==
  2 + item.n + IF opt.types THEN 3 + MetadataChars(item, opt) ELSE 0
MarkdownLine(item, opt) ==
  2 + item.n + IF opt.types THEN 5 + MetadataChars(item, opt) ELSE 0
JsonObject(item, opt) ==
  14 + item.n + IF opt.types THEN 17 + LabelChars[item.ty] ELSE 0

\* The non-empty sections, in SECTION_ORDER; a section keeps the ranking.
SectionsOf(items) ==
  LET of(ty) == SelectSeq(items, LAMBDA item : item.ty = ty)
  IN  SelectSeq(Mapped(SECTION_ORDER, of), LAMBDA section : section # <<>>)

\* is_legacy_plain: the default options.
IsLegacyPlain(opt) ==
  opt.format = "plain_text" /\ ~opt.sections /\ ~opt.types

FormatPlain(items, opt) ==
  LET line(item) == PlainLine(item, opt)
      block(section) ==
        Joined(<<TitleChars[section[1].ty] + 1>> \o Mapped(section, line), 1)
  IN  IF IsLegacyPlain(opt) THEN Joined(<<28>> \o Mapped(items, line), 1)
      ELSE IF opt.sections THEN Joined(Mapped(SectionsOf(items), block), 2)
      ELSE Joined(Mapped(items, line), 1)

FormatMarkdown(items, opt) ==
  LET line(item) == MarkdownLine(item, opt)
      block(section) ==
        Joined(<<TitleChars[section[1].ty] + 3>> \o Mapped(section, line), 1)
  IN  IF opt.sections THEN Joined(Mapped(SectionsOf(items), block), 2)
      ELSE Joined(Mapped(items, line), 1)

FormatJson(items, opt) ==
  LET object(item) == JsonObject(item, opt)
      list(s) == Joined(Mapped(s, object), 1)
      section(s) == 25 + TitleChars[s[1].ty] + list(s)
  IN  15 + IF opt.sections THEN Joined(Mapped(SectionsOf(items), section), 1)
                           ELSE list(items)

Format(items, opt) ==
  IF items = <<>> THEN EmptyMessage
  ELSE LET shown == IF opt.sections THEN FlattenSeq(SectionsOf(items)) ELSE items
       IN  [order |-> Mapped(shown, LAMBDA item : item.f),
            chars |-> CASE opt.format = "plain_text" -> FormatPlain(items, opt)
                        [] opt.format = "markdown" -> FormatMarkdown(items, opt)
                        [] opt.format = "json" -> FormatJson(items, opt),
            empty |-> FALSE]

-----------------------------------------------------------------------------
(* ContextBudget and ContextCompressionOptions. *)

MAX_CONTEXT_MAX_TOKENS == 16000
MAX_SUMMARY_MAX_TOKENS == 2000

AvailableTokens(opt) == Monus(opt.max, opt.reserved)

BudgetValid(opt) ==
  opt.reserved < opt.max /\ opt.max <= MAX_CONTEXT_MAX_TOKENS

CompressionEnabled(opt) == opt.mode # "disabled"

CompressionValid(opt) ==
  /\ opt.summary \in 1..MAX_SUMMARY_MAX_TOKENS
  /\ CompressionEnabled(opt) => opt.summary <= AvailableTokens(opt)

\* validate_build_context_request checks what the engine checks again.
OptionsValid(opt) == BudgetValid(opt) /\ CompressionValid(opt)

-----------------------------------------------------------------------------
(* Compression. *)

MAX_BULLET_CHARS == 200

\* A longer content is cut and ends in "...".
BulletContent(n) == IF n <= MAX_BULLET_CHARS THEN n ELSE MAX_BULLET_CHARS + 3

\* format_summary_text of bullets with these lengths.
SummaryText(bullets, opt) ==
  LET line(n) == n + 2
      head(chars) == IF opt.header THEN <<chars>> ELSE <<>>
  IN  CASE bullets = <<>> -> 0
        [] opt.format = "json" -> 14 + Joined(Mapped(bullets, line), 1)
        [] opt.format = "markdown" ->
             Joined(head(28) \o Mapped(bullets, line), 1)
        [] OTHER -> Joined(head(26) \o Mapped(bullets, line), 1)

\* CompressedContext: chars of text, summarized_memories, bullets.
Compressed(bullets, count, opt) ==
  [chars |-> SummaryText(bullets, opt), count |-> count]

\* Mutant: the bullet that does not fit is kept.
CompressOneMore(items, maxTokens, opt) ==
  LET bullets == Mapped(items, LAMBDA item : BulletContent(item.n))
      fits(k) == EstimateTokens(SummaryText(SubSeq(bullets, 1, k), opt))
                   <= maxTokens
      kept == Max({k \in 0..Len(items) : \A j \in 1..k : fits(j)})
  IN  Compressed(SubSeq(bullets, 1, Least(kept + 1, Len(items))),
                 Least(kept + 1, Len(items)), opt)

\* SimpleContextCompressor: bullets up to the first that does not fit.
Compress(items, maxTokens, opt) ==
  LET bullets == Mapped(items, LAMBDA item : BulletContent(item.n))
      fits(k) == EstimateTokens(SummaryText(SubSeq(bullets, 1, k), opt))
                   <= maxTokens
      kept == Max({k \in 0..Len(items) : \A j \in 1..k : fits(j)})
  IN  Compressed(SubSeq(bullets, 1, kept), kept, opt)

\* wrap_provider_summary: the parts of the provider's answer, however long,
\* count for all the memories that were sent.
WrapProviderSummary(parts, items, opt) == Compressed(parts, Len(items), opt)

EffectiveSummaryBudget(available, used, summaryMax) ==
  Least(summaryMax, Monus(available, used))

\* merge_json_context inserts ,"compressed_summary": before the bullets.
MergeJsonContext(main, chars) == main.chars + chars + 22

\* merge_context_with_summary.
MergeContext(main, chars, opt) ==
  [main EXCEPT !.chars = IF opt.format = "json" THEN MergeJsonContext(main, chars)
                                                ELSE main.chars + chars + 2]

-----------------------------------------------------------------------------
(* assemble_context_with_budget. *)

\* estimate_context_tokens.
ContextTokens(items, opt) ==
  IF items = <<>> THEN 0 ELSE EstimateTokens(Format(items, opt).chars)

\* token_delta_for_addition.
TokenDelta(items, item, opt) ==
  Monus(ContextTokens(Append(items, item), opt), ContextTokens(items, opt))

MemoryAvailable(opt) ==
  Monus(AvailableTokens(opt),
        IF CompressionEnabled(opt) THEN Least(opt.summary, AvailableTokens(opt))
                                   ELSE 0)

\* In rank order, each memory that still fits.
Select(items, opt) ==
  LET step(acc, item) ==
        IF ContextTokens(acc.included, opt)
             + TokenDelta(acc.included, item, opt) <= MemoryAvailable(opt)
        THEN [acc EXCEPT !.included = Append(@, item)]
        ELSE [acc EXCEPT !.skipped = Append(@, item)]
  IN  FoldLeft(step, [included |-> <<>>, skipped |-> <<>>], items)

NoCompression == [mode |-> "disabled", count |-> 0, tokens |-> 0]

\* The context with its usage.
Assembled(sel, doc, compression, opt) ==
  [included |-> sel.included, skipped |-> sel.skipped, doc |-> doc,
   used |-> Least(EstimateTokens(doc.chars), AvailableTokens(opt)),
   compression |-> compression]

\* The summary of the skipped memories joins the context.
WithSummary(sel, doc, summary, mode, tokens, opt) ==
  Assembled(sel,
            IF doc.empty THEN [EmptyMessage EXCEPT !.chars = summary.chars,
                                                   !.empty = FALSE]
                         ELSE MergeContext(doc, summary.chars, opt),
            [mode |-> mode, count |-> summary.count, tokens |-> tokens], opt)

\* SimpleExtractive compresses on the spot, in what the memories left over.
AssembleContext(items, opt) ==
  LET sel    == Select(items, opt)
      doc    == Format(sel.included, opt)
      budget == EffectiveSummaryBudget(AvailableTokens(opt),
                                       ContextTokens(sel.included, opt),
                                       opt.summary)
      summary == Compress(sel.skipped, budget, opt)
  IN  IF items = <<>>
      THEN [Assembled(sel, EmptyMessage, NoCompression, opt)
              EXCEPT !.used = EstimateTokens(EmptyMessage.chars)]
      ELSE IF /\ opt.mode = "simple_extractive"
              /\ sel.skipped # <<>> /\ budget > 0 /\ summary.chars > 0
      THEN WithSummary(sel, doc, summary, opt.mode,
                       Least(EstimateTokens(summary.chars), budget), opt)
      ELSE Assembled(sel, doc, NoCompression, opt)

\* What build_context_uncached gives the summarizer, from the tokens reported.
ProviderBudget(asm, opt) ==
  EffectiveSummaryBudget(AvailableTokens(opt), asm.used, opt.summary)

\* apply_provider_compression_summary.
ApplyProviderSummary(asm, summary, mode, opt) ==
  IF summary.chars = 0 THEN asm
  ELSE WithSummary([included |-> asm.included, skipped |-> asm.skipped],
                   asm.doc, summary, mode, EstimateTokens(summary.chars), opt)

-----------------------------------------------------------------------------
(* What an assembled context must be. *)

\* Every memory found is included or skipped, in rank order; the text shows
\* each included one once, and those of a section in rank order.
Whole(asm, items) ==
  LET rank(f) == CHOOSE i \in DOMAIN items : items[i].f = f
      ids(s) == {s[i].f : i \in DOMAIN s}
      order == asm.doc.order
  IN  /\ ids(asm.included) \cap ids(asm.skipped) = {}
      /\ ids(asm.included) \cup ids(asm.skipped) = ids(items)
      /\ Len(order) = Len(asm.included) /\ ToSet(order) = ids(asm.included)
      /\ \A i, j \in DOMAIN order :
           /\ i < j
           /\ items[rank(order[i])].ty = items[rank(order[j])].ty
           => rank(order[i]) < rank(order[j])

\* By how many tokens a merge may pass the budget: the separator's.
Slack(asm, opt) ==
  CASE asm.compression.mode = "disabled" \/ asm.included = <<>> -> 0
    [] opt.format = "json" -> 6
    [] OTHER -> 1

\* The text respects the budget, but for the message that nothing was found,
\* for the separator of a merged summary and for what a provider wrote.
Fits(asm, opt) ==
  \/ asm.doc = EmptyMessage
  \/ asm.compression.mode = "provider_summary"
  \/ EstimateTokens(asm.doc.chars) <= AvailableTokens(opt) + Slack(asm, opt)

\* No skipped memory would have fitted beside the included ones.
Full(asm, opt) ==
  \A i \in DOMAIN asm.skipped :
    ContextTokens(Append(asm.included, asm.skipped[i]), opt)
      > MemoryAvailable(opt)

=============================================================================
