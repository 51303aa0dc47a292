------------------------------ MODULE Chunkers ------------------------------
(***************************************************************************)
(* The chunkers: a text and a configuration make drafts of chunks, each    *)
(* with the range of the text it claims to be, and a reviewer who saves    *)
(* what is shown has it cut again from those ranges.                       *)
(*                                                                         *)
(* A text is a sequence of kinds of characters; a heading ("#" and what    *)
(* makes it one) is a single one.  Every character of a draft knows its    *)
(* place in the text, 0 where a chunker has put it in between.  Positions  *)
(* in ranges count from 0, as in the code.                                 *)
(***************************************************************************)
EXTENDS Integers, Sequences
LOCAL INSTANCE FiniteSetsExt
LOCAL INSTANCE SequencesExt

CONSTANTS
  Alphabet(_),  \* the characters of the texts a strategy is tried on
  MaxLength(_), \* the length of the longest of them
  MaxSize       \* bound on sizes of chunks

Strategies == {"char_window", "paragraph", "heading", "sentence", "recursive", "token_aware"}

\* ChunkingConfig, with the checks of __post_init__ and of
\* chunking_config_from_template; parent 0: no parent chunks.  For token_aware
\* size and overlap are max_tokens and token_overlap.
ChunkingConfig ==
  {c \in [strategy: Strategies, size: 1..MaxSize, overlap: 0..(MaxSize - 1), parent: 0..(MaxSize + 1)] :
     /\ c.overlap < c.size
     /\ c.parent # 0 => c.parent > c.size /\ c.strategy # "token_aware"}

VARIABLES
  text, config,
  parents,    \* parent drafts
  drafts,     \* the drafts that are embedded; with parents, the children
  phase

chunkerVars == <<text, config, parents, drafts, phase>>

ChunkersInit ==
  /\ config \in ChunkingConfig
  /\ text \in UNION {[1..n -> Alphabet(config.strategy)] : n \in 0..MaxLength(config.strategy)}
  /\ parents = <<>> /\ drafts = <<>> /\ phase = "text"

-----------------------------------------------------------------------------
(* Strings.                                                                *)

Placed(t) == [i \in DOMAIN t |-> [char |-> t[i], at |-> i]]
Inserted(c) == [char |-> c, at |-> 0]

Blank(c) == c.char \in {"blank", "newline"}
Newline(s, i) == i \in DOMAIN s /\ s[i].char = "newline"

Strip(s) ==
  LET solid == {i \in DOMAIN s : ~ Blank(s[i])}
  IN  IF solid = {} THEN <<>> ELSE SubSeq(s, Min(solid), Max(solid))

\* The intervals that a sorted set of boundaries makes.
Between(boundaries) ==
  LET b == SetToSortSeq(boundaries, <)
  IN  [k \in 1..(Len(b) - 1) |-> <<b[k], b[k + 1]>>]
Slice(s, i) == SubSeq(s, i[1] + 1, i[2])
Pieces(s, boundaries) ==
  LET all == Between({0, Len(s)} \cup boundaries)
  IN  SelectSeq([k \in DOMAIN all |-> Strip(Slice(s, all[k]))], LAMBDA p : p # <<>>)

\* (?<=[.!?])(?=\s|[CJK]|\Z), within lo..hi.
SentenceEnds(s, lo, hi) ==
  {i \in (lo + 1)..hi : s[i].char = "stop" /\ (i = hi \/ Blank(s[i + 1]) \/ s[i + 1].char = "wide")}

\* \n{2,}
ParagraphEnds(s, lo, hi) ==
  {i \in (lo + 2)..hi : Newline(s, i) /\ Newline(s, i - 1) /\ (i = hi \/ ~ Newline(s, i + 1))}

\* ^#{1,6} .+$
HeadingStarts(s, lo, hi) ==
  {i \in lo..(hi - 1) : s[i + 1].char = "heading" /\ (i = lo \/ Newline(s, i))}
LineEnd(s, i) == Min({j \in i..Len(s) : j = Len(s) \/ Newline(s, j + 1)})

Draft(s, start) == [text |-> s, start |-> start, end |-> start + Len(s), parent |-> 0]
Moved(ds, by) == [k \in DOMAIN ds |-> [ds[k] EXCEPT !.start = @ + by, !.end = @ + by]]

-----------------------------------------------------------------------------
(* Plausible slips in the definitions below, used to see that the          *)
(* properties notice them; no specification refers to one.                 *)

WindowStartsTooFar(n, size, overlap) ==
  LET step == size + overlap
  IN  IF n = 0 THEN <<>>
      ELSE [k \in 1..Min({j \in 1..n : (j - 1) * step + size >= n}) |-> (k - 1) * step]
ChildrenUnmoved(p, ds) == ds

-----------------------------------------------------------------------------
(* The strategies.                                                         *)

\* Where windows over n things start: the last one reaches the end.
WindowStarts(n, size, overlap) ==
  LET step == size - overlap
  IN  IF n = 0 THEN <<>>
      ELSE [k \in 1..Min({j \in 1..n : (j - 1) * step + size >= n}) |-> (k - 1) * step]

Upto(m, n) == IF m <= n THEN m ELSE n

Windows(s, c) ==
  LET at == WindowStarts(Len(s), c.size, c.overlap)
  IN  [k \in DOMAIN at |-> Draft(SubSeq(s, at[k] + 1, Upto(at[k] + c.size, Len(s))), at[k])]

\* Short pieces are joined, as long as they fit.
Buckets(pieces, sep, size) ==
  LET Add(b, p) ==
        LET joined == b.current \o sep \o p
        IN  CASE b.current = <<>> -> [b EXCEPT !.current = p]
              [] b.current # <<>> /\ Len(joined) > size ->
                   [done |-> Append(b.done, b.current), current |-> p]
              [] OTHER -> [b EXCEPT !.current = joined]
      end == FoldLeft(Add, [done |-> <<>>, current |-> <<>>], pieces)
  IN  IF end.current = <<>> THEN end.done ELSE Append(end.done, end.current)

\* A bucket is a chunk, or windows if it is too long.  The range of a bucket
\* begins where the lengths of those before it add up to.
Emitted(buckets, c) ==
  LET Emit(out, b) ==
        [drafts |-> out.drafts \o Moved(IF Len(b) <= c.size THEN <<Draft(b, 0)>> ELSE Windows(b, c),
                                        out.cursor),
         cursor |-> out.cursor + Len(b)]
  IN  FoldLeft(Emit, [drafts |-> <<>>, cursor |-> 0], buckets).drafts

Paragraphs(s, c) ==
  Emitted(Buckets(Pieces(s, ParagraphEnds(s, 0, Len(s))),
                  <<Inserted("newline"), Inserted("newline")>>, c.size), c)

Sentences(s, c) ==
  Emitted(Buckets(Pieces(s, SentenceEnds(s, 0, Len(s))), <<Inserted("blank")>>, c.size), c)

\* Sections of a heading and what follows it, a blank line in between.
Headings(s, c) ==
  LET starts == HeadingStarts(s, 0, Len(s))
      spans == Between({0, Len(s)} \cup starts)
      Section(i) ==
        IF i[1] \notin starts THEN Strip(Slice(s, i))
        ELSE LET end == LineEnd(s, i[1] + 1)
             IN  Strip(SubSeq(s, i[1] + 1, end) \o <<Inserted("newline"), Inserted("newline")>>
                         \o Strip(SubSeq(s, end + 1, i[2])))
  IN  Emitted(SelectSeq([k \in DOMAIN spans |-> Section(spans[k])], LAMBDA b : b # <<>>), c)

\* _recursive_boundary_spans: headings, then paragraphs, then sentences.
Spans(s, lo, hi, level) ==
  LET inner == CASE level = 0 -> HeadingStarts(s, lo, hi)
                 [] level = 1 -> ParagraphEnds(s, lo, hi)
                 [] level = 2 -> SentenceEnds(s, lo, hi)
  IN  SelectSeq(Between({lo, hi} \cup inner), LAMBDA i : Strip(Slice(s, i)) # <<>>)

\* append_span: the span without the blanks around it.
Span(s, lo, hi) ==
  LET solid == {i \in (lo + 1)..hi : ~ Blank(s[i])}
  IN  IF solid = {} THEN <<>> ELSE <<Draft(SubSeq(s, Min(solid), Max(solid)), Min(solid) - 1)>>

Recursive(s, c) ==
  LET Windowed(lo, hi) ==
        LET w == Windows(SubSeq(s, lo + 1, hi), c)
        IN  FlattenSeq([k \in DOMAIN w |-> Span(s, lo + w[k].start, lo + w[k].end)])
      split[level \in 0..3, lo \in 0..Len(s), hi \in 0..Len(s)] ==
        LET finer == {m \in level..2 : Len(Spans(s, lo, hi, m)) > 1}
        IN  IF hi - lo <= c.size THEN Span(s, lo, hi)
            ELSE IF finer = {} THEN Windowed(lo, hi)
            ELSE LET parts == Spans(s, lo, hi, Min(finer))
                 IN  FlattenSeq([k \in DOMAIN parts |->
                                   split[Min(finer) + 1, parts[k][1], parts[k][2]]])
  IN  split[0, 0, Len(s)]

\* Words and single other characters.
Tokens(s) ==
  LET starts == {i \in DOMAIN s : ~ Blank(s[i]) /\ ~ (s[i].char = "letter" /\ i > 1
                                                        /\ s[i - 1].char = "letter")}
      End(i) == IF s[i].char # "letter" THEN i
                ELSE Max({j \in i..Len(s) : \A k \in i..j : s[k].char = "letter"})
      at == SetToSortSeq(starts, <)
  IN  [k \in DOMAIN at |-> <<at[k] - 1, End(at[k])>>]

TokenWindows(s, c) ==
  LET tokens == Tokens(s)
      at == WindowStarts(Len(tokens), c.size, c.overlap)
      Extent(k) == <<tokens[at[k] + 1][1], tokens[Upto(at[k] + c.size, Len(tokens))][2]>>
  IN  [k \in DOMAIN at |-> Draft(Slice(s, Extent(k)), Extent(k)[1])]

-----------------------------------------------------------------------------
(* What indexing and the preview call, and the review of what it made.     *)

\* chunk_text
Chunked(s, c) ==
  CASE s = <<>> -> <<>>
    [] s # <<>> /\ c.strategy = "char_window" -> Windows(s, c)
    [] s # <<>> /\ c.strategy = "paragraph" -> Paragraphs(s, c)
    [] s # <<>> /\ c.strategy = "heading" -> Headings(s, c)
    [] s # <<>> /\ c.strategy = "sentence" -> Sentences(s, c)
    [] s # <<>> /\ c.strategy = "recursive" -> Recursive(s, c)
    [] s # <<>> /\ c.strategy = "token_aware" -> TokenWindows(s, c)

\* chunk_text_hierarchical
ParentConfig(c) == [c EXCEPT !.size = c.parent, !.overlap = 0, !.parent = 0]
ChildConfig(c) == [c EXCEPT !.parent = 0]
Children(p, ds) == Moved(ds, p.start)
Family(ps, c) ==
  FlattenSeq([k \in DOMAIN ps |->
    LET ds == Children(ps[k], Chunked(ps[k].text, ChildConfig(c)))
    IN  [j \in DOMAIN ds |-> [ds[j] EXCEPT !.parent = k]]])

Chunk ==
  /\ phase = "text" /\ phase' = "chunked"
  /\ parents' = IF config.parent = 0 THEN <<>> ELSE Chunked(Placed(text), ParentConfig(config))
  /\ drafts' = IF config.parent = 0 THEN Chunked(Placed(text), config) ELSE Family(parents', config)
  /\ UNCHANGED <<text, config>>

\* _validate_drafts
ValidRanges(ds) ==
  /\ ds # <<>>
  /\ \A k \in DOMAIN ds : 0 <= ds[k].start /\ ds[k].start < ds[k].end /\ ds[k].end <= Len(text)
  /\ \A k \in 2..Len(ds) : ds[k - 1].start <= ds[k].start

\* save_override of the drafts as they are, and override_drafts when they are
\* indexed again; with parent chunks no override is taken.
SaveAsShown ==
  /\ phase = "chunked" /\ config.parent = 0
  /\ IF ValidRanges(drafts)
     THEN /\ phase' = "reviewed"
          /\ drafts' = [k \in DOMAIN drafts |->
                          [drafts[k] EXCEPT !.text = SubSeq(Placed(text), drafts[k].start + 1, drafts[k].end)]]
     ELSE phase' = "rejected" /\ UNCHANGED drafts
  /\ UNCHANGED <<text, config, parents>>

ChunkersNext == Chunk \/ SaveAsShown

ChunkersSpec == ChunkersInit /\ [][ChunkersNext]_chunkerVars

-----------------------------------------------------------------------------
(* Properties.                                                             *)

Reads(d) == [i \in DOMAIN d.text |-> d.text[i].char]
Locates(d) == d.end <= Len(text) /\ Reads(d) = SubSeq(text, d.start + 1, d.end)

Exact == config.strategy \in {"char_window", "recursive", "token_aware"}

\* However windows, joints, headings and parents fall, every character that is
\* not blank is in some chunk (test_all_child_text_covers_full_content), and no
\* chunk is longer than asked for, in characters or in tokens.
NothingLost ==
  phase = "chunked" =>
    /\ \A i \in DOMAIN text :
         Blank(Placed(text)[i]) \/ \E k \in DOMAIN drafts : \E j \in DOMAIN drafts[k].text :
           drafts[k].text[j].at = i
    /\ \A k \in DOMAIN drafts :
         IF config.strategy = "token_aware" THEN Len(Tokens(drafts[k].text)) <= config.size
         ELSE Len(drafts[k].text) <= config.size

\* Windows and boundaries of the text itself, parents or not, have ranges that
\* are theirs: what a reviewer saves unchanged is accepted and is the same text
\* when it is indexed again.
ExactRanges ==
  Exact =>
    /\ phase \in {"chunked", "reviewed"} =>
         \A d \in Range(drafts) \cup Range(parents) : Locates(d)
    /\ phase = "rejected" => drafts = <<>>

\* The chunks of a document are its text: all of it, and where they say
\* (chunkers/__init__.py:315, 386).
ChunksAreTheText == NothingLost /\ ExactRanges

\* "regenerating chunk text from the stored source character ranges", "Citation
\* continuity is provided by ... character range"
\* (ragrig-explainable-chunking-p0:49, 54): of every strategy, the range of a
\* chunk is where its text is.
RangesLocate == phase = "chunked" => \A k \in DOMAIN drafts : Locates(drafts[k])
=============================================================================
