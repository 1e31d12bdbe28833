------------------------------- MODULE Chunking -------------------------------
(***************************************************************************)
(* HeadingAwareChunker (src/app/ingestion/chunking.py): Markdown lines are *)
(* gathered into sections, each section gets an anchor, and its text is    *)
(* cut into overlapping windows that each repeat the heading.  A line is   *)
(* its number of tokens and, for a heading, its slug and whether it has a  *)
(* label, for "# #" has none; a slug is the sequence of its hyphenated     *)
(* parts, so "notes" with the suffix "-2" and the slug of "Notes 2" are    *)
(* the same value.                                                         *)
(***************************************************************************)
EXTENDS Integers, Sequences, SequencesExt

CONSTANTS Target, Overlap,  \* target_tokens, overlap_tokens
          Line,             \* lines of a body: [slug, labelled, tokens]
          MaxLines          \* bound on the length of the bodies checked

NoSlug == <<>>
ASSUME TokenAssumption == Target \in Nat \ {0} /\ Overlap \in 0 .. Target - 1
(* The marks of a heading are one of its tokens. *)
ASSUME LineAssumption ==
  \A l \in Line : l.tokens \in Nat /\ (l.slug # NoSlug => l.tokens > 0)

(* The anchor of the section after those with the base slugs in seen. *)
Anchor(slug, seen) ==
  LET occurrence == Len(SelectSeq(seen, LAMBDA s : s = slug)) + 1
  IN  IF occurrence = 1 THEN slug ELSE Append(slug, occurrence)

(* append_current keeps every heading, and text before the first one. *)
Kept(section) == section.heading > 0 \/ section.body > 0

(* append_current, as one more section or none; heading_line is the number *)
(* of its line, 0 for None, and of its tokens.                             *)
Close(sections, current) ==
  IF ~Kept(current) THEN sections
  ELSE Append(sections,
              [current EXCEPT !.anchor =
                 Anchor(current.slug, [n \in DOMAIN sections |-> sections[n].slug])])

Opened(slug, line, heading) ==
  [slug |-> slug, anchor |-> slug, line |-> line, heading |-> heading, body |-> 0]

(* _extract_sections reads line n: one of the text, or the next heading. *)
Read(gathered, n, line) ==
  IF line.slug = NoSlug
  THEN [gathered EXCEPT !.current.body = @ + line.tokens]
  ELSE [sections |-> Close(gathered.sections, gathered.current),
        current |-> Opened(line.slug, n, line.tokens)]

Unread == [sections |-> <<>>, current |-> Opened(<<"preamble">>, 0, 0)]

Gathered(lines) ==
  LET After[n \in 0 .. Len(lines)] ==
        IF n = 0 THEN Unread ELSE Read(After[n - 1], n, lines[n])
  IN  Close(After[Len(lines)].sections, After[Len(lines)].current)

(* Every window repeats the heading. *)
Budget(section) == Target - section.heading

(* The next window starts Overlap tokens before the end of the last. *)
Resume(end) == end - Overlap

(* _chunk_section: the windows [first, last) of a section's text. *)
Windows(section) ==
  LET budget == Budget(section)
      From[start \in 0 .. section.body] ==
        IF start + budget >= section.body
        THEN <<[first |-> start, last |-> section.body]>>
        ELSE <<[first |-> start, last |-> start + budget]>> \o From[Resume(start + budget)]
  IN  IF section.body = 0 THEN <<[first |-> 0, last |-> 0]>> ELSE From[0]

(* The heading leaves room for windows that move on. *)
Fits(section) == section.body > 0 => Budget(section) > Overlap

(* _build_chunk, for each window of section n. *)
ChunksOfSection(section, n) ==
  LET windows == Windows(section)
  IN  [w \in DOMAIN windows |->
         [section |-> n, anchor |-> section.anchor,
          first |-> windows[w].first, last |-> windows[w].last,
          tokens |-> section.heading + windows[w].last - windows[w].first]]

ChunksOf(sections) ==
  FlattenSeq([n \in DOMAIN sections |-> ChunksOfSection(sections[n], n)])

(* The heading fits, and a chunk may name it: DocumentChunk refuses an     *)
(* empty section_label (ingestion/models.py:74).                           *)
Chunkable(document, section) ==
  Fits(section) /\ (section.line > 0 => document[section.line].labelled)

(* chunk: one section that cannot be chunked, or no section, refuses it    *)
(* all; nothing is what a refused document leaves to store.                *)
Chunk(document) ==
  LET sections == Gathered(document)
  IN  IF \A n \in DOMAIN sections : Chunkable(document, sections[n])
      THEN ChunksOf(sections) ELSE <<>>
-----------------------------------------------------------------------------
(* parse_source_text refuses an empty body. *)
SmallBodies ==
  {document \in UNION {[1 .. n -> Line] : n \in 1 .. MaxLines} :
     \E n \in DOMAIN document : document[n].tokens > 0}

Headings(lines) == {n \in DOMAIN lines : lines[n].slug # NoSlug}
Tokens(lines, ns) == SumFunctionOnSet([n \in DOMAIN lines |-> lines[n].tokens], ns)

(* The lines after line n, up to the next heading. *)
TextUnder(lines, n) ==
  {m \in n + 1 .. Len(lines) : \A k \in n + 1 .. m : lines[k].slug = NoSlug}

(* What a section says of the line it starts at, where the preamble's is 0. *)
IsSectionOf(lines, section) ==
  LET n == section.line
  IN  /\ section.slug = IF n = 0 THEN <<"preamble">> ELSE lines[n].slug
      /\ section.heading = IF n = 0 THEN 0 ELSE lines[n].tokens
      /\ section.body = Tokens(lines, TextUnder(lines, n))

(* The sections are the headings in their order, each with exactly the     *)
(* text under it, after the preamble if there is text before the first.    *)
Divides(lines, sections) ==
  /\ \A n \in DOMAIN sections : IsSectionOf(lines, sections[n])
  /\ \A n, m \in DOMAIN sections : n < m => sections[n].line < sections[m].line
  /\ {sections[n].line : n \in DOMAIN sections}
       = Headings(lines) \cup {n \in {0} : Tokens(lines, TextUnder(lines, n)) > 0}

(* No chunk is longer than the target unless it is a heading alone, and    *)
(* none is empty.                                                          *)
WithinTarget(chunks) ==
  \A n \in DOMAIN chunks :
    chunks[n].tokens > 0 /\ (chunks[n].last > 0 => chunks[n].tokens <= Target)

StartsSection(chunk, n) == chunk.section = n /\ chunk.first = 0
EndsSection(sections, chunk) == chunk.last = sections[chunk.section].body

(* The next window of a section, or the first one of the next section. *)
Follows(sections, chunk, next) ==
  \/ /\ next.section = chunk.section
     /\ next.first = chunk.last - Overlap
     /\ next.last > chunk.last
  \/ EndsSection(sections, chunk) /\ StartsSection(next, chunk.section + 1)

(* Nothing of the sections is lost or out of order: the chunks of each     *)
(* follow those of the one before, start at its first token, go on with    *)
(* exactly Overlap tokens of the last window, and end with its last token. *)
Covers(sections, chunks) ==
  /\ StartsSection(chunks[1], 1)
  /\ \A n \in 1 .. Len(chunks) - 1 : Follows(sections, chunks[n], chunks[n + 1])
  /\ EndsSection(sections, chunks[Len(chunks)])
  /\ chunks[Len(chunks)].section = Len(sections)

(* A document is stored whole, in chunks that fit, unless it has nothing   *)
(* to store, or a heading leaves no room or has no label.                  *)
WholeOrRefused(document) ==
  LET sections == Gathered(document)
      chunks == Chunk(document)
  IN  /\ Divides(document, sections)
      /\ chunks # <<>> <=> /\ sections # <<>>
                           /\ \A n \in DOMAIN sections : Chunkable(document, sections[n])
      /\ chunks # <<>> => WithinTarget(chunks) /\ Covers(sections, chunks)
=============================================================================
