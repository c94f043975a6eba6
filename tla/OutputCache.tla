----------------------------- MODULE OutputCache -----------------------------
(***************************************************************************)
(* The tool output cache: the texts of a tool's result are stored for the   *)
(* session, the model sees previews of them, and the cached output tools    *)
(* read on, by range, page, section, pattern or meaning.                    *)
(*                                                                          *)
(* A text is its length, its locators and its chunks; a piece of it is a    *)
(* half-open interval of character offsets.  Chunks and locators come from  *)
(* the chunkers, matches from the regex library and the order of chunks     *)
(* from the ranking pipeline: all of them are inputs.                        *)
(***************************************************************************)
EXTENDS Integers, Sequences, FiniteSets, SequencesExt, FiniteSetsExt

CONSTANTS
  Sessions,      \* sessions of one deployment
  Contents,      \* content ids, each given once
  Texts,         \* texts of tool results: [len, pages, sections, chunks]
  Batches,       \* results of a tool: sequences of Texts
  Requests,      \* what the model asks of the tools
  NoContent,     \* no such content, or it has expired
  NoReceipt,     \* a text of a result that was not stored
  Open,          \* a bound of a range that is not given
  MaxChars,      \* _DEFAULT_MAX_CHARS
  PerPreview, TotalPreview,  \* preview_per_char_budget, preview_total_char_budget
  Marker,        \* length of _TRUNCATION_MARKER
  PerWindow, TotalWindow,    \* read_window_char_budget, read_total_char_budget
  PerChunk, TotalChunk,      \* semantic_search_window_ and _total_char_budget
  TotalRegex, SideRegex      \* regex_total_ and regex_context_side_char_budget

\* What the budgets must be; the run's module assumes it.
Parameters ==
  /\ {MaxChars, PerPreview, TotalPreview, PerWindow, TotalWindow} \subseteq Nat \ {0}
  /\ {PerChunk, TotalChunk, TotalRegex, Marker} \subseteq Nat \ {0}
  /\ SideRegex \in Nat

VARIABLES
  cache,   \* content id -> NoContent, or [session, text]: the Redis items
  given,   \* content ids given so far
  answer   \* the last result: [kind, session, ...]

vars == <<cache, given, answer>>

Total(s) == FoldLeft(LAMBDA a, x : a + x, 0, s)
Min2(a, b) == IF a < b THEN a ELSE b
Max2(a, b) == IF a > b THEN a ELSE b
Distinct(s) == FoldLeft(LAMBDA got, x : IF Contains(got, x) THEN got ELSE Append(got, x), << >>, s)

-----------------------------------------------------------------------------
(* Previews                                                                 *)

\* The places of a sequence of sizes, smallest first, ties in order.
Ascending(sizes) ==
  SortSeq([i \in DOMAIN sizes |-> i],
          LAMBDA i, j : sizes[i] < sizes[j] \/ (sizes[i] = sizes[j] /\ i < j))

\* One place in order: its size if that is within the fair share of what remains;
\* else it and all after it get the share, and the first ones a character more.
Grant(b, desired, ordered, p) ==
  LET pending == Len(ordered) - p + 1
      share == b.left \div pending
      extra == b.left % pending
  IN CASE b.done -> b
       [] ~b.done /\ desired[ordered[p]] <= share ->
            [b EXCEPT !.of[ordered[p]] = desired[ordered[p]], !.left = @ - desired[ordered[p]]]
       [] OTHER ->
            [b EXCEPT !.done = TRUE,
                      !.of = [i \in DOMAIN @ |->
                                IF \E q \in p..(p + extra - 1) : ordered[q] = i THEN share + 1
                                ELSE IF \E q \in p..Len(ordered) : ordered[q] = i THEN share ELSE @[i]]]

\* _preview_budget_calc
Budgets(lens) ==
  LET desired == [i \in DOMAIN lens |-> Min2(lens[i], PerPreview)]
      ordered == Ascending(desired)
      start == [of |-> [i \in DOMAIN lens |-> 0], left |-> TotalPreview, done |-> FALSE]
  IN IF Total(desired) <= TotalPreview THEN desired
     ELSE FoldLeft(LAMBDA b, p : Grant(b, desired, ordered, p), start, [p \in DOMAIN lens |-> p]).of

\* _build_preview_text: the whole text, a head only, or a head, the marker and a tail.
Preview(len, budget) ==
  LET room == budget - Marker
  IN IF len <= budget THEN [head |-> len, tail |-> 0, shown |-> len, truncated |-> FALSE]
     ELSE IF budget <= Marker
          THEN [head |-> Max2(budget, 0), tail |-> 0, shown |-> Max2(budget, 0), truncated |-> TRUE]
          ELSE [head |-> room - room \div 2, tail |-> room \div 2, shown |-> budget, truncated |-> TRUE]

\* ToolOutputCache.process: each text that is not blank is stored, unless it is too long
\* or Redis fails for it; the previews are of all of them.
Process(s, batch) ==
  \E down \in SUBSET DOMAIN batch :
    LET texts == SelectSeq([i \in DOMAIN batch |-> i], LAMBDA i : batch[i].len > 0)
        kept == {i \in Range(texts) : i \notin down /\ batch[i].len <= MaxChars}
        budgets == Budgets([k \in DOMAIN texts |-> batch[texts[k]].len])
    IN /\ texts # << >>
       /\ \E ids \in [kept -> Contents \ given] :
            /\ IsInjective(ids)
            /\ given' = given \cup {ids[i] : i \in kept}
            /\ cache' = [c \in Contents |->
                 IF \E i \in kept : ids[i] = c
                 THEN [session |-> s, text |-> batch[CHOOSE i \in kept : ids[i] = c]] ELSE cache[c]]
            /\ answer' = [kind |-> "previews", session |-> s,
                 items |-> [k \in DOMAIN texts |->
                   [len |-> batch[texts[k]].len, preview |-> Preview(batch[texts[k]].len, budgets[k]),
                    receipt |-> IF texts[k] \in kept THEN ids[texts[k]] ELSE NoReceipt]]]

\* The TTL of an item ends.
Expire(c) ==
  /\ cache[c] # NoContent
  /\ cache' = [cache EXCEPT ![c] = NoContent]
  /\ UNCHANGED <<given, answer>>

-----------------------------------------------------------------------------
(* Windows                                                                  *)

\* ToolContentStore.get
Get(s, c) == IF cache[c] = NoContent \/ cache[c].session # s THEN NoContent ELSE cache[c]

\* _normalize_offset
Offset(v, len, default) ==
  LET at == IF v = Open THEN default ELSE IF v < 0 THEN v + len ELSE v
  IN Min2(Max2(at, 0), len)

\* build_range_window, at most `budget` characters.
Window(c, len, from, to, budget) ==
  LET a == Offset(from, len, 0)
      b == Offset(to, len, len)
  IN [of |-> c, start |-> a, end |-> IF b <= a THEN a ELSE Min2(b, a + budget),
      truncated |-> b - a > budget]

Shown(windows) == Total([i \in DOMAIN windows |-> windows[i].end - windows[i].start])

\* _resolve_budget
Within(remaining, per) == Max2(1, Min2(remaining, per))

\* read_cached_tool_output_by_range
ByRange(s, c, from, to) ==
  answer' = [kind |-> "range", session |-> s,
             windows |-> IF Get(s, c) = NoContent THEN << >>
                         ELSE <<Window(c, cache[c].text.len, from, to, PerWindow)>>]

\* Mutant: a range that is cut does not stop the next one.
goes_on(r, c, range) ==
  LET w == Window(c, cache[c].text.len, range.start, range.end, Within(TotalWindow - r.used, PerWindow))
  IN [windows |-> Append(r.windows, w), used |-> r.used + w.end - w.start, cut |-> FALSE]

\* One range of a page or a section; nothing more of it after a cut.
ReadRange(r, c, range) ==
  LET left == TotalWindow - r.used
      w == Window(c, cache[c].text.len, range.start, range.end, Within(left, PerWindow))
  IN IF r.cut THEN r
     ELSE IF left <= 0 THEN [r EXCEPT !.cut = TRUE]
     ELSE [windows |-> Append(r.windows, w), used |-> r.used + w.end - w.start, cut |-> w.truncated]

\* One page or section: every locator of its name.
ReadNamed(r, c, locators, name) ==
  LET ranges == SelectSeq(locators, LAMBDA l : l.name = name)
      got == FoldLeft(LAMBDA x, range : ReadRange(x, c, range),
                      [windows |-> << >>, used |-> r.used, cut |-> FALSE], ranges)
      item == [name |-> name, windows |-> << >>, reason |-> "none"]
  IN IF TotalWindow - r.used <= 0
     THEN [r EXCEPT !.items = Append(@, [item EXCEPT !.reason = "budget_exhausted"]), !.exhausted = TRUE]
     ELSE IF ranges = << >>
     THEN [r EXCEPT !.items = Append(@, [item EXCEPT !.reason = "not_found"])]
     ELSE [used |-> got.used, exhausted |-> r.exhausted \/ got.cut,
           items |-> Append(r.items, [item EXCEPT !.windows = got.windows,
                                        !.reason = IF got.cut THEN "budget_exhausted" ELSE @])]

\* read_cached_tool_output_by_page and _by_section
ByName(s, c, kind, names) ==
  LET locators == IF kind = "pages" THEN cache[c].text.pages ELSE cache[c].text.sections
      start == [used |-> 0, exhausted |-> FALSE, items |-> << >>]
      missing == [i \in DOMAIN Distinct(names) |->
                    [name |-> Distinct(names)[i], windows |-> << >>, reason |-> "content_not_found"]]
      read == FoldLeft(LAMBDA r, n : ReadNamed(r, c, locators, n), start, Distinct(names))
  IN answer' = [kind |-> kind, session |-> s, of |-> c,
                items |-> IF Get(s, c) = NoContent THEN missing ELSE read.items,
                exhausted |-> Get(s, c) # NoContent /\ read.exhausted]

-----------------------------------------------------------------------------
(* Search                                                                   *)

\* _regex_window_range: the context of a match on both sides, less of it when the
\* budget that remains is small, and the match alone when even that is too long.
Around(len, match, side, left) ==
  LET a == Max2(match.start - side, 0)
      b == Min2(match.end + side, len)
      spare == left - (match.end - match.start)
      start == Max2(match.start - spare \div 2, a)
      after == spare - (match.start - start)
  IN IF b - a <= left THEN [start |-> a, end |-> b]
     ELSE IF spare <= 0 THEN match
     ELSE [start |-> start, end |-> Min2(match.end + after, b)]

\* One match: dropped when the budget is used up or there are enough.
AddMatch(r, c, match, limit, side) ==
  LET left == TotalRegex - Shown(r.windows)
      range == Around(cache[c].text.len, match, side, left)
  IN IF r.stop THEN r
     ELSE IF left <= 0 THEN [r EXCEPT !.exhausted = TRUE, !.stop = TRUE]
     ELSE [r EXCEPT !.windows = Append(@, Window(c, cache[c].text.len, range.start, range.end, Within(left, TotalRegex))),
                    !.matches = Append(@, match),
                    !.stop = Len(r.windows) + 1 >= limit]

\* search_cached_tool_output_by_regex: `found` are the matches in each text.  Ids that
\* have no text are skipped, and not told of.  A note for the properties: `all` counts the
\* matches of the texts that are there, `limit` is the bound that was asked for.
ByRegex(s, ids, found, limit, context) ==
  LET read == SelectSeq(ids, LAMBDA c : Get(s, c) # NoContent)
      In(c) == SelectSeq(found, LAMBDA m : m.end <= cache[c].text.len)
      start == [windows |-> << >>, matches |-> << >>, exhausted |-> FALSE, stop |-> limit <= 0]
      side == IF context = Open THEN SideRegex ELSE Max2(context, 0)
      Scan(r, c) == FoldLeft(LAMBDA x, m : AddMatch(x, c, m, limit, side), r, In(c))
      r == FoldLeft(Scan, start, read)
  IN answer' = [kind |-> "regex", session |-> s, windows |-> r.windows, matches |-> r.matches,
                exhausted |-> r.exhausted, limit |-> limit,
                all |-> Total([i \in DOMAIN read |-> Len(In(read[i]))])]

\* build_source_window: the spans of a chunk, joined by an empty line (2 characters).
Spans(c, chunk, budget) ==
  LET Add(r, k) ==
        LET taken == Total([i \in DOMAIN r.spans |-> r.spans[i].end - r.spans[i].start])
            available == budget - taken - 2 * Len(r.spans)
            span == chunk.spans[k]
            size == Min2(span.end - span.start, available)
            full == k < Len(chunk.spans) /\ taken + size + 2 * Len(r.spans) >= budget
        IN IF r.truncated THEN r
           ELSE IF available <= 0 THEN [r EXCEPT !.truncated = TRUE]
           ELSE [spans |-> Append(r.spans, [start |-> span.start, end |-> span.start + size]),
                 truncated |-> span.end - span.start > available \/ full]
      r == FoldLeft(Add, [spans |-> << >>, truncated |-> FALSE], [k \in DOMAIN chunk.spans |-> k])
  IN [of |-> c, spans |-> r.spans, whole |-> chunk.spans, truncated |-> r.truncated,
      size |-> Total([i \in DOMAIN r.spans |-> r.spans[i].end - r.spans[i].start])
                 + 2 * Max2(Len(r.spans) - 1, 0)]

\* The chunks of the texts that are there, those without text left out.
Candidates(s, ids) ==
  FlattenSeq([i \in DOMAIN ids |->
    IF Get(s, ids[i]) = NoContent THEN << >>
    ELSE LET cs == SelectSeq(cache[ids[i]].text.chunks, LAMBDA k : k.spans # << >>)
         IN [j \in DOMAIN cs |-> [of |-> ids[i], chunk |-> cs[j]]]])

\* search_cached_tool_output_by_semantics: the ranking keeps top_k candidates at most.
ByMeaning(s, ids, limit) ==
  \E order \in BoundedSeq(Range(Candidates(s, ids)), limit) :
    LET Add(r, x) ==
          LET left == TotalChunk - Total([i \in DOMAIN r.items |-> r.items[i].size])
          IN IF left <= 0 THEN [r EXCEPT !.exhausted = TRUE]
             ELSE [r EXCEPT !.items = Append(@, Spans(x.of, x.chunk, Within(left, PerChunk)))]
        r == FoldLeft(Add, [items |-> << >>, exhausted |-> FALSE], order)
    IN /\ IsInjective(order)
       /\ answer' = [kind |-> "meaning", session |-> s, items |-> r.items, exhausted |-> r.exhausted]

-----------------------------------------------------------------------------
(* Structure                                                                *)

\* _build_sections: by path, the last locator of a path counts; a section is in the
\* tree when all above it are.  A path is split at " > ": a title that holds it is two.
Listed(sections) ==
  LET named == {sections[i].name : i \in DOMAIN sections}
      last(p) == CHOOSE l \in Range(sections) :
        \E i \in DOMAIN sections : sections[i] = l /\ l.name = p
                                   /\ \A j \in (i + 1)..Len(sections) : sections[j].name # p
  IN {last(p) : p \in {q \in named : \A n \in 1..Len(q) : SubSeq(q, 1, n) \in named}}

\* inspect_cached_tool_output_structure
Inspect(s, c) ==
  answer' = [kind |-> "structure", session |-> s, of |-> c,
             pages |-> IF Get(s, c) = NoContent THEN {} ELSE Range(cache[c].text.pages),
             sections |-> IF Get(s, c) = NoContent THEN {} ELSE Listed(cache[c].text.sections)]

-----------------------------------------------------------------------------
Init ==
  /\ cache = [c \in Contents |-> NoContent]
  /\ given = {}
  /\ answer = [kind |-> "none"]

\* A cached output tool runs.
Ask(s, q) ==
  /\ UNCHANGED <<cache, given>>
  /\ CASE q.tool = "range" -> ByRange(s, q.of, q.from, q.to)
       [] q.tool \in {"pages", "sections"} -> ByName(s, q.of, q.tool, q.names)
       [] q.tool = "regex" -> ByRegex(s, q.ids, q.found, q.limit, q.context)
       [] q.tool = "meaning" -> ByMeaning(s, q.ids, q.limit)
       [] q.tool = "structure" -> Inspect(s, q.of)

Next ==
  \E s \in Sessions :
    \/ \E b \in Batches : Process(s, b)
    \/ \E q \in Requests : Ask(s, q)
    \/ \E c \in Contents : Expire(c)

Spec == Init /\ [][Next]_vars

-----------------------------------------------------------------------------
(* Properties                                                               *)

\* The previews of a result fit its budget, none is cut while another that is longer by
\* more than a character is shown, and nothing is left of the budget while one is cut
\* below what it may have; a content id is of that very text.
PreviewsFair ==
  answer.kind = "previews" =>
    LET items == answer.items
        shown(i) == items[i].preview.shown
        wants(i) == Min2(items[i].len, PerPreview)
    IN /\ Total([i \in DOMAIN items |-> shown(i)]) <= TotalPreview
       /\ \A i \in DOMAIN items :
            /\ shown(i) <= wants(i)
            /\ items[i].preview.truncated <=> shown(i) < items[i].len
            /\ items[i].receipt \in Contents /\ cache[items[i].receipt] # NoContent =>
                 cache[items[i].receipt].session = answer.session /\ cache[items[i].receipt].text.len = items[i].len
            /\ shown(i) < wants(i) =>
                 /\ \A j \in DOMAIN items : shown(j) <= shown(i) + 1
                 /\ Total([j \in DOMAIN items |-> shown(j)]) = TotalPreview

\* Reading on from the end of a window until one is not cut: all the offsets that come.
ReadOn(len) ==
  LET f[at \in 0..len] ==
        LET w == Window(NoContent, len, at, Open, PerWindow)
        IN (w.start..(w.end - 1)) \cup (IF w.truncated THEN f[w.end] ELSE {})
  IN f

\* Reading by page or section leaves nothing out silently: within the budget, each name
\* has every range of it whole, or a reason; a cut window is the last of its item, and
\* starts where its range does, so that reading on from its end reaches the rest.
NothingSilent ==
  /\ answer.kind \in {"pages", "sections"} /\ Get(answer.session, answer.of) # NoContent =>
       LET text == cache[answer.of].text
           ranges(n) == SelectSeq(IF answer.kind = "pages" THEN text.pages ELSE text.sections,
                                  LAMBDA l : l.name = n)
       IN /\ Total([i \in DOMAIN answer.items |-> Shown(answer.items[i].windows)]) <= TotalWindow
          /\ answer.exhausted <=> \E i \in DOMAIN answer.items : answer.items[i].reason = "budget_exhausted"
          /\ \A i \in DOMAIN answer.items :
               LET w == answer.items[i].windows
                   r == ranges(answer.items[i].name)
               IN /\ Len(w) <= Len(r)
                  /\ \A k \in DOMAIN w : w[k].start = r[k].start /\ (w[k].end = r[k].end \/ k = Len(w))
                  /\ answer.items[i].reason = "none" => Len(w) = Len(r) /\ \A k \in DOMAIN w : w[k].end = r[k].end
                  /\ answer.items[i].reason = "not_found" => r = << >>
  /\ \A c \in Contents : cache[c] # NoContent =>
       \A at \in 0..cache[c].text.len : ReadOn(cache[c].text.len)[at] = at..(cache[c].text.len - 1)

\* A search by pattern stays within its budget and drops no match silently: when it
\* says neither that the budget is used up nor that there are as many as were asked for,
\* every match of the texts that are there has its window; and it says that the budget is
\* used up only when nothing is left of it and a match was dropped.  A match that fits
\* into what is left is shown whole, one that does not is marked cut.  (That the context
\* around a match is cut is not marked, and no id that has no text is told of.)  A
\* chunk's window that is not marked cut has every span whole.
FoundIsShown ==
  /\ answer.kind = "regex" =>
       /\ Shown(answer.windows) <= TotalRegex
       /\ ~answer.exhausted /\ Len(answer.matches) < answer.limit => Len(answer.matches) = answer.all
       /\ answer.exhausted => Shown(answer.windows) = TotalRegex /\ Len(answer.matches) < answer.all
       /\ \A i \in DOMAIN answer.windows :
            LET w == answer.windows[i]
                m == answer.matches[i]
                left == TotalRegex - Shown(SubSeq(answer.windows, 1, i - 1))
            IN /\ w.start <= m.start
               /\ IF m.end - m.start <= left THEN w.end >= m.end ELSE w.truncated
  /\ answer.kind = "meaning" =>
       /\ Total([i \in DOMAIN answer.items |-> answer.items[i].size]) <= TotalChunk
       /\ \A i \in DOMAIN answer.items :
            ~answer.items[i].truncated => answer.items[i].spans = answer.items[i].whole

\* No tool tells a session of another session's content, and a section that the
\* structure lists is one that reading by its path finds.
OwnContent ==
  /\ answer.kind \in {"range", "regex"} =>
       \A i \in DOMAIN answer.windows :
         cache[answer.windows[i].of] # NoContent => cache[answer.windows[i].of].session = answer.session
  /\ answer.kind = "meaning" =>
       \A i \in DOMAIN answer.items :
         cache[answer.items[i].of] # NoContent => cache[answer.items[i].of].session = answer.session
  /\ answer.kind \in {"pages", "sections"} /\ cache[answer.of] # NoContent /\ cache[answer.of].session # answer.session =>
       \A i \in DOMAIN answer.items : answer.items[i].windows = << >>
  /\ answer.kind = "structure" /\ cache[answer.of] # NoContent =>
       /\ cache[answer.of].session # answer.session => answer.pages = {} /\ answer.sections = {}
       /\ \A l \in answer.sections : l \in Range(cache[answer.of].text.sections)
=============================================================================
