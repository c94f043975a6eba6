-------------------------------- MODULE MCLoop --------------------------------
(* The query loop and what its tools answer with, for TLC: the loop           *)
(* (QueryLoop), the cached outputs of its tools (OutputCache), the ranking of  *)
(* what a search finds (Retrieval), and the chunks of a document               *)
(* (MarkdownChunks).  The four share no state: a behaviour is one of each.     *)
EXTENDS MCQueryLoop

CONSTANTS s1, s2, c1, c2, NoContent, NoReceipt, Open

VARIABLES which, cache, given, answer, stage, lists, candidates, allowed, mode,
  policy, doc, progress, parsed, sections, chunks

outputVars == <<cache, given, answer>>
rankVars == <<stage, lists, candidates, allowed, mode>>
loopVars == vars
docVars == <<policy, doc, progress, parsed, sections, chunks>>
allVars == <<which, outputVars, rankVars, loopVars, docVars>>

-----------------------------------------------------------------------------
(* A long text with pages, sections and chunks of two spans, a short one, a   *)
(* blank one and one that is too long to be stored.                           *)

Loc(name, a, b) == [name |-> name, start |-> a, end |-> b]
Plain(n) == [len |-> n, pages |-> << >>, sections |-> << >>, chunks |-> << >>]

Long ==
  [len |-> 9,
   pages |-> <<Loc("1", 0, 2), Loc("2", 2, 6), Loc("1", 6, 8), Loc("3", 8, 9)>>,
   sections |-> <<Loc(<<"A">>, 0, 3), Loc(<<"A", "B">>, 1, 3), Loc(<<"C", "D">>, 3, 5), Loc(<<"A">>, 5, 9)>>,
   chunks |-> <<[spans |-> <<[start |-> 0, end |-> 2], [start |-> 5, end |-> 7]>>],
                [spans |-> <<[start |-> 2, end |-> 5]>>], [spans |-> << >>]>>]

SomeTexts == {Long, Plain(4), Plain(0), Plain(13)}
SomeBatches == {<<t>> : t \in SomeTexts} \cup {<<Long, t, Plain(2)>> : t \in SomeTexts}

\* The matches of a pattern, in order.
SomeFound == {<<Loc("m", 0, 1), Loc("m", 3, 5), Loc("m", 6, 9)>>, <<Loc("m", 1, 8)>>,
              <<Loc("m", 4, 4), Loc("m", 5, 7)>>}

Contents == {c1, c2}
\* Sessions are alike, and so are content ids.
SameSession == Permutations({s1, s2}) \cup Permutations(Contents)

Both == {ids \in [1..2 -> Contents] : ids[1] # ids[2]}

SomeRequests ==
  [tool : {"range"}, of : Contents, from : {Open, -1, 2}, to : {Open, 1, 8}]
    \cup [tool : {"pages"}, of : Contents, names : {<<"1", "2", "1">>, <<"2", "3", "9">>, <<"3", "2", "1">>}]
    \cup [tool : {"sections"}, of : Contents, names : {<< <<"A", "B">>, <<"A">>, <<"C">> >>, << <<"C", "D">>, <<"A">> >>}]
    \cup [tool : {"regex"}, ids : Both, found : SomeFound, limit : {2, 9}, context : {Open, 0, 4}]
    \cup [tool : {"meaning"}, ids : Both, limit : {0, 3}]
    \cup [tool : {"structure"}, of : Contents]

Cached == INSTANCE OutputCache WITH
  Sessions <- {s1, s2}, Texts <- SomeTexts, Batches <- SomeBatches, Requests <- SomeRequests,
  MaxChars <- 12, PerPreview <- 6, TotalPreview <- 10, Marker <- 2, PerWindow <- 3, TotalWindow <- 5,
  PerChunk <- 5, TotalChunk <- 7, TotalRegex <- 6, SideRegex <- 2

-----------------------------------------------------------------------------
(* Two retrievers over four candidates, and answers of the reranking model     *)
(* that are whole, partial, doubled and out of range.                          *)

Item(i, score) == [index |-> i, score |-> score]

SomeRecalls ==
  {s \in BoundedSeq(1..4, 3) : IsInjective(s) /\ (Len(s) = 3 => s[1] < s[3] /\ s[2] # 3)}
SomeResponses ==
  {<<Item(2, 90), Item(1, 90), Item(3, 10)>>, <<Item(2, 60)>>, <<Item(3, 100), Item(2, 30), Item(1, 0)>>,
   <<Item(1, 50), Item(1, 40)>>, <<Item(5, 50)>>, <<Item(1, 101)>>, << >>}

Ranking == INSTANCE Retrieval WITH
  Ids <- 1..4, Recalls <- SomeRecalls, Retrievers <- 2, Responses <- SomeResponses,
  Twins <- {<<1, 2>>, <<3, 4>>}, K <- 0, Unit <- 12, Keep <- 3, TopK <- 2

-----------------------------------------------------------------------------
(* Headings of three levels, captions, and blocks below the target, between    *)
(* the target and the threshold, and above it, of pieces that are small, or    *)
(* too large by themselves.                                                    *)

Block(kind, sizes) == [kind |-> kind, level |-> 0, title |-> "", sizes |-> sizes, label |-> ""]
Heading(level, title) == [Block("section", <<1>>) EXCEPT !.level = level, !.title = title]

SomeBlocks ==
  {Heading(1, "A"), Heading(1, "B"), Heading(2, "A"), Heading(3, "C"), Heading(2, ""), Block("html", <<1>>)}
    \cup {Block("paragraph", s) : s \in {<<1>>, <<3, 2, 17>>}}
    \cup {[Block("paragraph", <<2>>) EXCEPT !.label = "table"]}
    \cup {Block("list", <<2, 2, 1, 1, 7, 1>>), Block("table", <<2, 1, 1, 1, 6>>), Block("code", <<2, 1, 2, 1>>)}

Document == INSTANCE MarkdownChunks WITH
  Blocks <- SomeBlocks, Target <- 4, Threshold <- 6, Header <- 1, RootName <- "start",
  Policies <- {[titled |-> FALSE, joint |-> 1, blocks |-> 4], [titled |-> TRUE, joint |-> 0 - 1, blocks |-> 3],
               [titled |-> FALSE, joint |-> 0, blocks |-> 3]}

-----------------------------------------------------------------------------
ASSUME Budgets == Cached!Parameters /\ Ranking!Parameters /\ Document!Parameters

\* What a behaviour is not about stays at one of its initial states.
AnyInit ==
  /\ which \in {"loop", "outputs", "ranking", "document"}
  /\ Init /\ Cached!Init /\ Ranking!Init /\ Document!Init
  /\ which # "ranking" => mode = "off"
  /\ which # "document" => policy.joint = 0

AnyNext ==
  /\ UNCHANGED which
  /\ \/ which = "loop" /\ Next /\ UNCHANGED <<outputVars, rankVars, docVars>>
     \/ which = "outputs" /\ Cached!Next /\ UNCHANGED <<loopVars, rankVars, docVars>>
     \/ which = "ranking" /\ Ranking!Next /\ UNCHANGED <<loopVars, outputVars, docVars>>
     \/ which = "document" /\ Document!Next /\ UNCHANGED <<loopVars, outputVars, rankVars>>

AnySpec == AnyInit /\ [][AnyNext]_allVars

\* See OutputCache: previews share their budget fairly and are of their text, reading by
\* page or section and a search by pattern drop nothing unsaid of what they promise, and no
\* tool tells of another session's content.
OutputsHold == Cached!PreviewsFair /\ Cached!NothingSilent /\ Cached!FoundIsShown /\ Cached!OwnContent

\* See Retrieval: what may be answered is answered, fusion keeps the order the lists
\* have in common, and diversification only moves what is like what was chosen.
RankedFairly == [](Ranking!AllowedIsAnswered /\ Ranking!FusionFair) /\ Ranking!DiverseIsEarned

\* See MarkdownChunks: the chunks hold the text once, are too large only where they must
\* be, and agree with the sections and the neighborhoods.
ChunksHold == Document!NothingLost /\ Document!OverflowIsOne /\ Document!SectionsAgree
=============================================================================
