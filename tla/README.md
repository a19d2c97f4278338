# A verification project for libpgf

libpgf is a C library that reads Portable Grammar Format files, parses
sentences to abstract syntax trees and linearizes trees to sentences. It stands
on libgu, a general utility library (memory pools, sequences, hash maps,
streams, strings, run-time types) that lives in the same repository. Both are
single-threaded; what makes them hard is recursion with shared state, lazy
enumeration that is suspended between two calls of the client, tables that are
changed while they are traversed, and code that retraces its own decisions.

The modules here are translated from the source. Definitions keep the names of
the C functions where one definition stands for one function; `PROJECT.json`
names the lines each definition models.

## The system

| part | state | operations | interacts with | what makes it correct |
|---|---|---|---|---|
| choice (`gu/choice.c`) | path of alternatives left, position in it | new, mark, reset, next, advance | parse results and linearizer make all their decisions through it | every outcome of the decisions exactly once, in order; a replayed decision is the decision that was recorded |
| parser (`pgf/parser.c`) | per parser: a counter; per parse: transitions, completed categories; per call: items seen, continuations, generated categories | `pgf_new_parser`, `pgf_parser_parse`, `pgf_parse_token` | hash sets, which it enumerates while it inserts; earlier parses, whose items it shares | the completed categories stand for exactly the trees of the tokens fed; earlier parses do not change; calls return |
| parse results (`pgf/parser.c`) | a choice, the completed categories | `pgf_parse_result`, `gu_enum_next` | choice, categories of the parser | each tree once, then the end, for good |
| linearizer (`pgf/linearize.c`) | index of productions and coercions; per enumeration a choice and the tree | `pgf_new_lzr`, `pgf_lzr_concretize`, `gu_enum_next`, `pgf_lzr_linearize` | choice, hash maps | each concrete tree of the abstract tree once |
| maps (`gu/map.c`) | table of keys and values, occupancy, slot of the zero key | make, find, insert, iterate, enumerate | primes give its sizes, pools own it | a finite function; lookups end; resizing keeps everything |
| primes (`gu/prime.c`) | none | nearest primes and twin primes | maps | the numbers are what they should be |
| memory (`gu/mem.c`) | pools: chunks, two edges, finalizers | new, malloc, finally, free | everything | allocations are disjoint, aligned and inside a chunk; finalizers run once, last first |
| sequences, buffers (`gu/seq.c`, `gu/list.c`) | length, capacity, tagged lengths | push, pop, freeze, ... | memory, streams | length within capacity; what was pushed is what is read |
| input (`gu/in.c`, `gu/file.c`) | window of a stream's buffer, position | bytes, spans, integers, proxies | exceptions, the PGF reader | the bytes of the stream in order, none twice, and `gu_in_tell` says how many |
| output, writers (`gu/out.c`, `gu/write.c`) | window of a buffer, pending flush | bytes, spans, flush | exceptions, UTF-8 | what was put arrives in order, at the latest after a flush |
| text (`gu/utf8.c`, `gu/ucs.c`, `gu/string.c`, `gu/str.c`, `gu/read.c`) | none; strings as words, short or long blocks | encode, decode, compare, hash | streams | decoding inverts encoding; equality does not depend on the representation |
| exceptions (`gu/exn.c`) | chain of frames, what was caught | new frame, raise, clear | everything that can fail | the innermost frame that accepts the type catches it |
| hashing (`gu/hash.c`) | none | hashers made from type descriptions | maps, parser | equal values hash alike |
| types (`gu/type.c`, `gu/generic.c`, `gu/variant.c`, ...) | static tables, instances made on demand; variants as tagged words | find, specialize, make and open variants | hashing, reader, dump | the function for a kind is that of its nearest ancestor; tag and data of a variant come back |
| dump, YAML (`gu/dump.c`, `gu/yaml.c`) | anchors, indentation state | begin, end, scalars, anchors | writers | the document denotes what was in memory, cycles included |
| PGF reader (`pgf/reader.c`) | tables of sequences, functions, categories; what is still to be resolved | read each type | input, interning, maps | the grammar of the file; indices in range, forward references resolved, truncation noticed |
| expressions, grammar data (`pgf/expr.c`, `pgf/data.c`, `pgf/pgf.c`) | none | unapply, read, print, look up | reader, linearizer | reading inverts printing |
| translator (`utils/pgf-translate.c`) | pools per sentence | the loop of the program | parser, results, linearizer | the translations of a line are the sentences of its trees; no error is lost |
| Python bindings (`python/`) | wrappers, pools kept alive by them | calls into the library | everything | no pool is freed while a wrapper needs it |

The behaviours that are hard to test, each at its line, are the `hazards` of
`PROJECT.json`.

## Modules

`GuChoice` holds the operations of `gu/choice.c` as operators on a record; it
is shared by the three modules that use a choice.

`ChoiceEnum` is the protocol its clients follow: from the mark make decisions
until there is a result, reset, advance. The client is an arbitrary decision
tree, so the module covers every client that is deterministic and offers at most
`UINT8_MAX` alternatives. `LeafEnum` is the abstract specification, the leaves of
the tree in order, each once, and `ChoiceEnum` implements it.

`Parser` is `pgf/parser.c` up to the completed categories. The C call stack is
the variable `stack`, and one step is one function body or one iteration of a
loop, so that each interleaving of the recursion with the loops it runs inside of
is there. `conts`, `parsing.seen`, `parsing.generated`, `parses[p].transitions`
and `parses[p].completed` are the sets and maps of the code. The order in which a
hash table is enumerated is nondeterministic. A key that is inserted while a
frame enumerates the set is visited or not (`StillToVisit`), which is what
`MapEnum` shows of the table; an occupancy in `ResizeAt` stands for an insertion
that resizes, after which any key may be visited again or not at all.
`ParserRef` defines the trees of a grammar and what they yield without a chart: a tree
carries the pairs of a constituent and a token sequence that it says, and the trees of
depth `n + 1` are the rules applied to those of depth `n`. The same definition, over the
productions of the completed categories, gives the trees the chart stands for; an
argument of which no constituent is used ranges over all trees of its category in both.
A scan (`ScanForms`) follows each form of a token symbol that begins with the token.
What the parser relies on in a grammar and nothing in the library checks, such as
that the constituents a production names exist, is `WellFormed`.

`ParseResult` is the enumeration of `pgf_parse_result`. What it should yield is
defined there without a `GuChoice` and without `seen_cats`: the `Derivations` of the
forest, by how many categories they have visited (`Stages`), in the order of the first
decision in which two of them differ (`Precedes`). A derivation has no category below
itself, since there would be infinitely many; that two arguments have the same category,
as when neither is in the sentence or both are one constituent, is no cycle and rules
nothing out. `pgf_cat_to_expr` does refuse it, so what the client is given is fewer:
`Unshared`, the derivations without a category that is visited twice.

`Linearize` is the inference of concrete trees: the indices of `pgf_new_lzr`, and
the nested loops of `pgf_lzn_next` and `pgf_lzn_infer_application`, again with an
explicit stack. `LinearizeRef` says what it should yield, without a `GuChoice`: the
derivations of the parts of the tree, from the deepest ones up (`DerivationsOfParts`), in
the order of the first decision in which two of them differ. `MaxHeight` bounds the tree
and the chains of coercions.

`Prime` is `gu/prime.c`, with loops as recursive functions. `GuMap` is
`gu/map.c`: one insertion is one step, except that the loop of a resize takes a
step per old slot. The three kinds of map differ only in their hash and equality,
which are a parameter. It implements `AbsMap`, a finite function. `MapEnum` adds
an enumerator whose client goes on inserting. The frame of a resize and the
enumerator are records with a flag `active`, false before they are made. The
definition of a prime that the results of `Prime` are compared with is in
`MCMapEnum`.

`Pool` is a memory pool of `gu/mem.c`: block 0 holds the GuPool, other blocks are
chunks, and an object is an interval of offsets in a block. `left` and `right` are
the edges, narrowed to 16 bits where the code assigns them. `gu_malloc_prefixed` is
one step, `gu_pool_free` one step per finalizer and per chunk. The size that
`gu_mem_buf_alloc` gives is the parameter `BufSize`, of which the proofs assume only
that it is no less than was asked and fits an edge; `MemBuf` defines it as the code
does. `GuBuf` adds the growing buffers of `gu/seq.c`, whose elements are outside the
pool, and the sequences they are frozen to.

`GuOut` and `GuIn` are the streams: layers, of which each is a `GuOut` or `GuIn`
with the stream it stands on, that lend each other windows or pass bytes on. A
call runs through all of them and returns, and the layers call each other, so each
C function is an operator (recursive, as the functions are) from the state of all
layers to the state after it: `s` for output, `r` for input. A window is the bytes
written to it, or still to be read from it; where the code compares pointers, to
find out whether a span is the window, the offset in the window is compared. An
exception is the field `err`, and a `gu_require` or `gu_assert` that fails clears
`sound`. The stream functions of the different kinds of layer are the cases of
`StreamBeginBuf`, `StreamEndBuf`, `StreamOutput` and `StreamFlush`, and of
`StreamBeginBuffer`, `StreamEndBuffer` and `StreamInput`; `OutInvoke` and `InInvoke`
are the calls of them through the function tables of a stream. What a C function
does behind a call it makes is an operator of its own, named `After...`. `Encoding` says which bytes belong to which character, in UTF-8 and
in the encoding of the locale, and that the locale lacks some characters; the values
of bytes do not matter to the streams. The FILE, and wcsrtombs and mbrtowc, are
modelled from how they are used: a device takes bytes up to its size and then
fails, at the fwrite or, with stdio in between, at the fflush. `Streams` is their
client: it writes text, flushes, frees the pool, and reads what was written.

`Tagged` adds to the pool the words that hold something in their low bits:
strings, which are a word of their own, or point to bytes behind their length, and
variants, whose tag is in the word or before the data. Bytes are not values there:
a string is its length.

`GuType` is the hierarchy of kinds and the search of a generic function for the
nearest kind it knows; `PgfTypes` are the type descriptions of `pgf/expr.c`,
`pgf/data.c` and `pgf/reader.c` as data. `Reader` is `pgf/reader.c`: a generic
function over those types that consumes bytes. Its state is one record, `r`, with
the bytes left, the objects read so far (`heap`, so that pointers, sharing and
forward references are there), the exception and where the program stopped
(`fatal`). `Dump` has the emitter and the generic dumper, from the same heap to tokens
of YAML. `Pgf2Yaml` composes them to the program `pgf2yaml`, and is
where a file may be cut short or have a wrong byte. `Pgf2YamlRef` has the other
sides: the bytes that stand for a grammar, the grammar that was meant, and the value
a YAML document denotes, each by recursion on the data.

`GuExn` is a chain of exception frames. `ExprText` is the printing and reading of
expressions of `pgf/expr.c`. `Translate` is `utils/pgf-translate.c` with the
queries of `pgf/pgf.c` and `pgf_lzr_linearize`. The parser, the parse results and
the inference of concrete trees are there by what the runs `parser`,
`choice` and `linearize` show of them: `Translate` instantiates `ParserRef`,
whose trees `FindsTheTrees` compares with the chart, and gives of each what its sentence
tells (`Told`: an argument of which no constituent is used is a metavariable), and
concrete trees are those of `LinearizeRef`. No line of the run has a tree with a
shared category, which `pgf_parse_result` would lose.

The proofs about a component are in a module that extends it: `ChoiceProofs`, about
`ChoiceEnum` and `ParseResult`, `ParserProofs` and, about `ParserRef`, `ParserRefProofs`,
`LinearizeProofs` and, about `LinearizeRef`, `LinearizeRefProofs`, `GuMapProofs`, and
`GuBufProofs`, which is about `Pool`, `GuBuf` and
`Tagged`. `ArithmeticLemmas` has the facts
about numbers, and about sequences of decisions in their order, that several of them need.

Modules whose names begin with `MC` give the constants their values. An operator
whose comment begins with "Mutation" is a plausible wrong version of the
definition after it; no specification uses it.

## Runs

Those that pass:

| run | shows |
|---|---|
| `choice` | for every client of at most two nested decisions with 1 to 3 alternatives: the assertions of the code, the inductive invariant of the proofs, and the refinement of `LeafEnum`, with liveness; and for every forest over two categories of one or two productions (cyclic ones and ones that use a category twice included): the trees given are those of the derivations without a shared category, in order, and then comes the end, for good, unless the last candidate is given up |
| `parser` | for seven small grammars and every way of branching between at most five parses of at most four tokens: the assertions of the parser, that its chart is closed, that it stands for exactly the trees of the tokens, that earlier parses keep what they had, and that calls return |
| `linearize` | for grammars with variants and chains of coercions and trees of depth up to three: the concrete trees given are all derivations, in order; the second inference repeats the first |
| `map` | for five keys that collide in tables of five and seven slots: lookups end, every key is found, counts are right, resizes are safe, enumerations with insertions are exact unless the table is resized, and the table is a finite function; and every argument up to 1100 of the functions of `gu/prime.c` against the definition of a prime (the wheel needs a second round from 900 on) |
| `pool` | for up to five objects of any kind the requests offer, two growing buffers, a frozen sequence, and two strings or variants in every order: objects are disjoint, aligned and in their blocks, the assertions on the edges hold, finalizers run last first, buffers own their elements, freeing the pool leaves nothing, and lengths, strings, tags and data are found again from their words |
| `streams` | for the stacks of layers that string buffers, `pgf2yaml`, `pgf-translate`, the log and `test-write` build, and any mix of calls: what is written arrives once and in order, a flush brings all of it to the device or raises an exception, the assertions of all layers hold; and what was written is read back in order through every kind of input layer, with the end of a file, a spoilt byte and a file that fails told apart |
| `pgf2yaml` | for four grammar files, whole, cut short at every byte, or with one byte replaced: a whole file gives exactly the grammar that was written, with one object for each category however it was first referred to; no cut is taken for the end; in whatever is returned, functions have as many sequences as their category has constituents; and the YAML is well formed and denotes the grammar in memory, with its cycles |
| `translate` | for two concrete syntaxes (one ambiguous, one with two constituents and coercions), options that name languages and constituents in every way, and lines that parse or do not: the output of a line is its trees and sentences of the same trees, among them the line itself when the two languages are one; an output or input that fails at any point is never lost, and the pool of the line is freed; and the expressions shown are read back one by one, from text that may end anywhere |

Those that show where the code departs from what its documentation says (the
`findings` of `PROJECT.json` quote it):

| run | shows |
|---|---|
| `conts_resize` | a resize of a set of continuations under its enumeration loses trees |
| `truncated_file` | a file that ends in the concrete categories or their ranges stops the program, where `pgf_read_pgf` should return NULL |
| `long_string` | a string of 256 bytes or more is allocated and lost |
| `results_lost` | of a forest of two trees the second has the same category as both of its arguments: the client is given the first only (`src/pgf/parser.c:808`), and the call that should tell the end reads through a null choice, since the second was the last candidate (`src/pgf/parser.c:851`) |

`EnumeratesTheForest`, which `results_lost` violates, is what `parser.h` and `enum.h`
promise. The two properties of run `choice` beside it say what the code does instead:
`EnumeratesTheUnshared`, that what is lost are the trees with a shared category and no
other; and `EndToldUnlessLastRefused`, that the call ends in the null choice
(`pc = "aborted"`) when the last candidate is given up (`LastIsGiven` says of the forest
that it is not), and in every other forest the client is told the end.

Two more departures are in the models as the code has them, and noted here
without a run: a category that derives the empty sentence is completed twice
(`src/pgf/parser.c:527`), so that its trees are results twice; and an enumeration of
concrete trees whose last candidates fail starts over if it is polled after its end
(`src/pgf/linearize.c:419`; no client in the repository does, and `Linearize` has a
client that stops).

### Bounds

`MCChoices` has two enumerators, an arbitrary client of `ChoiceEnum` and parse results,
each with a choice of its own, called in any order. They share nothing, so one of them
is always trivial: the client that makes no decision, or the forest of a parse without
success. Decisions nested twice are enough for a recorded decision before, at and
behind the one that is advanced. Two categories with productions, and one without, are
enough for a category below itself, directly and through the other, beside itself, and
for a candidate that is given up first, in between and last. No tree of these forests
takes more than five visits (`MaxVisits`), which `VisitsAssumption` makes TLC evaluate:
the stage after the last is empty.
The grammars of `MCParser` are one for each difficulty: left recursion with
ambiguity, empty constituents, discontinuous constituents, coercions with a
cycle, alternatives with literals and unused arguments, cyclic empty categories,
alternatives that meet. Four tokens are enough for each of them to take every
path of the code more than once, and five parses for a branch from every earlier
one. Trees are compared up to the depth `MCMaxDepth`, 5 rules in a row and 8 for the
grammar with the cycle, where a coercion is a rule too. In `ParserResize.cfg` a set resizes at its
fourth key, in the code at its twelfth at the earliest; the grammar that reaches
twelve is larger and no different. `MCMapEnum.cfg` asks for tables of at least 3
where the code asks for 11, so that five keys are enough to resize one.
`MCTagged.cfg` has the sizes of a 64-bit machine, and requests on both sides of the
limit for a block of one's own, with and without alignment and prefix; strings that
fit a word and the longest that have their length in a byte, and the largest tag that
fits the low bits and the first that does not; five objects
are enough to fill the first block from both ends, to expand twice, and to have a
large block in between.
`MCStreams.cfg` has buffers of four bytes, two characters and two bytes, characters
of one and two bytes, and up to six bytes of text: enough to fill each buffer in
the middle of a call, to have a window with less room than a character takes, to ask
for less than a character and for more than a buffer, and to decode two characters
at a time with a bad byte behind the first. The device has room for all of it or for
three bytes; one that is full stays full.
`MCPgf2Yaml` has three versions of a grammar whose categories refer to each other
in a cycle through a coercion, in three orders of reading, and one grammar with one
of everything else the types allow, with negative numbers and characters that are
one byte in Latin-1 and two in UTF-8. Every prefix of each file is read, and every
byte replaced by 0, 1, 3 and 127: enough to make tags, lengths and references wrong
in both directions. `MaxRange` (200) stops a range that such a byte has made too
long, and a recursion deeper than there are categories is one that never ends; both
are where the program stops. So is a number of more than five bytes, whose shift C
leaves undefined.
`MCTranslate` has lines of up to three tokens, enough for an ambiguous line and for
arguments whose constituents surround others, and compares with trees up to depth 3 (5
in the concrete syntax with coercions, which are rules too), which are all that such
lines have.
CHECK_DEADLOCK is off where the client may stop, which is everywhere.

`MCLinearize` has trees and chains of coercions up to height 3 (`MaxHeight`); that no
input is higher is part of `FiniteAssumption`, which TLC evaluates. The expressions of
`MCTranslate` are of three functions in a row at most, which is within the same bound.

### Fairness

The library is called by its client and runs to completion: weak fairness of the
steps inside a call is what a single-threaded C program guarantees. The
enumerations also assume a client that goes on calling until it is told the end,
which the refinement of `LeafEnum`, `EndToldUnlessLastRefused` and, for concrete trees,
`Terminates` need; no property assumes that a client starts a parse. In `MCChoices` the
fairness of either enumerator is its own, as of two programs.

## Proofs

A theorem holds for every value of the constants that meets the assumptions named in
the module that declares them; TLC evaluates these on every run. Where an argument
would go by induction over numbers it takes a least counterexample instead
(`LeastElement`, or `InductionUpTo` for a set of numbers), since the induction rules of
the library are out of the provers' reach.

### Choice

`ChoiceProofs`, for every `UINT8_MAX` and every set of clients (finite or not),
from `UINT8Assumption` and `TreesAssumption`:

- `TypeCorrect`, `PathCorrect`, `AssertsNeverFail`, `NothingLeftOver`,
  `EndIsTheLast`: invariants; `PathCorrect` and `AssertsNeverFail` are about those of
  run `choice`;
- `NoneSkippedOrRepeated`: its action property, that each result is the immediate
  successor of the one before;
- `ImplementsLeafEnum`: for clients that terminate, all of `EnumeratesLeaves` but its
  fairness: `ChoiceEnum` starts with all the leaves to do, and each of its steps is a
  step of `LeafEnum` or a stutter;
- `EndMeansAll`: when `gu_choice_advance` returns false, every leaf has been produced.

The inductive invariant is `IndInv == TypeOK /\ PathLeadsToNextLeaf /\
EndsAtTheLast`. The assertion that a recorded count does not exceed the
alternatives now offered is not inductive: it needs that the client, having made
the same decisions, is at the same node of its tree. `PathLeadsToNextLeaf` says so
by giving a meaning to the path: it is a sequence of decisions `d` of which this
run has made the first `path_idx`, and which leads to the leaf right after the
last result. A recorded decision keeps `d` (`DecideRecorded`), a fresh one appends
a first alternative to it (`DecideFresh`), and advancing cuts `d` behind its last
untried alternative and takes that (`EndRunAdvance`); when there is none the
result was the last leaf (`EndRunLast`). `NothingLeftOver` is about `NoLeftOvers`,
which follows from the inductive invariant; it, `TypeOK` and `EndsAtTheLast` have no
run of their own.

For the refinement, a result must be the first of the leaves left, and that the next
leaf is the immediate successor does not say so by itself. `AllBefore` adds that the
results so far are all the leaves that do not come after the last one. It is kept
because no leaf lies between a leaf and the next (`NoneBetween`): leaves with the same
decisions before them are offered the same number of alternatives (`SameArity`), and no
leaf is a prefix of another (`NoPrefix`), so any two part at some decision (`Parting`).
The hypothesis `Terminating`, a finite tree whose nodes are reached by the alternatives
offered, is met by every client of run `choice` (`AllTerminate`, which TLC evaluates);
it is needed for there to be leaves at all, and for `Leaves` to be those of the tree.

### Parse results

`ChoiceProofs`, for every forest, from `ForestsAssumption` (a forest has finitely
many categories, and sequences of productions over them), `VisitsAssumption` (`MaxVisits`
bounds the visits of its trees) and `NullAssumption` (the null pointer is not a
`GuChoice`): `AlwaysEnumeratesTheUnshared` and `ReplaysAlwaysAgree` are the invariants
`EnumeratesTheUnshared` and `ReplaysAgree`, and `EndAlwaysFinal` the action property
`EndIsFinal`.

Here the client is a program and not a tree, and which decisions there are depends on
`seen_cats`. The proof first speaks of the runs of this program (`RunStages`), each what
`pgf_cat_to_expr` makes of some decisions. The decisions of a run determine it
(`SameStage`), so two runs part at a decision, or else one continues the other
(`OneOrOn`). The inductive invariant (`GivenInv`) says that behind the path there are the
decisions `p` of a run under way, each made where there were as many alternatives as `p`
and the path add up to (`Tracks`); that the call under way has made the first of them
(`Leads`); and that the client has been given the trees of the finished runs that precede
`p`, each in its place (`Counted`, `Listed`). A call with a decision to retrace is on the
way to it, and finds the alternatives that were counted (`Meets`): it is never cut short
by a category it has seen, nor does it end before. When it ends, the runs that begin with
its decisions are the one it has made (`RunEnds`), or none if it was cut short or
came to a category without productions (`RunFails`). To advance the choice moves past
exactly these (`MovesPast`), and when no decision has an alternative left, nothing comes
after them (`NothingAfter`). So between two calls the trees given are those of the
runs before `p`, and once the choice is null they are all.

What remains is to compare the runs with the reference, which knows what is above a
category and not what has been seen. What is above a category has always been seen
(`StageInv`), so a run never has a category below itself (`RunFollows`), and a derivation
that visits no category twice is at each step a run (`FollowsRun`). Stage by stage the
one are the other (`StagesAreRuns`, `RunsAreStages`), with the same decisions and the same
tree; no run is longer than `MaxVisits`, or there would be a derivation in the empty stage
(`RunsAreShort`). So there are as many of the ones before any decisions as of the others
(`EndsAreUnshared`, `AsManyRuns`).

The end is final because by then the choice is null, or no category was completed.
That the client comes to the end, or to the null choice, stays with TLC
(`EndToldUnlessLastRefused`). Of the state with a null choice that is still in the loop
(`src/pgf/parser.c:851`) the invariant says (`Between`, for `pc = "loop"`) that the
client has all the trees it ever gets.

### Linearizer

`LinearizeProofs`, for every grammar and tree, from `InputsAssumption` (a grammar has
finitely many categories, and sequences of productions), every order of the hash table,
and the hypothesis `NullIsNoResult`, that the null pointer is not a category with its
tree: `BuildAlwaysRepeats` is the invariant `BuildRepeatsDryRun` of run `linearize`, and
`PathHasARun` the inductive invariant `LinearizeInv`.

The loops of all the applications on the stack cut one path, each at marks of its own.
As with parse results the invariant gives the path a meaning: there is a run of the
inference without a failure, `H[1]` to `H[N]` (`Run`), that makes exactly the decisions
of the path. `Goes`, `Ways` and `After` are what such a run does, as functions of its
configuration. The stack shows a configuration of the run (`Running`): one in the middle,
when it repeats what was decided before, or the last, when a new step makes the run
longer (`RunOn`, `GoOn`). What makes the invariant inductive is where a failure leads.
An application goes back to the mark before its last argument, and there has to be a run
again. `HasPasts` says that there is: a frame holds nothing, neither a category nor a
mark, but what it held when the run came past the configuration in which it began that
argument (`PastOf`), and advancing the choice behind that configuration leaves a run at
least as far as there (`RunBack`). If no decision behind it has an alternative the
failure goes on from there (`GoesBack`), to the application below once no argument is
left (`FailReturns`). The build run starts where the run has started, and the run, which
the dry run left at its end, has no failure in it; so the build run meets none either.

`LinearizeRefProofs` goes on to `AlwaysConcretizesAll`, the invariant `ConcretizesAll` of the
run, from `FiniteAssumption` in addition: abstract trees are finite, and no category coerces
itself, not even through others. Its inductive invariant is `ConcretizedInv`. The derivations
that a configuration can still come to (`Via`) are those of the arguments still to be
inferred, coerced and combined as the frames below would do it. A step that needs no
decision leaves them as they are, and one that decides leaves those of the alternative
taken (`ComesTo`); so the derivations that begin with the decisions of a path are exactly
those that the last configuration of its run can come to. The run is there because of
`LinearizeInv`. An inference that fails has come to a configuration without derivations,
and one that ends to one with a single derivation, whose tree is given. What the client has
is counted against the decisions of the path (`Counted`): the trees of the derivations
before them, or, while the inference gives up, also of those that begin with them. To take
back decisions without another alternative changes nothing of this (`CutOn`), and to take
the next alternative passes exactly what began with the last one (`AdvanceOn`).

### Parser

`ParserProofs`, for every set of grammars that `GrammarsAssumption` calls
well-formed, any tokens, any number of parses and any sizes at which tables are
resized:

- `ChartInvHolds`, the inductive invariant `ChartInv`, and from it `ChartAlwaysSound`
  (the invariant `ChartSound`: everything that items, continuations and transitions
  refer to exists and fits, fresh categories do not collide, and the assertions of
  `pgf_parsing_combine`, `pgf_parsing_scan` and `pgf_parsing_predict` hold) and
  `OldParsesStay` (the action property `OldParsesUnaffected`);
- `ClosedUnlessResized`: between calls the chart is closed (`ChartClosed`), if in no
  state a set of continuations that is being enumerated is at a size where the next
  insertion resizes it (`NoVisitedResize`). The hypothesis cannot be dropped: run
  `conts_resize` is the counterexample without it.

`ChartInv` has one part for each thing the parser keeps (`CatsOK`, `ContsOK`,
`ParsesOK`, `ParsingOK`, `StackOK`): it was right when it was stored, and stays right
because categories only ever gain productions, and an item waits for the very
category it is stored under. `StackOK` is what makes it inductive, since between two
steps much of what will be stored is in frames of the C stack only.

That the chart is closed when a call returns says nothing of the states before.
`ClosedInv` says what is true in between: whatever a rule of the parser yields
(a predicted production, `AllTried`; an item combined with a completed category,
`AllMet`; what an item has to be entered into, `AllServed`) is in the chart, or some
frame that is still on the stack will see to it, because its loop has yet to come to
it. The difficult case is a set that grows while a frame enumerates it: the frame that
inserts an item combines it with what is complete already, and the frame that completes
a category visits the items that were there. The one who comes second sees the other.
Both theorems assume `NullIsNoItem`, that the null pointer is not an item.

`ParserRefProofs`, under the same assumptions and for every depth of trees
(`MaxDepthAssumption`), is about the trees the chart stands for:

- `FindsOnlyTrees`: no tree is wrong, in any parse and at any point of a call, whether
  or not tables are resized (`FoundAreTrees`, which is more than `FindsTheTrees` says of
  this direction and has no run of its own);
- `FindsUnlessResized`: between calls the completed categories stand for exactly the trees
  of the tokens (the invariant `FindsTheTrees` of run `parser`), under the hypothesis
  `NoVisitedResize` of `ClosedUnlessResized`.

The chart does not say how it came about: what a parse has met (`seen`) and completed
(`generated`) is gone when the next one begins, and an item of a later parse may rest on
it. The invariants therefore speak of a history `h`, which keeps both for every parse with
the parse and the token it was begun from; that some history exists is what is inductive
(`Accounted`, `Complete`), a call of the client making it one longer and a step inside a
call leaving it alone.

That no tree is wrong is `ChartDerived`: every item met comes from a production, from an item
of the earlier parse by its token, or from an item and a completed category; every
production of a completed category is that of an item that has ended; and what is in the
frames of the stack has been derived too. It follows (`ItemsMean`, `CatsMean`), by induction
over the depth of trees, the parses and the symbols passed, that what an item stands for
covers the tokens between the parse it was predicted in and its own.

That no tree is missing is `HistoryClosed`: a finished parse is closed (from `ClosedInv`)
and stays so; in the one under way, each item that waits for the token has been scanned
with each of its forms, or a frame will come to it (`Scanning`), and so for the categories
the parse was begun with (`Starting`). `SymbolsFed` then leads some item over the symbols of
a constituent as the tokens are fed from parse to parse (`Chain`), and `CatsAreFound` that is
an induction over the depth of the tree. What makes the order of events not matter is that
an item and a category that complete each other meet when the second of them comes, which
`ClosedInv` has shown for each parse by itself.

### Maps

`GuMapProofs`, for every finite set of keys and every hash, from `GuMapAssumption` and
`TwinPrimesAssumption` (the sizes that the functions of `gu/prime.c` give for as many
keys are large enough and prime; invariant `PrimesRight` of run `map` compares these
functions with the definition of a prime):

- `EveryKeyFoundHolds` and `ResizeSoundHolds`, the invariants of run `map`;
- `ImplementsMapHolds`: the table implements `AbsMap`, each step of the table being a
  step of the finite function or leaving it alone, the steps of a resize included;
- `ExactUnlessResizedHolds`: the enumeration is exact unless the table is resized.

The inductive invariant `MapInv` says that for every key in the table the probes of its
lookup come to its slot, and no earlier probe stops; and while the table is rebuilt,
that the new one holds exactly what the visited slots of the old one hold
(`RebuildSound`). A lookup ends because some slot is free and the probes visit all of
them: their distance is not zero and the size is prime (`StepsVisitAll`, which rests on
Euclid's lemma). For the enumeration, `EnumSound` says that the keys given are those of
the slots passed, and that an insertion without a resize moves no key.

### Memory

`GuBufProofs` begins with the pool by itself, from `PoolAssumption`, `AlignmentAssumption` (alignments divide one
another, as powers of two do) and `BufSizeAssumption` alone, and so for every size of a
header, a block, an alignment and a request and any number of objects: `TypeOK`, and the
invariants `ObjectsDisjoint`, `ObjectsInBlocks`, `EdgesInBlock`, `ObjectsAligned` and
`FinalizersReversed` of run `pool`. That objects are disjoint is not
inductive by itself: a new object is compared with the edges, not with the others, so it
takes that no object reaches into the space between the edges of the current block
(`EdgesSound`). A new block makes a sound pool because its number is fresh and its size
is not narrowed (`ExpandSound`); an object that fits, taken from either end, leaves a
sound pool (`TakeLeftSound`, `TakeRightSound`); and a large object does not touch the
current block (`LargeSound`). A prefix is aligned because the space for it is rounded
to the larger of two alignments of which one divides the other. Finalizers are in the
order of their registration in the list, and the blocks they lie in are freed only when
the list is empty.

It goes on to show that this still holds of a pool whose clients are buffers,
sequences, strings and variants (`PoolServesClients`: the steps of `GuBuf` that
allocate and free blocks of their own are not steps of `Pool`), and proves
`BuffersAlwaysFit`, `EverythingReleased`, `SeqsAlwaysTaggable` and `TagsAlwaysKept`, from
`GuBufAssumption`, `BufDataAssumption` and `TaggedAssumption` in addition. The invariant
divides the blocks between the pool and the buffers whose finalizers are still to run
(`BufInPool`, `HeapExact`); for the words it says where the data of each lies and that
its address has the low bits free (`SeqsSound`, `WordsSound`). `TagsAlwaysKept` has the
hypothesis that no string is longer than 255 bytes; run `long_string` is the
counterexample without it.

### What stays with TLC

Liveness (`EnumeratesLeaves` includes it, `CallsReturn`, `EndToldUnlessLastRefused`,
`Terminates`), the computation of primes (`PrimesRight`), and whatever is about the
recursive functions of the streams, the reader, the dumper, the expression parser and the
translator, since these need induction over data, and modules with RECURSIVE operators
are out of the prover's reach.

## Not modelled

- Hashing (`gu/hash.c`): `GuMap` is checked for any hash, so which one it is does
  not matter to it; that the generated hashers agree with the generated equality
  is a matter of their types, without behaviour over time.
- Logging, assertions as such, debugging printers, build files and the
  documentation generator.
- The Python bindings: declarations of the C interface for ctypes, and wrappers
  that keep pools alive. When a wrapper is collected is up to the Python runtime,
  which nothing in the repository constrains.
- Of the type descriptions: closures, interning (interned strings are equal
  strings here) and the macros that build the tables.

Of what is modelled, left out:

- streams: a device that recovers after it was full (the locale writer then repeats
  what it had written before the failure, `src/gu/write.c:131`), clients that go on
  after an exception, a buffered layer that is freed without a flush
  (`src/gu/out.c:307`), and the size of the array of decoded characters in the
  locale reader, which no call in the repository comes near;
- the reader: overlapping ranges, which it does not notice (`src/pgf/reader.c:676`)
  and no compiler writes, and the temporary pool that `pgf_read_into_map` leaves
  behind when it fails (counted in `temp`, and checked for files that are whole);
- the dumper: indentation and line breaks, and the digits of a double;
- the translator: the parsing of its options, and lines longer than its buffer,
  which come in pieces.
