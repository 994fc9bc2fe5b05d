# A TLA+ model of git-forensic

git-forensic is a Rust workspace of two crates: `git-core`, a from-scratch,
read-only reader of `.git` directories, and `git-forensic`, the audits built on
it. Both are sequential and write nothing. What makes them hard to get right is
elsewhere: the evidence may be damaged, so nothing an object says can be
assumed (an object may even name itself), and a `.git` directory may be in use,
so `git` commits, repacks, packs refs and deletes files between any two opens
of the reader. These modules model the reader and the audits against both.

## Inventory

| Component | Source | State it keeps | Operations | Hard behaviour | What makes it correct |
|---|---|---|---|---|---|
| Unreachable-object audit | `forensic/src/unreachable.rs` | work-list, `reached` set, findings | `reachable_set`, `audit_unreachable` | cyclic and damaged graphs; many reads of a store in use | findings = stored objects no ref leads to; no answer from a partial set of refs; it ends |
| Object store lookup | `core/src/repo.rs`, `loose.rs`, `pack.rs` | none between calls; within one, the directories listed and not yet opened | `read_object`, `all_objects`, `list_loose`, `list_packed`, `resolve_base` | loose files and packs move under it, and a base by name is looked for packs first | a stored object is never "not found" nor left out of a listing without an error |
| Delta chains | `core/src/pack.rs` | pack, offset, depth | `read_packed`, `read_object_at`, `resolve_base` | bases by name go through all packs again; cycles; depth limit | what git wrote reads back; every read ends |
| Pack index | `core/src/pack.rs` | search range | `idx_lookup`, `idx_names` | damaged fanout, which also says where the offsets begin; truncated tables, large offsets | exact on a sound index; on a damaged one no other object's offset as long as the fanout ends in the number of names; ends on any |
| Refs | `core/src/refs.rs` | the list built so far | `resolve_ref`, `list_refs`, `list_refs_checked`, `head` | symbolic refs, stale packed values, unreadable files, names that are not UTF-8, `git pack-refs` meanwhile | complete, one value to a ref, loud on failure |
| Commit walk and its audits | `core/src/repo.rs`, `forensic/src/lib.rs`, `signatures.rs`, `attribution.rs` | the next hash; the commits taken | `walk_commits`, `audit_repo`, `audit_signatures_repo`, `attribution_repo` | damage or a shallow end in mid-chain, cycles | the whole first-parent chain or an error |
| Pack byte formats | `core/src/pack.rs` | a position in a buffer, the number or output so far | `parse_object_header`, `parse_ofs_delta`, `apply_delta`, `inflate` | two encodings of numbers, word width, sizes that stand for others, truncation | what git wrote reads back exactly, what is not whole is refused |
| Commit, tree, loose parsers | `core/src/commit.rs`, `tree.rs`, `loose.rs` | a position in a buffer, the fields so far | `parse`, `decompress_and_parse` | delimiters inside data, numbers written in more than one way, duplicates, truncation | no boundary moves; header and message do not mix |
| Reflog | `core/src/reflog.rs`, `forensic/src/reflog.rs` | the flagged moves | `read_reflog`, `classify_rewrite`, `audit_reflog` | the verdict rests on the words of a message, not on the move; messages quote other operations; several rewrites in a row, dropped lines | every value the branch had is accounted for, if the moves that leave something behind say so |
| Repository opening, hashes, errors, report rendering, fuzzing, CI | the rest | none | | | not modelled: no control the properties could be about |

How they interact: `audit_unreachable` calls `all_refs_checked` once,
`read_object`, `read_commit` and `read_tree` for each reached hash,
`all_objects` once and `read_object` for each finding. The commit audits pull
`read_commit` through `CommitWalker`. `read_commit` is `read_object` and a
parser; `read_object` is one loose file and then, in name order, the packs;
within a pack a delta calls back into the pack reader, by offset or, through
`resolve_base`, into all the packs. All of it shares one thing, the files of
`.git`, with the git that may be running.

Shallow parts are listed in `PROJECT.json`, with the hazards each property is
for, at their lines.

## Modules

    ObjectGraph            objects, health, closure under links (no variables)
    UnreachableContract    what audit_unreachable promises: one exact verdict, or an error
    Unreachable            the audit on a store at rest; implements the contract
    UnreachableProofs      its theorems
    ObjectStore            read_object / all_objects and git, file by file (no Next of its own)
      LiveStore            one call against git
      LiveAudit            the whole audit against git
    LiveProofs             the theorems about LiveStore and LiveAudit
    Refs                   ref resolution and enumeration against git
    RefsProofs             its theorems
    DeltaChain             one object through packs, delta by delta
    DeltaChainProofs       its theorems
    IdxLookup              one search of a pack index, probe by probe
    IdxLookupProofs        its theorems
    CommitWalk             the first-parent walk and the three audits over it
    CommitWalkProofs       its theorems
    Decoder                a call that reads an input forward (no Next of its own)
      PackBytes            pack entries and deltas, byte by byte
      ObjectParse          loose files, trees and commits
      Reflog               audit_reflog, line by line
    Decode                 one call of any of these
    DecodeProofs           the theorems about ObjectParse and Reflog, and the ranges of all
    PackProofs             the theorems about PackBytes
    MC<Module>             small instances for the runs of <Module>

**ObjectGraph, Unreachable.** A store is a function from hashes to slots: kind,
health and the hashes written in the object. Health is what the reader answers:
`absent`, `unreadable` (listed, `read_object` fails), `unparsable` (read,
`parse` refuses it) or `good`. The graph is not assumed acyclic: the reader
hands out objects whose SHA-1 does not match (`verified` is a flag), so on
damaged evidence cycles exist. `pc` names the phase of `audit_unreachable`:
`roots` (`all_refs_checked()?`), `walk` (the `while let` loop, one iteration a
step), `diff` (the loop over `all_objects()?`), then `ok` or `err`. `stack`,
`reached` and `findings` are the code's own. `UnreachableContract` has one step:
from pending to the exact verdict, stated as a closure, or to an error.

**ObjectStore.** Each `read`, `read_dir` of the code is a step: the loose file,
`objects/`, each fan-out directory, `objects/pack`, each index in sorted order,
the `.pack`. What the pack holds of an object may be a delta whose base is named
by hash (`Delta` says which bases git may choose): then `want` is the base, and
`resolve_base` lists and opens the packs again (`ReadData`), and the base's loose
file last (`ReadBase`). git's steps are renames and unlinks: a loose object, the `.pack`
then the `.idx` of a new pack, the `.idx` then the `.pack` of each redundant
one, a loose file whose object is packed. What a new pack leaves out of the old
ones becomes loose before they go (`repack -A`).
`LiveStore` follows one call; its history variable `always` holds the hashes
stored at every moment of it, and not loosened meanwhile, and `packed` what packs
held when the call last listed them.
`LiveAudit` strings the calls together as `audit_unreachable` does, the refs read
one by one and the second read of each commit and tree included, while git also
commits (objects first, the branch last) and makes, moves and deletes branches.
`anchored` records for each branch what it led to at every moment, `garbage` what
was stored and no branch led to all the while; `lost`, that a read of the walk
came upon a file git was just moving or removing.

**Refs.** `loose` holds the ref files and HEAD, `packed` packed-refs with
malformed, duplicate and peel lines, `refsDir` the state of `refs/`. The reader
is at a source (`refs`, `entries`, `packed`, `head`) or inside `resolve_ref`
(`resolve`, where `cur` follows symbolic refs). `todo` is the stack of directories
being walked, `Entries` one `read_dir`. Refs and directories in `NotUtf8` have
names that are no string: `Skipped` are the entries passed over, `Illegible` the refs
nothing opens, and what would be read as text and is not (packed-refs, a symbolic
target) fails. The pairs are a set, so two values for a name show and the same pair
twice does not. Of git: an update (lock file, then rename),
pack-refs in its two phases, deletion in its two phases, switch of HEAD.

**DeltaChain.** A pack is its index's health, the entry the index names for each
hash (a damaged one may name another, or none: `Hidden`), whether its `.pack` can be
read, and a sequence of entries: whole, delta by offset, delta by name, or junk. `at`
is the entry `read_object_at` stands on, `depth` its argument, `name` the hash
`read_packed` looks for. The recursion is a loop: its callers only inflate and
apply on the way back, which may make a wrong chain fail (`Rebuilt`). `Healthy`
says what git writes: every base in the same pack, descending.

**IdxLookup.** What follows the fanout is one run of bytes, read as names and as
4-byte words, up to where the file ends; `fanout` may be anything. The offset tables
are where the code reckons them from the fanout's last word (`Total`, `SmallTable`,
`LargeTable`), so a wrong word reads CRCs, names or other offsets as offsets. `count`
is how many names git wrote. `Listing` is `idx_names`; `WellFormed` is the index git
writes, `Within` one whose fanout leads to git's names only.

**CommitWalk.** A commit is parsed or not; one step takes an item from
`CommitWalker` and gives it to the audit; `Answer` is what the audit computes.

**Decoder, PackBytes, ObjectParse, Reflog, Decode.** The functions that turn bytes
into values share a state: the call, its input, the position, what was read so far and
the result. One step is one byte of a number, one delta instruction, one tree record,
one commit line, one reflog line. Inputs are reduced to what the code tells apart: a
byte of a number is a continuation flag and its bits; a tree or a loose file is a
sequence of byte kinds (digit, plus sign, space, other text, not UTF-8, NUL), three
digits standing for the eight of a mode and the ten of a size; a `Number` is what
`str::parse` and `from_str_radix` make of them, a plus sign and zeros before it taken
and too large a one refused (`SizeWord`, `ModeWord`); a commit a sequence of lines
with a key and the words after it; a reflog line the operation git was asked for, the
keywords that the rest of its message quotes, and the parts it lacks. `Own` gives an
operation git's own words for it: a fetch, a push or `branch -f` has none of those
`classify_rewrite` looks for. Words wrap at `Word` and a shift loses what it pushes
out, as `checked_shl` does. `SizeBytes`, `Header`, `OfsLead`, `CopyOp`, `Numeral`,
`Spells` are the reference side, used by the properties and the inputs only.

In every module the operators named `...Fault` are seeded mistakes. Each is the
definition after it with a plausible bug, used to show that a property notices.

## Runs

"Violation" runs state what a comment or a document says, and show a behaviour
of the code that differs; the findings of `PROJECT.json` quote the lines.

| Run | Expect | Question and bounds |
|---|---|---|
| Unreachable_audit | pass | 3 objects of all kinds and healths, cycles, 0-2 refs: the walk computes the closure and marks each object once, damage stays where it is, the audit implements the contract and ends |
| LiveAudit_busy | pass | a commit and its tree, stored whole, 2 branches (symmetric), 2 pack names, 3 git commands: nothing that one branch led to throughout is flagged while no read of the walk fails; all that stayed garbage is |
| LiveAudit_gone | violation | the first question when a read does fail: a vanished pack is taken for damage |
| LiveStore_gc | pass | 2 objects, one of them possibly a delta on the other, 3 pack names, 2 commands: no misleading not-found, of the object asked for or of a base that was packed, no incomplete listing |
| LiveStore_base | violation | the same of a delta whose base is loose when `resolve_base` lists the packs, and packed and pruned before it looks there |
| Refs_list | pass | 2 refs (one in a directory below `refs/`), a third with a name that is not UTF-8 and such a directory; 2 hashes, every damage at rest, 2 git commands on an undamaged store, lock files included: one value to a name, no ref lost, none invented, all roots, loud failure, an end |
| DeltaChain_read | pass | 2 overlapping packs of up to 3 objects, depth limit 2: all reads right, packs descend; one pack damaged in every way, bases by offset: the read ends; thin packs with bases in another pack, loose or missing; an index that names any entry, or none, for any hash: not found is said of nothing whole unless every index that should name it hides it |
| DeltaChain_refcycle | violation | does it end when bases are named by hash? |
| IdxLookup_search | pass | 8 names in 2 buckets, all sets of up to 3 with offsets on both sides of the large-offset bit; all fanouts over damaged tables: exact on the first, and the sought name's own offset wherever the fanout still counts the names |
| CommitWalk_audits | pass | acyclic histories of 4 commits with merges and damage, all loops of single parents, all times in {0, 1} and all signatures on one line: the chain whole and once, the verdicts on it, and an end wherever the chain has one |
| CommitWalk_cycle | violation | are walks bounded (SECURITY.md:50)? One over a ring of first parents is not |
| Decode_calls | pass | every header and distance of a 5-bit word, cut anywhere, and any 4 bytes; deltas of two instructions over a base of 5 bytes; any 3 symbols of a loose file and any 5 of a tree, and what git writes for small ones, with sizes and modes written with a sign, with zeros, and up to their limit; commits with a line too many, too few, damaged or out of place; three moves of a branch, of every kind, in a history with a fork and a merge |

The passing runs bound a question rather than hide a failure; each bound is in the
property's own text. `NoMisleadingNotFound`, `ListComplete` and `GarbageFlagged`
except objects that git moves from a pack to a loose file during the call: the code
looks at the loose files first and never again. `NoMisleadingNotFound` speaks of the
object asked for; of a base looked up by hash `BaseNotMissed` says what holds, and
LiveStore_base what does not. `RefKept` and `RootsComplete` except refs whose name is
not UTF-8, which are passed over in silence (the list below), and `RefKept` symbolic
ones, whose target may be packed. `FoundIsOwn` needs a fanout that leads to git's
names and ends in their number: with another number the offset of another slot is
given (pack.rs:136). `AnchoredUnflagged` assumes no failed read in the walk
(LiveAudit_gone shows why) and speaks of one branch at a time, because the refs are
read one after another. `EntryExact` and `DeltaExact` speak of numbers that fit the
word: a longer one loses bits without an error; a copy's offset has four bytes.
`ResidueFlagged` accounts for the values a branch had if each move that leaves a
commit behind says so in the words looked for (`InItsWords`; the list below has those
that do not), each line whole. `Ends` of Refs assumes that symbolic refs form no
circle (`Circular`; a circle is on the list below), and `Ends` of CommitWalk that the
first-parent chain ends; CommitWalk_cycle is the rest.

Other places where the code and the repository's own text differ, seen while
modelling, that no run states:

- A tag is a leaf of the walk (unreachable.rs:116), where refs.rs:34-36 skips the peel
  lines because the commit "is reachable via the tag object itself": a commit that only
  an annotated tag leads to is flagged.
- `resolve_ref` never reads packed-refs (refs.rs:124): after `git pack-refs`, or in a
  fresh clone, `head()` answers "not found", where repo.rs:42 says it resolves HEAD.
- A loose ref whose name, or whose directory's, is not UTF-8 is passed over without an
  error (refs.rs:94-96), where repo.rs:143 says every ref: what only it leads to is
  flagged. git allows such names.
- `resolve_ref` follows symbolic refs by calling itself without a bound
  (refs.rs:136; :8 says "never panics"): `ref: refs/heads/a` in `refs/heads/a`
  exhausts the stack.
- `list_refs` is `list_refs_checked().unwrap_or_default()` (refs.rs:13): one file
  that cannot be read empties the list; :8 says such refs are skipped.
- A lock file git is writing, `refs/heads/x.lock`, is listed as a ref
  (refs.rs:94-103); git passes over such names.
- A malformed loose ref shadows nothing, so its stale packed value is listed
  (refs.rs:104 against :46).
- A chain of delta bases by name longer than the limit is read, because
  `read_packed` starts the depth at 0 (pack.rs:47 against
  docs/decisions/0004, line 27); a stored delta whose base is nowhere is answered with
  "not found" (pack.rs:194 against repo.rs:55-58), and so is an object whose only
  index, damaged, does not lead to it (pack.rs:148).
- An index whose fanout does not end in the number of its names gives the offset of
  another slot, and `read_object` what stands there; only `verified` tells.
- `CommitWalker` follows first parents only, where attribution.rs:81 says every
  reachable commit.
- `audit_commit` compares a commit's committer time with its own author time and
  looks at no parent (forensic/src/lib.rs:116), where docs/index.md:46 describes
  the finding as a time that "precedes its parent's".
- What one branch hands to another during the audit may be flagged: the new
  branch is not listed yet, the old one gone when it is read (refs.rs:91).
- The size an entry's header declares is not compared with what inflates, nor
  the source size of a delta with its base (pack.rs:162, :247), and the output of
  `apply_delta` is not capped while it grows; SECURITY.md:45-53 speaks of limits
  on all of these. `checked_shl` (pack.rs:211, :302) refuses only whole shifts;
  bits above the word are lost.
- A loose file longer than the limit is cut there by `take` (loose.rs:73) and not
  reported as a bomb, as pack.rs:321 does.
- A tree entry or a commit that is not UTF-8 is refused (tree.rs:47,
  commit.rs:31); git allows both.
- An `objects/pack` that cannot be listed counts as empty (pack.rs:68 against
  :64-65), and `list_loose` passes over a shard it cannot list.
- `audit_reflog` judges a move by the words of its message and not by the move
  (forensic/src/reflog.rs:104), where docs/index.md:47 has it report "reflog entries
  whose old→new transition is non-fast-forward": a fetch that moves a branch back
  writes `forced-update`, a branch put elsewhere `branch: Reset to`, and neither is
  flagged.
- `audit_reflog` flags a reset, amend or rebase that left nothing behind, a
  fast-forward too; it drops lines without a message, which have no tab
  (core/src/reflog.rs:49); subjects that quote a keyword are flagged
  (forensic/src/reflog.rs:107-113), though :102 speaks of a trailing `(forced
  update)`, which git writes nowhere in a reflog.
- `GitRepo::open` takes a work tree with a file named HEAD for the git directory
  and does not follow a `.git` file (repo.rs:24-26).
- A commit made between the reading of the refs and the listing is flagged
  although a branch leads to it when the audit returns (unreachable.rs:131).

Why the bounds are enough to mean something. A walk goes wrong on sharing, cycles and
damage between a root and a leaf, and three objects have all of these. A lookup race
needs the object in two places and a third for git to move it to: two objects, two or
three packs, two commands. A decoder goes wrong at the boundary of a byte, of the word
and of the input: five-bit words with two bits to a byte have one- to three-byte
numbers and shifts that lose bits, as 64-bit words do, and inputs are cut at every
place. Three digits, sizes below 27 and modes below 9 have numbers of one to three
digits, zeros before them, and numbers just too large. The enumeration of refs needs
one ref that moves and one that does not. A delta chain needs a base in another pack
than its delta and a chain one longer than the limit; the limit is a constant (64 in
the code, 2 here). `MaxCommands` and `MaxWrites` bound git's commands; the steps of a
command are not bounded. In Refs git runs only in a `Plain` store (undamaged, no
symbolic ref but HEAD) and against the checked enumeration; the lenient one does the
same there. `MaxWalk` bounds only how many commits are recorded of an endless walk.

**Fairness.** `WF_vars(Next)` where only the reader moves (each `FairSpec`),
`WF_vars(ReaderStep)` in Refs: one thread runs a call from beginning to end, and the
operating system does not suspend it for ever. Nothing is assumed of git. Decode has
no liveness property: each step of a decoder moves on in its input. Runs that end stutter in an explicit `Terminated` step, so
deadlock is checked everywhere.

## Proofs

TLAPS checks, for every value of the constants:

*UnreachableProofs* — for every store, of any size and shape, and every set of
tips: `TypeCorrect`; `WalkInvariant`; `WalkProgress`; `DamageIsContained`; and
`Refinement`, that the audit implements the contract. The inductive invariant
is `WalkInv` with `TypeOK`: what is marked or queued is inside the closure of
the tips, the tips are marked or queued, and so are the links of every marked
object. The last two alone say nothing while the stack is not empty; the first
keeps the final `reached` from being too large. When the stack is empty
`reached` is closed and contains the tips, so it is the closure
(`AnswerIsExact`), and the difference with the listing is the contract's
verdict. The closure is defined as an intersection of closed sets, not by
recursion, so that these are facts of set theory (`ClosureProperties`).

*IdxLookupProofs* — for every set of indexes: `TypeCorrect`; `SearchShrinks`, that a
probe of any index shrinks the range (so a search ends); `SearchInvariant`, that in a
well-formed index the name sought stays in the range; `FoundOnlyOwn`, that even in a
damaged one whose fanout leads to git's names and ends in their number an offset found
is the one git wrote for the name (`AnswerInv`: the offset is read where git put it,
`OffsetIsOwn`); and `SearchExact`, that a well-formed index of any size answers
exactly. The invariant needs the order of the names and the fanout to count them, the
two conjuncts `Sorted` and `Counted` of `WellFormed`.

*LiveProofs* — for any number of objects, packs, branches and git commands:
`ReadHonest`, `BaseHonest` and `ListingComplete` for one call, `BranchesHonored` and
`GarbageFound` for the audit. The invariant is stated of one object at a time.
`Owed(h)` says where a call that has not met `h` is still to look: in a shard it has
not listed while `h` is loose, else in a pack it has not opened whose index holds `h`
(`Ahead`). A git step may move `h` only to where the call has yet to look, or remove
an index the call has listed, which then fails it: `Ahead` counts such a pack too. It
must, because pack names are not used up: a name may go and come back with other
objects. A call owes this to all of `always`, as long as it looks for the object
itself, and each call of the audit to all of `garbage`; of a base it looks up, it owes
what `packed` held when the packs were listed (`ReaderMeetsBase`). `WalkedInv` adds
what the audit has found: what a branch led to throughout is reached, queued, or below
what is, unless a read has failed.

*RefsProofs* — for any number of refs, directories, hashes and git commands, with
locks, damage and symbolic refs: `TypeCorrect`, `ListedOnce`, `NoRefLost`,
`NoneInvented`, `CheckedIsComplete` and `RootsAreAll`, every safety property of the
passing runs, with any names, of refs and of directories, not UTF-8. `Follow` is a
recursive function on the naturals; that it is what its
definition says is proved first, from the least-number principle (`Recursion`,
`FollowIs`). `Legible` says that a walk resolves only refs whose name is UTF-8.
`StoreInv` is what all the others rest on: the types; where the walk
stands (`Placed`, `Shape`: the walk is at most one directory below `refs/`); that a
lock holds a hash and stands beside a ref that may be set (`Steady`); and that the
history holds the present (`History`). The reader's steps are then restated
without their sequences (`ReaderSteps`), in terms of `Ahead(todo)`, the names still
to be met, so that each argument is one about sets:
  - `OnceInv`: no name ahead is listed already, nor HEAD before the end;
  - `FreshInv`: a ref is listed, ahead, being resolved, or was passed over because its
    file was not there, and then packed-refs, not yet read, has a value of it
    (`Fallback`). git may pack a ref and remove its file, update it or delete it:
    the value is among those recorded, or the ref among the deleted. This is why
    packed-refs must be read last, and is false in the other order;
  - `LoudInv`: what cannot be read is still ahead, or the call has failed;
  - `QuietInv` and `RestInv`, for a store at rest: each name passed shows the hash
    it directly holds. `RootsComplete` follows by induction on the number of
    symbolic refs that lead to a hash: the chain ends in a name that is listed.

*DeltaChainProofs* — for any number of packs of any contents: `TypeCorrect`,
`MissingIsMissing`, `HealthyStoreReads` and `ChainDescends`. In a healthy pack the
entries have a rank, the length of the chain below each, at most `MaxDepth`.
`Fits` says that the depth so far and the rank of the entry at hand stay within the
limit. It is kept because a base by offset has a smaller rank; and a base by name
starts the depth again in a pack where every rank fits. That pack sorts no later
than the one left, because the name is in that one. `TraceInv`, for damaged stores,
says that every entry opened is one that the object needs, and every name looked for one
that it needs or is; then "not found" is said where no pack's index names it and no loose
file is there: it is stored nowhere, or hidden by every index.

*CommitWalkProofs* — for every history: `TypeCorrect`, `ChainIsWhole`,
`MinorityIsFlagged`, `TimelineIsFaithful`. A walk is `Straight`, each commit a new
one, or `Looped`, inside a set of commits closed under first parents from which no
answer comes. A straight walk is recorded in full: distinct commits are at most
`Cardinality(Hash)` (`MaxWalkAssumption`). For the timeline, `Place` is shown to be a
bijection: the stable order is total, and two events never have one place.

*DecodeProofs* — for inputs of any length and content. `TypeCorrect`: no number leaves
the word. A size lies below its scale and the scale divides the word, so the group put
above it, though it may lose bits, never carries (`PlacedAbove`). The rest is one
invariant per parser, which says of the part read so far what the property says of
the answer:
  - `ResidueAccounted`, in every history and for a whole log: if each move that leaves a
    commit behind has words looked for, then each value the branch had is in the history
    of its present value or of the old value of a flagged move; and each flagged move is
    an operation with such words or quotes some (`LogInv`). A line either moves the
    branch to a descendant, whose history holds the old one (`AboveClosure`), or
    `classify_rewrite` names it (`ClassifyRewriting`), so its old value joins the
    findings (`LineAccounted`).
  - `LooseIsExact`: the reference is every way in which the bytes are a kind, a space, a
    size spelt somehow, a NUL and as many bytes. `Numeral`, how a number is written, and
    `Value`, what digits come to, are recursive functions; that they are what they say,
    and inverse up to a sign and zeros, is `NumeralIs`, `ValueIs`, `SpeltIs` and
    `NumberIs`. The first NUL ends the header, since no digit is one (`WellFormedIs`), so
    there is one way at most, the one read (`ObjectsAre`). The length fits the word
    because the limit does (`MaxLoose < SizeWord`).
  - `TreeIsExact`: the reference cuts a tree at every place where an entry could end;
    the parser only at the first NUL plus a hash. `cuts` is a recursive function, and
    that it satisfies its equation is proved first (`CutsAre`). Then the bytes leave no
    choice of an entry's NUL, nor of its first space, nor of its mode (`RecordRead`:
    there is one of `Readings`, the one read, or none and the tree is refused), and
    `TreeInv` follows: the cuts of the tree are the entries so far before each cut of
    the rest.
  - `CommitIsExact`: the lines read hold no blank one and none that is refused, and each
    field is that of the last line with its key, or of all of them for the parents
    (`CommitRead`). The parser therefore stops where the header ends, which is one
    place (`EndIs`), and a signature git wrote is read and writes out again as it was
    (`StampRead`), however long the name.

*PackProofs* — git's encoders, `SizeBytes` and `OfsLead`, are recursive functions on the
naturals; that each is what its definition says comes from `NatRecursion`, and what
holds of all their values from the least-number principle.
  - `EntryIsExact`: the size git wrote is the size so far plus the scale times a number
    whose bytes are the bytes to come (`HeadRead`), and the distance so far is the
    distance of the bytes so far (`DistRead`). `EntryInv` says so of every header, and
    every distance, that the bytes agree with so far. A byte that ends a number ends
    all the numbers it could be of, which makes one answer right for all of them.
  - `DeltaIsExact`: `SizesRight` says the same of the two sizes at the start of a delta.
    Then the output is what the instructions so far make (`OutRight`), and the bytes
    of a copy, zeros left out and 64 KiB written as nothing, give back its offset and
    its length (`CopyReads`).

The assumptions are the named `ASSUME`s of the modules. All are about types, but
these. `ObjectParseAssumption` has `MaxLoose < SizeWord`: 512 MiB against 2^64.
`PackBytesAssumption` says that the widths are powers of two (`Word` is divisible by
`First` and, scale by scale, by `Group`; `Big`, 64 KiB, is `Radix` squared), that a
byte after the first holds less than `Group`, and that a delta's size bytes are those
of two numbers. `RefsAssumption` keeps names, locks, hashes, directories and the
markers for malformed lines apart, as their spellings do; a lock belongs to one ref;
refs are finitely many; and only a `refs/` with a directory in it whose name is UTF-8
can be one whose directories cannot be listed. `MaxWalkAssumption` makes the bound on
the record of a walk large enough for every walk that ends.

Every safety property of the passing runs is proved; the liveness (`Terminates`,
`Ends`) is model-checked only, out of the prover's reach. `WalkProgress` and
`SearchShrinks` are the safety halves of two of them. The violation runs are
counterexamples and need no proof.

## Not modelled, and the plan

In order:

1. The error contract of `list_packed` and `list_loose` when a directory cannot be
   read, in LiveStore; a damaged first copy of an object hiding a sound second one.
2. Proofs: a measure that every step lowers, the safety half of `Ends`, for DeltaChain,
   Refs and Decode as for the others; the order of the walk and of the audit in
   LiveAudit as an implementation of UnreachableContract when git is idle.

Left out for good: report wording and severities, `GitRepo::open` (two existence
tests), hashing and inflation themselves, fuzz harnesses, CI.
