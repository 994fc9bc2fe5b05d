--------------------------------- MODULE Reflog ---------------------------------
(***************************************************************************)
(* audit_reflog (forensic/src/reflog.rs) with read_reflog and parse_line    *)
(* (core/src/reflog.rs): the lines that can be parsed, and of them those    *)
(* whose message names an operation that rewrites history.  A message is    *)
(* the operation git was asked for, in its own words, and the keywords that *)
(* the rest of the message happens to contain.                              *)
(***************************************************************************)
EXTENDS Decoder, FiniteSets

CONSTANTS
  Parents,   \* [commit -> SUBSET commits]: the history the branch moves in
  Logs       \* the logs read, see Log

Commit == DOMAIN Parents
None == 0    \* the all-zero hash

(* A log line may lack any of its parts, damaged or never written.          *)
Part == {"tab", "hash", "name", "email", "time", "zone"}
Keyword == {"commit (amend)", "filter-branch", "rebase", "(forced update)"}

(* The operations whose words classify_rewrite looks for, and others: a fetch,
   a push and a branch put elsewhere ("fetch: forced-update", "update by push",
   "branch: Reset to") may leave commits behind too.                        *)
Rewriting == {"reset", "amend", "filter-branch", "rebase"}
Operation == Rewriting \cup {"commit", "merge", "fetch", "push", "branch"}
LogLine == [lacks : SUBSET Part, old : Commit \cup {None}, new : Commit \cup {None},
            op : Operation, quotes : SUBSET Keyword]

Log == {l \in [file : {"absent", "unreadable", "there"}, lines : Seq(LogLine)] :
          l.file # "there" => l.lines = << >>}

ASSUME ReflogAssumption ==
  /\ Commit \subseteq Nat \ {None}
  /\ \A c \in Commit : Parents[c] \subseteq Commit
  /\ Logs \subseteq Log

-----------------------------------------------------------------------------
(* The definitions named "...Fault" are seeded faults: each stands for a
   plausible mistake in the definition that follows it, and is used only to
   show that a property would notice it.                                    *)

(* parse_line: the zone alone has a default.                                *)
Parsed(line) == line.lacks \subseteq {"zone"}

(* The keywords of classify_rewrite in git's own words for an operation: none
   has "(forced update)", which only what is quoted may have.               *)
Own(op) ==
  CASE op = "amend"         -> {"commit (amend)"}
    [] op = "filter-branch" -> {"filter-branch"}
    [] op = "rebase"        -> {"rebase"}
    [] OTHER                -> {}

(* classify_rewrite: the prefix "reset:", then the first of these that the
   message contains anywhere.                                               *)
ClassifyFault(line) ==                              \* an amend is a commit
  IF line.op \in Rewriting \ {"amend"} THEN line.op ELSE "none"
Says(line, word) == word \in Own(line.op) \cup line.quotes
Classify(line) ==
  IF line.op = "reset"                     THEN "reset"
  ELSE IF Says(line, "commit (amend)")     THEN "amend"
  ELSE IF Says(line, "filter-branch")      THEN "filter-branch"
  ELSE IF Says(line, "rebase")             THEN "rebase"
  ELSE IF Says(line, "(forced update)")    THEN "forced-update"
  ELSE "none"

(* read_reflog: no file is no entry.                                        *)
OpenLog ==
  /\ Reading("audit_reflog")
  /\ \/ input.file = "unreadable" /\ Return("io")
     \/ input.file = "absent" /\ Return("ok")

Drop == Advance(1, acc)

NextLine ==
  /\ Reading("audit_reflog") /\ input.file = "there" /\ pos <= Len(input.lines)
  /\ LET line == input.lines[pos]
     IN  IF ~Parsed(line) \/ Classify(line) = "none" THEN Drop
         ELSE Advance(1, Append(acc, [old |-> line.old, new |-> line.new, operation |-> Classify(line)]))

LogEnd ==
  /\ Reading("audit_reflog") /\ input.file = "there" /\ pos > Len(input.lines)
  /\ Return("ok")

ReflogStep == OpenLog \/ NextLine \/ LogEnd

-----------------------------------------------------------------------------
(* A commit and what led to it.                                             *)
Above(c) ==
  {d \in Commit : \A S \in SUBSET Commit :
     c \in S /\ (\A x \in S : Parents[x] \subseteq S) => d \in S}

(* A move that leaves what the branch had behind: not a fast-forward.       *)
LeavesBehind(line) == line.old # None /\ line.old \notin Above(line.new)

(* The log of a branch that git made, whole, with a message to every line.  A
   commit or a merge goes on from what the branch had.                      *)
GitLog(lines) ==
  \A i \in DOMAIN lines :
    /\ lines[i].lacks = {} /\ lines[i].new # None
    /\ i > 1 => lines[i].old = lines[i - 1].new
    /\ lines[i].op \in {"commit", "merge"} => ~LeavesBehind(lines[i])

(* Its message has words that classify_rewrite looks for.                   *)
InItsWords(line) == line.op \in Rewriting \/ "(forced update)" \in line.quotes

(* Where every move that leaves a commit behind says so in the words that
   classify_rewrite looks for, no value the branch ever had gets lost: each is
   part of its present history, or part of the history of the old tip of a
   flagged move, however the moves pile up.  A flagged move is an operation
   with such words, whether or not it left anything behind, or quotes some;
   one that quotes none is flagged as the operation it was.                 *)
ResidueFlagged ==
  Finished("audit_reflog") /\ input.lines # << >> /\ GitLog(input.lines) =>
    LET lines  == input.lines
        had    == {lines[i].new : i \in DOMAIN lines} \cup ({lines[1].old} \ {None})
        traces == {lines[Len(lines)].new} \cup ({acc[i].old : i \in DOMAIN acc} \ {None})
    IN  result = "ok" =>
          /\ (\A i \in DOMAIN lines : LeavesBehind(lines[i]) => InItsWords(lines[i])) =>
               had \subseteq UNION {Above(c) : c \in traces}
          /\ \A i \in DOMAIN acc : \E j \in DOMAIN lines :
               /\ lines[j].old = acc[i].old /\ lines[j].new = acc[i].new
               /\ lines[j].op \in Rewriting \/ lines[j].quotes # {}
               /\ lines[j].quotes = {} => acc[i].operation = lines[j].op
=============================================================================
