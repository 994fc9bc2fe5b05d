------------------------------- MODULE CommitWalk -------------------------------
(***************************************************************************)
(* GitRepo::walk_commits (core/src/repo.rs: CommitWalker) and the three     *)
(* audits that consume it: audit_repo (forensic/src/lib.rs),                *)
(* audit_signatures_repo (forensic/src/signatures.rs) and attribution_repo  *)
(* (forensic/src/attribution.rs).  Each step pulls one item from the walker *)
(* and lets the audit take it; the first error is the audit's answer.       *)
(***************************************************************************)
EXTENDS Naturals, Sequences, FiniteSets, Functions

CONSTANTS
  Hash,     \* object names
  Time,     \* timestamps, a set of naturals
  Graphs,   \* the histories walked, each in [Hash -> Object]
  Ops,      \* the audits run
  MaxWalk   \* bound on the commits recorded of an endless walk

(* commit: FALSE when read_commit(hash) fails, for whatever reason (absent,
   unreadable, another kind, a payload CommitObject::parse refuses).        *)
Object ==
  [commit : BOOLEAN, parents : Seq(Hash), author : Time, committer : Time, signed : BOOLEAN]

Audit == {"audit_repo", "audit_signatures_repo", "attribution_repo"}

ASSUME CommitWalkAssumption ==
  /\ Time \subseteq Nat /\ MaxWalk \in Nat
  /\ Graphs \subseteq [Hash -> Object] /\ Ops \subseteq Audit

(* A chain that ends has no commit twice: all of it is recorded.            *)
ASSUME MaxWalkAssumption == IsFiniteSet(Hash) /\ Cardinality(Hash) <= MaxWalk

VARIABLES
  graph, from, op,  \* the history, the commit asked for, the audit
  pc,               \* "walk", then "ok" or "err"
  next,             \* CommitWalker.next: {} for None, {h} for Some(h)
  walked,           \* the commits the audit has been given, in order
  out               \* what the audit returns, once it does

vars == <<graph, from, op, pc, next, walked, out>>

(* The definitions named "...Fault" are seeded faults: each stands for a
   plausible mistake in the definition that follows it, and is used only to
   show that a property would notice it.                                    *)

(* commit.parents.first()                                                   *)
FirstFault(parents) ==                              \* parents.last()
  IF parents = << >> THEN {} ELSE {parents[Len(parents)]}
FirstAllFault(parents) == Range(parents)            \* every parent
First(parents) == IF parents = << >> THEN {} ELSE {parents[1]}

Record(h) == IF Len(walked) < MaxWalk THEN Append(walked, h) ELSE walked

-----------------------------------------------------------------------------
(* audit_commit: the committer's clock is behind the author's.              *)
Inverted(c) == c.committer < c.author

TimeAnomalies(commits) == {h \in Range(commits) : Inverted(graph[h])}

(* audit_signatures: unsigned commits, when a strict majority is signed.    *)
SignedCount(commits) == Cardinality({i \in DOMAIN commits : graph[commits[i]].signed})

MajorityFault(signed, total) == signed > 0          \* any signature will do
Majority(signed, total) == signed > 0 /\ signed * 2 > total

SignatureAnomalies(commits) ==
  IF Majority(SignedCount(commits), Len(commits))
  THEN {h \in Range(commits) : ~graph[h].signed} ELSE {}

(* attribution_timeline: two events for each commit, author before
   committer, then a stable sort by time and role.                          *)
Events(commits) ==
  [k \in 1..2 * Len(commits) |->
     LET h == commits[(k + 1) \div 2]
     IN  IF k % 2 = 1
         THEN [commit |-> h, role |-> 0, time |-> graph[h].author]
         ELSE [commit |-> h, role |-> 1, time |-> graph[h].committer]]

BeforeFault(a, b) == a.time < b.time                \* ties in walk order
Before(a, b) == a.time < b.time \/ (a.time = b.time /\ a.role < b.role)

(* The place of event k in a stable sort: after every event that is less,
   and after those that are not greater and came first.                     *)
Place(events, k) ==
  Cardinality({j \in DOMAIN events :
    \/ Before(events[j], events[k])
    \/ (j <= k /\ ~Before(events[k], events[j]))})

StableSort(events) ==
  [p \in DOMAIN events |-> events[CHOOSE k \in DOMAIN events : Place(events, k) = p]]

Timeline(commits) == StableSort(Events(commits))

Nothing == [flagged |-> {}, timeline |-> << >>]

Answer(commits) ==
  CASE op = "audit_repo" -> [Nothing EXCEPT !.flagged = TimeAnomalies(commits)]
    [] op = "audit_signatures_repo" -> [Nothing EXCEPT !.flagged = SignatureAnomalies(commits)]
    [] op = "attribution_repo" -> [Nothing EXCEPT !.timeline = Timeline(commits)]

-----------------------------------------------------------------------------
Init ==
  /\ graph \in Graphs /\ from \in Hash /\ op \in Ops
  /\ pc = "walk" /\ next = {from} /\ walked = << >> /\ out = Nothing

TakeCommitFault ==                                  \* next is not moved on
  /\ pc = "walk"
  /\ \E h \in next : graph[h].commit /\ walked' = Record(h)
  /\ UNCHANGED <<pc, next, out>>

(* next() reads the commit and moves to its first parent.                   *)
TakeCommit ==
  /\ pc = "walk"
  /\ \E h \in next :
       /\ graph[h].commit
       /\ walked' = Record(h)
       /\ next' = First(graph[h].parents)
  /\ UNCHANGED <<pc, out>>

(* next() yields the error; `?` makes it the audit's answer.                *)
TakeErrorFault(h) == "ok"                           \* `while let Some(Ok(c))`
TakeError(h) == "err"

Fail ==
  /\ pc = "walk"
  /\ \E h \in next : ~graph[h].commit /\ pc' = TakeError(h)
  /\ next' = {}
  /\ UNCHANGED <<walked, out>>

Conclude ==
  /\ pc = "walk" /\ next = {}
  /\ pc' = "ok" /\ out' = Answer(walked)
  /\ UNCHANGED <<next, walked>>

Terminated == pc # "walk" /\ UNCHANGED vars

Next ==
  \/ /\ TakeCommit \/ Fail \/ Conclude
     /\ UNCHANGED <<graph, from, op>>
  \/ Terminated

Spec == Init /\ [][Next]_vars

(* One thread runs the audit to its end.                                    *)
FairSpec == Spec /\ WF_vars(Next)

-----------------------------------------------------------------------------
TypeOK ==
  /\ graph \in [Hash -> Object] /\ from \in Hash /\ op \in Ops
  /\ pc \in {"walk", "ok", "err"}
  /\ next \in SUBSET Hash /\ Cardinality(next) <= 1
  /\ walked \in Seq(Hash) /\ Len(walked) <= MaxWalk

(* Every commit of the first-parent chain is audited once, in order, from
   the start to a commit without parents, or the audit answers an error: it
   never answers from a part of the history, as of a shallow clone.         *)
WholeChain ==
  pc = "ok" =>
    /\ walked # << >> /\ walked[1] = from
    /\ \A i \in 1..Len(walked) :
         /\ graph[walked[i]].commit
         /\ IF i < Len(walked) THEN walked[i + 1] = graph[walked[i]].parents[1]
            ELSE graph[walked[i]].parents = << >>
    /\ \A i, j \in DOMAIN walked : walked[i] = walked[j] => i = j

(* The timeline holds every event of the chain once, by time, authors before
   committers at the same time, and then by the order of the walk.  It tells
   the same story as audit_repo would: a commit is a time inversion exactly
   when its committer event comes before its author event.                  *)
TimelineFaithful ==
  pc = "ok" /\ op = "attribution_repo" =>
    LET line == out.timeline
    IN  /\ Len(line) = 2 * Len(walked)
        /\ {<<e.commit, e.role>> : e \in Range(line)} = Range(walked) \X {0, 1}
        /\ \A p, q \in DOMAIN line :
             p < q => \/ line[p].time < line[q].time
                      \/ (line[p].time = line[q].time /\ line[p].role <= line[q].role)
        /\ \A p, q \in DOMAIN line :
             p < q /\ line[p].time = line[q].time /\ line[p].role = line[q].role =>
               \E i, j \in DOMAIN walked :
                 i < j /\ walked[i] = line[p].commit /\ walked[j] = line[q].commit
        /\ \A h \in Range(walked) :
             h \in TimeAnomalies(walked) <=>
               \E p, q \in DOMAIN line :
                 /\ p < q
                 /\ line[p].commit = h /\ line[p].role = 1
                 /\ line[q].commit = h /\ line[q].role = 0

(* Unsigned commits stand out only against a signed majority: the flagged
   are fewer than half of the chain, and are all of its unsigned commits.   *)
MinorityFlagged ==
  pc = "ok" /\ op = "audit_signatures_repo" =>
    LET unsigned == {h \in Range(walked) : ~graph[h].signed}
        minority == 2 * Cardinality(unsigned) < Len(walked)
    IN  out.flagged = IF minority THEN unsigned ELSE {}

(* The n-th commit of the first-parent chain, {} beyond its end.            *)
Chain[n \in Nat] ==
  IF n = 0 THEN {from}
  ELSE UNION {IF graph[h].commit THEN First(graph[h].parents) ELSE {} : h \in Chain[n - 1]}

(* The audit ends on every history whose first-parent chain does: on every
   one but those that damage has closed into a loop.                         *)
Ends == Chain[Cardinality(Hash)] = {} => <>(pc # "walk")

-----------------------------------------------------------------------------
(* What a document of the repository says of the program.                    *)

(* "delta chains and object walks are bounded against non-terminating
   traversals" (SECURITY.md): every audit ends.                              *)
WalkBounded == <>(pc # "walk")

=============================================================================
