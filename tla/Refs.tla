---------------------------------- MODULE Refs ----------------------------------
(***************************************************************************)
(* Ref resolution and enumeration (core/src/refs.rs: resolve_ref,           *)
(* collect_loose_refs_checked, list_refs_checked, list_refs) and the        *)
(* GitRepo calls over them (core/src/repo.rs: head, all_refs,               *)
(* all_refs_checked), against a .git directory that a running git may       *)
(* update, pack and delete refs in.  Every file the reader opens is one     *)
(* step; git writes each file under another name, a lock, and renames it.   *)
(***************************************************************************)
EXTENDS Naturals, FiniteSets, SequencesExt

CONSTANTS
  Ref,         \* names under refs/
  Dir,         \* directories under refs/
  DirOf,       \* [Ref -> Dir \cup {RefsRoot}]: where the file of each ref is
  NotUtf8,     \* the refs and directories whose file name is not UTF-8
  LockOf,      \* [Ref -> names]: the file git prepares a new value of each ref in
  Hash,        \* object names
  LooseFiles,  \* what the loose ref files, and HEAD, may hold initially
  PackedFiles, \* what packed-refs may be initially
  RefsDirs,    \* what refs/ may be: "dir", "absent", "broken", or "partly", a
               \* directory whose own directories cannot be listed
  Ops,         \* the calls made: "list_refs", "list_refs_checked", "head"
  MaxWrites    \* bound on the commands git runs meanwhile

HEAD == "HEAD"
RefsRoot == "refs"
Lock == Range(LockOf)
File == Ref \cup Lock \cup {HEAD}

(* The entries of a directory that are passed over, and the files whose whole
   name, directory and all, is no string: nothing ever opens them.          *)
Skipped == NotUtf8 \cup {LockOf[n] : n \in Ref \cap NotUtf8}
Illegible == {n \in Ref : n \in NotUtf8 \/ DirOf[n] \in NotUtf8}
Unseen == Illegible \cup {LockOf[n] : n \in Illegible}

(* A loose ref file: absent, a hash, a symbolic ref (to a file or to a bare
   40-hex name), text that is no hash, or a file whose read fails (no
   permission, a directory, bytes that are not UTF-8).                      *)
Content ==
  [t : {"none", "bad", "io"}] \cup [t : {"hash"}, h : Hash]
    \cup [t : {"sym"}, to : File \cup Hash]

None == [t |-> "none"]
Direct(h) == [t |-> "hash", h |-> h]

(* packed-refs: absent, unreadable, or lines "<sha> <name>" whose sha may be
   malformed; comment and "^" peel lines carry no name and are skipped.     *)
BadSha == "bad"
Peel == "^"
Line == [name : Ref \cup {Peel}, sha : Hash \cup {BadSha}]
PackedFile == [t : {"none", "io"}] \cup [t : {"lines"}, lines : Seq(Line)]

ASSUME RefsAssumption ==
  /\ LooseFiles \subseteq [Ref \cup {HEAD} -> Content]
  /\ PackedFiles \subseteq PackedFile
  /\ DirOf \in [Ref -> Dir \cup {RefsRoot}]
  /\ RefsDirs \subseteq {"dir", "absent", "broken", "partly"}
  /\ Ops \subseteq {"list_refs", "list_refs_checked", "head"}
  /\ IsFiniteSet(Ref) /\ MaxWrites \in Nat
  /\ NotUtf8 \subseteq Ref \cup Dir
  /\ "partly" \in RefsDirs => Dir \ NotUtf8 # {}
  /\ DOMAIN LockOf = Ref /\ IsInjective(LockOf)
  /\ {HEAD, RefsRoot} \cap (Ref \cup Lock \cup Hash \cup Dir) = {}
  /\ Peel \notin Ref \cup Lock /\ BadSha \notin Hash
  /\ Ref \cap (Lock \cup Hash) = {} /\ Dir \cap (Ref \cup Lock \cup Hash) = {} /\ Lock \cap Hash = {}

VARIABLES
  loose,     \* [File -> Content]: the files refs/<name> and HEAD
  packed,    \* packed-refs
  refsDir,   \* the directory refs/
  op, pc,    \* the reader's call and where it stands in it
  todo,      \* the entries left of refs/ and, last, of each directory in it being walked
  asked,     \* the ref being resolved, for the caller
  cur,       \* the name the resolution has reached by following symbolic refs
  out,       \* Vec<(String, GitHash)>, its order forgotten
  result,    \* "ok", "err" (Io), "miss" (RefNotFound) once pc = "done"
  prune,     \* git pack-refs: <<name, hash>> pairs whose loose file must go
  deleting,  \* git update-ref -d: the ref, between its two writes
  writes,    \* git commands run so far
  held,      \* [File -> SUBSET Hash]: values each ref has had (history)
  gone       \* refs that, at some moment, did not exist or were being deleted (history)

files  == <<loose, packed, refsDir>>
reader == <<op, pc, todo, asked, cur, out, result>>
git    == <<prune, deleting, writes>>
vars   == <<files, reader, git, held, gone>>

Names(pairs) == {p[1] : p \in pairs}

(* The definitions named "...Fault" are seeded faults: each stands for a
   plausible mistake in the definition that follows it, and is used only to
   show that a property would notice it.                                    *)

(* The entries packed-refs adds: for each name not listed yet, its first
   line with a well-formed hash.                                            *)
GoodFault(line) == line.name # Peel                 \* the hash is not parsed
Good(line) == line.name # Peel /\ line.sha # BadSha

ShadowFault(lines, listed) ==                       \* loose refs do not shadow
  {<<lines[i].name, lines[i].sha>> : i \in {j \in DOMAIN lines : Good(lines[j])}}
AddedByPacked(lines, listed) ==
  {<<lines[i].name, lines[i].sha>> : i \in
     {j \in DOMAIN lines :
        /\ Good(lines[j]) /\ lines[j].name \notin listed
        /\ \A k \in 1..j-1 : Good(lines[k]) => lines[k].name # lines[j].name}}

-----------------------------------------------------------------------------
(* What git itself takes a ref to be: the loose file when there is one, else
   the packed line; symbolic refs are followed.                             *)
PackedValue(n) ==
  IF packed.t # "lines" THEN {}
  ELSE LET good == {i \in DOMAIN packed.lines :
                      packed.lines[i].name = n /\ packed.lines[i].sha # BadSha}
       IN  {packed.lines[i].sha : i \in {j \in good : \A k \in good : j <= k}}

PackedPairs(names) == {p \in names \X Hash : p[2] \in PackedValue(p[1])}

(* The value of a name, given those of the targets of symbolic refs.        *)
Leads(f, there) ==
  IF f \in Hash THEN {f}
  ELSE CASE loose[f].t = "hash" -> {loose[f].h}
         [] loose[f].t = "none" -> PackedValue(f)
         [] loose[f].t = "sym"  -> there[loose[f].to]
         [] OTHER               -> {}

Nowhere == [f \in File \cup Hash |-> {}]

Follow[k \in Nat] ==
  [f \in File \cup Hash |-> Leads(f, IF k = 0 THEN Nowhere ELSE Follow[k - 1])]

(* {} when the ref does not exist or cannot be resolved, else one hash.     *)
GitValue(f) == Follow[Cardinality(Ref) + 1][f]

-----------------------------------------------------------------------------
(* Where git is let run: while list_refs_checked enumerates (list_refs is the
   same but for its errors), in a store that is undamaged and has no symbolic
   ref but HEAD; elsewhere the bound on its commands is spent from the start. *)
Plain ==
  /\ refsDir = "dir" /\ packed.t # "io"
  /\ packed.t = "lines" => \A line \in Range(packed.lines) : line.sha # BadSha
  /\ \A n \in Ref : loose[n].t \in {"none", "hash"}
  /\ loose[HEAD].t \in {"none", "hash", "sym"}

Init ==
  /\ \E refs \in LooseFiles : loose = [f \in File |-> IF f \in Lock THEN None ELSE refs[f]]
  /\ packed \in PackedFiles /\ refsDir \in RefsDirs
  /\ refsDir \in {"absent", "broken"} => \A n \in Ref : loose[n] = None
  /\ op \in Ops /\ pc = "start"
  /\ todo = << >> /\ asked = HEAD /\ cur = HEAD /\ out = {} /\ result = "none"
  /\ prune = {} /\ deleting = {}
  /\ writes = IF Plain /\ op = "list_refs_checked" THEN 0 ELSE MaxWrites
  /\ held = [f \in File |-> GitValue(f)]
  /\ gone = {n \in Ref : GitValue(n) = {}}

Finish(r, listed) ==
  /\ pc' = "done" /\ result' = r
  /\ out' = listed
  /\ UNCHANGED <<todo, asked, cur>>

(* An Io error: list_refs turns it into an empty list (unwrap_or_default),
   the checked calls return it.                                             *)
Fail == IF op = "list_refs" THEN Finish("ok", {}) ELSE Finish("err", {})

(* The order in which the sources of refs are read.                         *)
AfterFault(phase) ==                                \* packed-refs first
  CASE phase = "start" -> "packed" [] phase = "packed" -> "refs" [] phase = "refs" -> "head"
After(phase) ==
  CASE phase = "start" -> "refs" [] phase = "refs" -> "packed" [] phase = "packed" -> "head"

Begin ==
  /\ pc = "start"
  /\ IF op = "head" THEN pc' = "resolve" ELSE pc' = After("start")
  /\ UNCHANGED <<op, todo, asked, cur, out, result>>

(* What read_dir finds in refs/ or in a directory there: directories, which
   may be empty, ref files and the locks beside them.                       *)
Entries(dir) ==
  LET here == {n \in Ref : DirOf[n] = dir}
  IN  {f \in here \cup {LockOf[n] : n \in here} : loose[f].t # "none"}
        \cup (IF dir = RefsRoot THEN Dir ELSE {})

(* read_dir(refs/); that it is not there is no error.                       *)
ReadRefsDir ==
  /\ pc = "refs"
  /\ \/ refsDir = "broken" /\ Fail
     \/ /\ refsDir # "broken"
        /\ todo' = IF refsDir = "absent" THEN <<{}>> ELSE <<Entries(RefsRoot)>>
        /\ pc' = "entries"
        /\ UNCHANGED <<asked, cur, out, result>>
  /\ UNCHANGED op

RemainingFault(n) == todo                           \* the iterator stands still
Remaining(n) == [todo EXCEPT ![Len(todo)] = @ \ {n}]

(* An entry whose name is not UTF-8 is passed over, what is below it too.
   One that is a directory is walked at once, before the rest; any other is
   resolved as a ref.                                                       *)
RestFault(n) == [todo EXCEPT ![Len(todo)] = {}]     \* break where continue is meant
Rest(n) == Remaining(n)

NextEntry ==
  /\ pc = "entries"
  /\ \/ \E n \in Last(todo) \cap Skipped :
          todo' = Rest(n) /\ UNCHANGED <<pc, asked, cur, out, result>>
     \/ \E n \in Last(todo) \ (Dir \cup Skipped) :
          /\ todo' = Remaining(n)
          /\ asked' = n /\ cur' = n /\ pc' = "resolve"
          /\ UNCHANGED <<out, result>>
     \/ \E d \in (Last(todo) \cap Dir) \ Skipped :
          IF refsDir = "partly" THEN Fail
          ELSE /\ todo' = Append(Remaining(d), Entries(d))
               /\ UNCHANGED <<pc, asked, cur, out, result>>
     \/ /\ Last(todo) = {}
        /\ todo' = Front(todo)
        /\ pc' = IF Len(todo) = 1 THEN After("refs") ELSE pc
        /\ UNCHANGED <<asked, cur, out, result>>
  /\ UNCHANGED op

(* packed-refs is read as one string, whatever names are in it.             *)
Undecodable == packed.t = "lines" /\ \E line \in Range(packed.lines) : line.name \in Illegible

ReadPacked ==
  /\ pc = "packed"
  /\ \/ (packed.t = "io" \/ Undecodable) /\ Fail
     \/ /\ packed.t # "io" /\ ~Undecodable
        /\ out' = IF packed.t = "none" THEN out
                  ELSE out \cup AddedByPacked(packed.lines, Names(out))
        /\ pc' = After("packed")
        /\ UNCHANGED <<todo, asked, cur, result>>
  /\ UNCHANGED op

ResolveHead ==
  /\ pc = "head"
  /\ asked' = HEAD /\ cur' = HEAD /\ pc' = "resolve"
  /\ UNCHANGED <<op, todo, out, result>>

(* The caller of resolve_ref takes its answer: head() returns it, the
   enumeration pushes the pair or skips the miss, and goes on; HEAD is its
   last ref, pushed unless something else has its name.                     *)
Answer(pairs) ==
  CASE op = "head" -> Finish(IF pairs = {} THEN "miss" ELSE "ok", pairs)
    [] op # "head" /\ asked = HEAD ->
         Finish("ok", out \cup {p \in pairs : HEAD \notin Names(out)})
    [] OTHER -> /\ out' = out \cup pairs /\ pc' = "entries"
                /\ UNCHANGED <<todo, asked, cur, result>>

(* A file that exists but cannot be read is an error, not a miss.           *)
MissFault(c) == c.t \in {"none", "bad", "io"}       \* any error is a miss
Miss(c) == c.t \in {"none", "bad"}

(* ... and so is one that names a target which is no string.                *)
Unread(c) == c.t = "io" \/ (c.t = "sym" /\ c.to \in Unseen)

(* One call of resolve_ref; a symbolic ref is followed by calling it again
   on the target, which only a loose file, or a bare hash, can answer.      *)
Resolve ==
  /\ pc = "resolve"
  /\ \/ cur \in Hash /\ Answer({<<asked, cur>>})
     \/ /\ cur \in File /\ loose[cur].t = "hash"
        /\ Answer({<<asked, loose[cur].h>>})
     \/ /\ cur \in File /\ loose[cur].t = "sym" /\ ~Unread(loose[cur])
        /\ cur' = loose[cur].to
        /\ UNCHANGED <<pc, todo, asked, out, result>>
     \/ cur \in File /\ Miss(loose[cur]) /\ Answer({})
     \/ cur \in File /\ Unread(loose[cur]) /\ ~Miss(loose[cur]) /\ Fail
  /\ UNCHANGED op

ReaderStep ==
  /\ \/ Begin \/ ReadRefsDir \/ NextEntry \/ ReadPacked \/ ResolveHead \/ Resolve
  /\ UNCHANGED <<files, git, held, gone>>

-----------------------------------------------------------------------------
(* git, at work in the same directory.                                      *)

Remember ==
  /\ held' = [f \in File |-> held[f] \cup GitValue(f)']
  /\ gone' = gone \cup deleting' \cup {n \in Ref : GitValue(n)' = {}}

Command == writes < MaxWrites /\ writes' = writes + 1

(* git commit, branch, fetch: the lock file is written, then renamed.  (One
   that is not written yet is empty, which the reader passes over.)         *)
LockRef(n, h) ==
  /\ Command /\ refsDir = "dir" /\ n \notin deleting
  /\ loose[n].t \in {"none", "hash"} /\ loose[n] # Direct(h) /\ loose[LockOf[n]] = None
  /\ loose' = [loose EXCEPT ![LockOf[n]] = Direct(h)]
  /\ UNCHANGED <<packed, refsDir, prune, deleting>>

UpdateRef(n) ==
  /\ loose[LockOf[n]].t = "hash"
  /\ loose' = [loose EXCEPT ![n] = loose[LockOf[n]], ![LockOf[n]] = None]
  /\ UNCHANGED <<packed, refsDir, prune, deleting, writes>>

(* git pack-refs --all (also run by gc): packed-refs is replaced first ...  *)
LinesFor(pairs) ==
  CHOOSE s \in [1..Cardinality(pairs) -> Line] :
    Range(s) = {[name |-> p[1], sha |-> p[2]] : p \in pairs}

PackRefs ==
  LET direct == {n \in Ref : loose[n].t = "hash"}
      old    == PackedPairs(Ref \ direct)
      new    == {<<n, loose[n].h>> : n \in direct}
  IN  /\ Command /\ packed.t # "io" /\ prune = {} /\ deleting = {} /\ direct # {}
      /\ packed' = [t |-> "lines", lines |-> LinesFor(old \cup new)]
      /\ prune' = new
      /\ UNCHANGED <<loose, refsDir, deleting>>

(* ... then each loose file goes, unless it changed meanwhile or is locked. *)
PruneLoose(p) ==
  /\ p \in prune /\ prune' = prune \ {p}
  /\ loose' = IF loose[p[1]] = Direct(p[2]) /\ loose[LockOf[p[1]]] = None THEN [loose EXCEPT ![p[1]] = None] ELSE loose
  /\ UNCHANGED <<packed, refsDir, deleting, writes>>

(* git branch -d: out of packed-refs first, then the loose file.            *)
DeleteRef(n) ==
  /\ Command /\ prune = {} /\ deleting = {} /\ packed.t # "io"
  /\ GitValue(n) # {} /\ loose[n].t \in {"none", "hash"} /\ loose[LockOf[n]] = None
  /\ packed' = IF packed.t = "lines"
               THEN [packed EXCEPT !.lines = LinesFor(PackedPairs(Ref \ {n}))] ELSE packed
  /\ deleting' = {n}
  /\ UNCHANGED <<loose, refsDir, prune>>

DeleteLoose(n) ==
  /\ n \in deleting /\ deleting' = {}
  /\ loose' = [loose EXCEPT ![n] = None]
  /\ UNCHANGED <<packed, refsDir, prune, writes>>

(* git switch: HEAD becomes a symbolic ref to another branch.               *)
SwitchHead(n) ==
  /\ Command
  /\ loose' = [loose EXCEPT ![HEAD] = [t |-> "sym", to |-> n]]
  /\ UNCHANGED <<packed, refsDir, prune, deleting>>

GitStep ==
  /\ \/ \E n \in Ref, h \in Hash : LockRef(n, h)
     \/ PackRefs
     \/ \E p \in prune : PruneLoose(p)
     \/ \E n \in Ref : UpdateRef(n) \/ DeleteRef(n) \/ DeleteLoose(n) \/ SwitchHead(n)
  /\ pc # "done"
  /\ Remember
  /\ UNCHANGED reader

Terminated == pc = "done" /\ UNCHANGED vars

Next == ReaderStep \/ GitStep \/ Terminated

Spec == Init /\ [][Next]_vars

(* The reader's thread is never preempted for ever; git owes it nothing.    *)
FairSpec == Spec /\ WF_vars(ReaderStep)

-----------------------------------------------------------------------------
Listing == pc = "done" /\ op # "head" /\ result = "ok"

TypeOK ==
  /\ loose \in [File -> Content]
  /\ packed.t \in {"none", "io", "lines"}
  /\ packed.t = "lines" => Range(packed.lines) \subseteq Line
  /\ refsDir \in RefsDirs /\ op \in Ops
  /\ pc \in {"start", "refs", "entries", "packed", "head", "resolve", "done"}
  /\ todo \in Seq(SUBSET (Ref \cup Lock \cup Dir)) /\ Len(todo) <= 2 /\ asked \in File /\ cur \in File \cup Hash
  /\ out \subseteq File \X Hash
  /\ result \in {"none", "ok", "err", "miss"}
  /\ prune \subseteq Ref \X Hash /\ deleting \subseteq Ref /\ writes \in 0..MaxWrites
  /\ held \in [File -> SUBSET Hash] /\ gone \subseteq Ref

(* A ref is listed once: a caller that builds a map from the pairs loses
   nothing, whatever git moves between the loose files and packed-refs.     *)
OncePerName == \A p, q \in out : p[1] = q[1] => p = q

Unreadable ==
  \/ refsDir \in {"broken", "partly"} \/ packed.t = "io"
  \/ packed.t = "lines" /\ \E line \in Range(packed.lines) : line.name \in Illegible
  \/ \E f \in File \ Unseen : loose[f].t = "io" \/ (loose[f].t = "sym" /\ loose[f].to \in Unseen)

(* git ran no command during the call.                                      *)
AtRest == Plain => writes = 0

(* A ref that exists, and that nobody begins to delete, all the while it is
   enumerated, directory by directory, is listed with a value it had
   meanwhile: packing it, updating it or deleting another cannot hide it.
   Excepted are refs that are symbolic, and those whose name is not UTF-8,
   which are never listed.  Only the lenient list_refs may lose a ref, with
   all the others, when something cannot be read.                           *)
RefKept ==
  Listing /\ (op = "list_refs" => ~Unreadable) =>
    \A n \in Ref \ (gone \cup Illegible) :
      loose[n].t # "sym" => \E h \in held[n] : <<n, h>> \in out

(* Nothing is invented: the value listed for a ref is one it had meanwhile,
   that of a lock file, listed as if it were a ref, one git prepared for its
   ref, and HEAD's is one that some ref, or HEAD itself, had.  (A loose file that
   is malformed, or symbolic to a packed ref, does not shadow a stale packed
   line of its name: those are excepted.)                                   *)
NoPhantom ==
  Listing => \A p \in out :
    IF p[1] = HEAD THEN p[2] \in UNION Range(held)
    ELSE loose[p[1]].t \in {"none", "hash"} => p[2] \in held[p[1]]

(* Every hash that HEAD, or a ref with a name that is UTF-8, leads to is among
   the roots of a store at rest, although a symbolic ref to a packed target is
   itself not listed.                                                       *)
RootsComplete ==
  Listing /\ op = "list_refs_checked" /\ AtRest =>
    \A f \in File \ Unseen : GitValue(f) \subseteq {p[2] : p \in out}

(* The checked enumeration of a store at rest never answers from part of what
   it opens: "ok" means that every directory, packed-refs and every ref file it
   comes upon could be read, and read as text.                              *)
BootstrapLoud ==
  Listing /\ op = "list_refs_checked" /\ AtRest => ~Unreadable

(* Following symbolic refs from f comes back to a symbolic ref for ever.    *)
Symbolic(f) == f \in File /\ loose[f].t = "sym" /\ ~Unread(loose[f])
Step[k \in Nat] ==
  [f \in File \cup Hash |->
     IF k > 0 /\ Symbolic(f) THEN Step[k - 1][loose[f].to] ELSE f]
Circular == \E f \in File : Symbolic(Step[Cardinality(File)][f])

(* The call returns, unless symbolic refs lead back to one another.         *)
Ends == ~Circular => <>(pc = "done")

=============================================================================
