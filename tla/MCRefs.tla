--------------------------------- MODULE MCRefs ---------------------------------
(* Small ref stores for Refs.                                               *)
EXTENDS Refs

(* The name of x is not UTF-8, nor that of a directory beside it.           *)
MCRef == {"a", "b", "x"}
MCHash == {"h1", "h2"}
MCLockOf == [n \in MCRef |-> CASE n = "a" -> "a.lock" [] n = "b" -> "b.lock" [] n = "x" -> "x.lock"]
MCDirOf == [n \in MCRef |-> IF n = "a" THEN "heads" ELSE RefsRoot]

Healthy == {None} \cup {Direct(h) : h \in Hash}
Damaged == [t : {"bad", "io"}] \cup [t : {"sym"}, to : {"a", "b", HEAD, "h1"}]
Anything == Healthy \cup Damaged
ToA == [t |-> "sym", to |-> "a"]
ToX == [t |-> "sym", to |-> "x"]

Files(a, b, x, head) == "a" :> a @@ "b" :> b @@ "x" :> x @@ HEAD :> head

(* a and b in any state, with any HEAD unless both are sound; a beside x.   *)
MCLooseFiles ==
  {Files(a, b, None, ToA) : a, b \in Healthy}
  \cup {Files(a, b, None, head) : a \in Anything, b \in Damaged, head \in Anything}
  \cup {Files(a, b, None, head) : a \in Damaged, b \in Anything, head \in Anything}
  \cup {Files(a, None, Direct("h1"), head) : a \in {None, Direct("h1"), ToX}, head \in {Direct("h2"), ToX}}

NoFile == [t |-> "none"]
Lines(ls) == [t |-> "lines", lines |-> ls]
L(n, s) == [name |-> n, sha |-> s]

(* packed-refs as git writes it: one line for a ref, peel lines under tags.
   (With the hashes swapped it is the same store but for their names.)      *)
GitPacked ==
  {NoFile, Lines(<<L("a", "h1")>>), Lines(<<L("a", "h1"), L(Peel, "h1"), L("b", "h2")>>)}

(* ... and as damage may leave it: unreadable, a bad line, a duplicate.     *)
MCPacked ==
  GitPacked \cup {[t |-> "io"], Lines(<<L("a", BadSha), L("a", "h1"), L("a", "h2")>>), Lines(<<L("x", "h1")>>)}
=============================================================================
