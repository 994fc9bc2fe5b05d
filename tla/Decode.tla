--------------------------------- MODULE Decode ---------------------------------
(***************************************************************************)
(* One call of a decoder on one input: read_object_at's own bytes and       *)
(* apply_delta (PackBytes), decompress_and_parse, TreeObject::parse and     *)
(* CommitObject::parse (ObjectParse), audit_reflog (Reflog).                *)
(***************************************************************************)
EXTENDS PackBytes, ObjectParse, Reflog

Init ==
  \/ Begin("read_entry", Entries, EntryAcc)
  \/ Begin("apply_delta", Deltas, DeltaAcc)
  \/ Begin("loose", Loose, << >>)
  \/ Begin("tree", Trees, << >>)
  \/ Begin("commit", Commits, CommitAcc)
  \/ Begin("audit_reflog", Logs, << >>)

Terminated == result # "pending" /\ UNCHANGED vars

Next == EntryStep \/ DeltaStep \/ ParseLoose \/ TreeRecord \/ TreeEnd \/ CommitStep \/ ReflogStep \/ Terminated

Spec == Init /\ [][Next]_vars

-----------------------------------------------------------------------------
TypeOK ==
  /\ result \in Results /\ pos \in Nat \ {0}
  /\ call = "read_entry" =>
       /\ pos <= Len(input.bytes) + 1
       /\ acc.size \in 0..(Word - 1) /\ acc.dist \in 0..(Word - 1)
  /\ call = "apply_delta" =>
       /\ pos <= Len(input.sizes) + Len(input.ops) + 1
       /\ acc.size \in 0..(Word - 1) /\ acc.out \in Seq(Nat)
  /\ call = "tree" => pos <= Len(input) + 1
  /\ call = "commit" => pos <= Len(input.lines) + 2
  /\ call = "audit_reflog" => pos <= Len(input.lines) + 1
=============================================================================
