------------------------------- MODULE LiveStore -------------------------------
(***************************************************************************)
(* What one call of GitRepo::read_object or GitRepo::all_objects            *)
(* (core/src/repo.rs) answers while git is at work in the same store.       *)
(***************************************************************************)
EXTENDS ObjectStore

VARIABLES
  always,    \* hashes stored at every moment of the call, never loosened (history)
  packed     \* hashes the packs held when they were last listed (history)

vars == <<files, git, reader, always, packed>>

Init ==
  /\ AtRest
  /\ call \in {"read_object", "all_objects"} /\ target \in Hash /\ want = target /\ based = FALSE
  /\ pc = "loose" /\ todo = {} /\ at = 0 /\ got = {} /\ answer = "none"
  /\ always = Stored /\ packed = {}

Remember ==
  /\ always' = (always \cap Stored') \ (loose' \ loose)
  /\ UNCHANGED packed

Mark ==
  /\ packed' = IF pc = "packdir" THEN Held(idx) ELSE packed
  /\ UNCHANGED always

Terminated == pc = "done" /\ UNCHANGED vars

Next ==
  \/ ReaderStep /\ UNCHANGED <<files, git>> /\ Mark
  \/ pc # "done" /\ GitStep /\ UNCHANGED reader /\ Remember
  \/ Terminated

Spec == Init /\ [][Next]_vars

-----------------------------------------------------------------------------
(* An object that is in the store all through the call, loose or packed, is
   never said to be missing as long as it is itself looked for: looking at
   the loose files before the packs, and failing on an index that went away,
   meets git's order of writing the new copy before it removes the old one.
   Only what git moves the other way, from a pack to a loose file, may be
   missed; and what is found as a delta whose base is then looked up by its
   hash (BaseNotMissed).                                                    *)
NoMisleadingNotFound ==
  pc = "done" /\ answer = "notfound" /\ ~based => target \notin always

(* A base, too, is looked up in files that git replaces, but in the packs
   first.  One that some pack holds when they are listed is not missed,
   whichever packs come and go before they are opened: an index or a pack
   that has gone is an error.                                               *)
BaseNotMissed ==
  pc = "done" /\ answer = "notfound" /\ based => want \notin packed

(* "A truly missing object yields ObjectNotFound ... never a misleading
   not-found" (GitRepo::read_object, core/src/repo.rs): of an object that is
   in the store all through the call, and never loosened, it is not given.  *)
NeverMisleading ==
  pc = "done" /\ answer = "notfound" => target \notin always

(* The same for the listing: it names every object that was there all the
   while, or fails.                                                         *)
ListComplete ==
  pc = "done" /\ call = "all_objects" /\ answer = "ok" => always \subseteq got
=============================================================================
