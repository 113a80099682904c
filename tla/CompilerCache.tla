---------------------------- MODULE CompilerCache ----------------------------
(***************************************************************************)
(* The output directory of a compiler build: build_local, build_release    *)
(* and the profile runs that read it, the worktree, tags and toolchain     *)
(* that change around them, and what verify_compiler_manifest accepts.     *)
(*                                                                         *)
(* A commit is named by the content of its tracked files; a worktree has   *)
(* one tracked, one untracked and one git-ignored file that a build can    *)
(* see.  A hash is the content itself, and a binary is the source, commit  *)
(* and toolchain it was compiled from.  Build command, target, branch and  *)
(* logs are the same for every call and left out.                          *)
(***************************************************************************)
EXTENDS Naturals, FiniteSets, TLC

CONSTANTS
  Build,      \* the calls
  Kind,       \* what they may be: "local", "release", "profile"
  Label,
  Version,    \* contents of the tracked file
  Locked,     \* the commit the release and profile locks have for the tag
  Movable,    \* what is edited: "tracked", "untracked", "ignored", "tag", "tool"
  Quiet,      \* edits happen between calls only
  MayCrash,
  AtOnce,     \* bound: calls that run at the same time
  MaxMoves,   \* bound: edits
  MaxDamage   \* bound: files of the output lost or damaged

ASSUME BuildAssumption == IsFiniteSet(Build)
ASSUME KindsAssumption == Kind \subseteq {"local", "release", "profile"}
ASSUME MovesAssumption ==
  /\ Locked \in Version /\ Quiet \in BOOLEAN /\ MayCrash \in BOOLEAN
  /\ Movable \subseteq {"tracked", "untracked", "ignored", "tag", "tool"}
ASSUME BoundsAssumption ==
  AtOnce \in Nat \ {0} /\ MaxMoves \in Nat /\ MaxDamage \in Nat

VARIABLES
  head,     \* the commit the worktree is at
  tree,     \* the files of the worktree
  tag,      \* the commit the release tag names
  tool,     \* the Rust toolchain installed: 1 until it is updated
  made,     \* the output directory is there
  out,      \* out[f]: a file or directory of the output, or NoFile
  pc,
  call,     \* call[b]: its kind and label
  seen,     \* seen[b]: the inputs the call has read
  answer,   \* answer[b]: the manifest the call returned or used
  moves, damage

vars == <<head, tree, tag, tool, made, out, pc, call, seen, answer, moves, damage>>
world == <<head, tree, tag, tool, moves, damage>>

NoFile == [missing |-> TRUE]
Torn   == [torn |-> TRUE]
None   == [absent |-> TRUE]
NoDiff == [from |-> 0, to |-> 0]

Part == {"manifest", "source", "bundle", "target", "bin"}
\* The worktree at a commit; 0 stands for a file that is not there.
Committed(v) == [tracked |-> v, untracked |-> 0, ignored |-> 0]

Init ==
  /\ head = Locked /\ tree = Committed(Locked) /\ tag = Locked /\ tool = 1
  /\ made = FALSE /\ out = [f \in Part |-> NoFile]
  /\ pc = [b \in Build |-> "idle"]
  /\ call = [b \in Build |-> None]
  /\ seen = [b \in Build |-> None]
  /\ answer = [b \in Build |-> None]
  /\ moves = 0 /\ damage = 0
-----------------------------------------------------------------------------
(* The manifest and its verification *)

\* A build is dirty by what Git calls modified or untracked.
Dirty(in) == in.diff # NoDiff \/ in.untracked

\* The source, the commit and the toolchain of the cache key.
Key(kind, in) ==
  [kind |-> kind, head |-> in.head, dirty |-> Dirty(in), diff |-> in.diff,
   untracked |-> in.hashes, records |-> in.records, lock |-> in.lock,
   tool |-> in.tool]

\* verify_compiler_manifest; without a checkout its checks are skipped.
Accepts(o) ==
  /\ o["manifest"] \notin {NoFile, Torn}
  /\ o["bin"] \notin {NoFile, Torn} /\ o["bin"] = o["manifest"].bin
  /\ o["source"] # NoFile =>
       /\ o["source"] # Torn
       /\ o["source"].head = o["manifest"].key.head
       /\ o["source"].files = o["manifest"].key.records
       /\ o["source"].files.tracked = o["manifest"].key.lock

\* A plausible mistake: a verified artifact of the same commit will do.
HitByCommit(o, kind, in) == Accepts(o) /\ o["manifest"].key.head = in.head

\* _existing_cache.  A release does not know its source hashes before the
\* checkout, and takes those of the manifest it finds.
Hit(o, kind, in) ==
  /\ Accepts(o)
  /\ LET key == o["manifest"].key IN
       IF kind = "local" THEN key = Key("local", in)
       ELSE key.kind = "release" /\ key.head = in.head /\ key.tool = in.tool

\* verify_release_lock: the release the lock has, as it was built then.
LockAccepts(o) ==
  /\ Accepts(o)
  /\ LET key == o["manifest"].key IN
       /\ key.kind = "release" /\ key.head = Locked
       /\ key.records = Committed(Locked) /\ key.tool = 1
       /\ o["bin"] = [files |-> Committed(Locked), head |-> Locked, tool |-> 1]
-----------------------------------------------------------------------------
Stopped == {"idle", "refused", "raised", "ended", "dead"}
Alive == {b \in Build : pc[b] \notin Stopped}
To(b, step) == pc' = [pc EXCEPT ![b] = step]
Put(f, value) == out' = [out EXCEPT ![f] = value]
See(b, field, value) == seen' = [seen EXCEPT ![b][field] = value]
Gone(b) == seen' = [seen EXCEPT ![b] = None]
\* An exception that nothing catches.
Raise(b) == To(b, "raised") /\ Gone(b) /\ UNCHANGED <<made, out, answer>>

Call(b) ==
  /\ pc[b] = "idle" /\ Cardinality(Alive) < AtOnce
  /\ \E kind \in Kind, label \in Label :
       /\ call' = [call EXCEPT ![b] = [kind |-> kind, label |-> label]]
       /\ To(b, CASE kind = "local" -> "head" [] kind = "release" -> "resolve"
                  [] OTHER -> "find")
  /\ seen' = [seen EXCEPT ![b] =
       [head |-> 0, diff |-> NoDiff, untracked |-> FALSE, hashes |-> 0,
        records |-> None, lock |-> 0, tool |-> 0, bin |-> None,
        cached |-> None]]
  /\ UNCHANGED <<world, made, out, answer>>

(* build_local reads the worktree in several commands. *)
ReadHead(b) ==
  /\ pc[b] = "head"
  /\ See(b, "head", head) /\ To(b, "diff")
  /\ UNCHANGED <<world, made, out, call, answer>>

\* git diff HEAD: against the commit of that moment.
ReadDiff(b) ==
  /\ pc[b] = "diff"
  /\ See(b, "diff", IF tree.tracked = head THEN NoDiff
                    ELSE [from |-> head, to |-> tree.tracked])
  /\ To(b, "others")
  /\ UNCHANGED <<world, made, out, call, answer>>

\* git ls-files --others --exclude-standard
ReadUntracked(b) ==
  /\ pc[b] = "others"
  /\ See(b, "untracked", tree.untracked # 0) /\ To(b, "records")
  /\ UNCHANGED <<world, made, out, call, answer>>

\* _source_manifest: all files, those Git ignores too.  A dirty worktree is
\* refused, unless the call has --allow-dirty.
ReadRecords(b) ==
  /\ pc[b] = "records"
  /\ \/ See(b, "records", tree) /\ To(b, "hashes")
     \/ Dirty(seen[b]) /\ Gone(b) /\ To(b, "refused")
  /\ UNCHANGED <<world, made, out, call, answer>>

\* Toolchain, Cargo.lock and the hashes of the untracked files.
ReadHashes(b) ==
  /\ pc[b] = "hashes"
  /\ IF seen[b].untracked /\ tree.untracked = 0 THEN Raise(b)
     ELSE /\ seen' = [seen EXCEPT ![b] =
               [@ EXCEPT !.tool = tool, !.lock = tree.tracked,
                  !.hashes = IF seen[b].untracked THEN tree.untracked ELSE 0]]
          /\ To(b, "lookup") /\ UNCHANGED <<made, out, answer>>
  /\ UNCHANGED <<world, call>>

\* resolve_release_ref and _toolchain_environment
Resolve(b) ==
  /\ pc[b] = "resolve"
  /\ seen' = [seen EXCEPT ![b] = [@ EXCEPT !.head = tag, !.tool = tool]]
  /\ To(b, "lookup")
  /\ UNCHANGED <<world, made, out, call, answer>>

(* What is found in the output. *)

\* A release that is found is used only if it reports the expected version.
Lookup(b) ==
  /\ pc[b] = "lookup"
  /\ IF Hit(out, call[b].kind, seen[b])
     THEN See(b, "cached", out["manifest"]) /\ To(b, "reuse")
     ELSE To(b, "remove") /\ UNCHANGED seen
  /\ UNCHANGED <<world, made, out, call, answer>>

\* The answer of a build; a profile run goes on with it.
Return(b, manifest) ==
  IF call[b].kind = "profile" THEN To(b, "validate") /\ UNCHANGED answer
  ELSE To(b, "ended") /\ answer' = [answer EXCEPT ![b] = manifest]

\* _reuse_cache writes the manifest again when the label is another.
Relabel(b) ==
  /\ pc[b] = "reuse"
  /\ LET mine == [seen[b].cached EXCEPT !.label = call[b].label] IN
       /\ IF mine = seen[b].cached THEN UNCHANGED <<made, out>>
          ELSE Put("manifest", mine) /\ made' = TRUE
       /\ Return(b, mine)
  /\ UNCHANGED <<world, call, seen>>

\* A plausible mistake: what cannot be removed is ignored.
RemoveSome(b) ==
  /\ pc[b] = "remove" /\ made
  /\ \E f \in Part : Put(f, NoFile)
  /\ made' = FALSE /\ To(b, "make")
  /\ UNCHANGED <<world, call, seen, answer>>

\* _prepare_output: rmtree removes in the order of the directory, the
\* checkout file by file; a file that another call adds makes it fail.
Remove(b) ==
  /\ pc[b] = "remove" /\ made
  /\ \/ \E f \in Part :
          /\ out[f] # NoFile
          /\ \/ Put(f, NoFile)
             \/ f = "source" /\ out[f] # Torn /\ Put(f, Torn)
          /\ UNCHANGED <<pc, made>>
     \/ /\ \A f \in Part : out[f] = NoFile
        /\ made' = FALSE /\ To(b, "make") /\ UNCHANGED out
  /\ UNCHANGED <<world, call, seen, answer>>

RemoveNothing(b) ==
  /\ pc[b] = "remove" /\ ~ made /\ To(b, "make")
  /\ UNCHANGED <<world, made, out, call, seen, answer>>

Make(b) ==
  /\ pc[b] = "make"
  /\ IF made THEN Raise(b)
     ELSE /\ made' = TRUE /\ To(b, "clone") /\ UNCHANGED <<out, seen, answer>>
  /\ UNCHANGED <<world, call>>

(* The build *)

\* _clone_checkout; a release takes its hashes from the checkout.
Clone(b) ==
  /\ pc[b] = "clone"
  /\ IF out["source"] # NoFile \/ ~ made THEN Raise(b)
     ELSE LET files == Committed(seen[b].head) IN
       /\ Put("source", [files |-> files, head |-> seen[b].head])
       /\ IF call[b].kind = "local" THEN To(b, "copy") /\ UNCHANGED seen
          ELSE /\ seen' = [seen EXCEPT ![b] =
                    [@ EXCEPT !.records = files, !.lock = files.tracked]]
               /\ To(b, "compile")
       /\ UNCHANGED <<made, answer>>
  /\ UNCHANGED <<world, call>>

\* The files of the records as they are now, and nothing else.
Copied(in) ==
  [tracked |-> tree.tracked,
   untracked |-> IF in.records.untracked # 0 THEN tree.untracked ELSE 0,
   ignored |-> IF in.records.ignored # 0 THEN tree.ignored ELSE 0]

\* A plausible mistake: the copy is not compared with the records.
CopyUnchecked(b) ==
  /\ pc[b] = "copy"
  /\ IF out["source"] \in {NoFile, Torn} THEN Raise(b)
     ELSE /\ Put("source", [files |-> Copied(seen[b]), head |-> seen[b].head])
          /\ To(b, IF Dirty(seen[b]) THEN "bundle" ELSE "compile")
          /\ UNCHANGED <<made, seen, answer>>
  /\ UNCHANGED <<world, call>>

\* _copy_complete_source, and its comparison with what was read before.
Copy(b) ==
  /\ pc[b] = "copy"
  /\ IF out["source"] \in {NoFile, Torn} THEN Raise(b)
     ELSE /\ Put("source", [files |-> Copied(seen[b]), head |-> seen[b].head])
          /\ IF Copied(seen[b]) # seen[b].records THEN To(b, "raised") /\ Gone(b)
             ELSE /\ To(b, IF Dirty(seen[b]) THEN "bundle" ELSE "compile")
                  /\ UNCHANGED seen
          /\ UNCHANGED <<made, answer>>
  /\ UNCHANGED <<world, call>>

\* _dirty_bundle: the diff that was read, the untracked files of now.
Bundle(b) ==
  /\ pc[b] = "bundle"
  /\ IF seen[b].untracked /\ tree.untracked = 0 THEN Raise(b)
     ELSE /\ Put("bundle", [diff |-> seen[b].diff,
                 untracked |-> IF seen[b].untracked THEN tree.untracked ELSE 0])
          /\ made' = TRUE /\ To(b, "compile") /\ UNCHANGED <<seen, answer>>
  /\ UNCHANGED <<world, call>>

\* cargo build in the checkout, with the toolchain of now; it may fail.
Compile(b) ==
  /\ pc[b] = "compile"
  /\ \/ Raise(b)
     \/ /\ out["source"] \notin {NoFile, Torn}
        /\ Put("target", [files |-> out["source"].files,
                          head |-> out["source"].head, tool |-> tool])
        /\ To(b, "install") /\ UNCHANGED <<made, seen, answer>>
  /\ UNCHANGED <<world, call>>

\* The binary is copied, asked for its version and hashed.
Install(b) ==
  /\ pc[b] = "install"
  /\ IF out["target"] = NoFile \/ out["bin"] # NoFile THEN Raise(b)
     ELSE /\ Put("bin", out["target"])
          /\ IF call[b].kind # "local" /\ out["target"].head # seen[b].head
             THEN To(b, "raised") /\ Gone(b)
             ELSE To(b, "write") /\ See(b, "bin", out["target"])
          /\ UNCHANGED <<made, answer>>
  /\ UNCHANGED <<world, call>>

Manifest(b) ==
  [key |-> Key(IF call[b].kind = "local" THEN "local" ELSE "release", seen[b]),
   label |-> call[b].label, bin |-> seen[b].bin]

WriteManifest(b) ==
  /\ pc[b] = "write"
  /\ Put("manifest", Manifest(b)) /\ made' = TRUE
  /\ Return(b, Manifest(b))
  /\ UNCHANGED <<world, call, seen>>

(* run_profile *)

\* _release_compiler builds only where there is no manifest.
Find(b) ==
  /\ pc[b] = "find"
  /\ To(b, IF out["manifest"] = NoFile THEN "resolve" ELSE "validate")
  /\ UNCHANGED <<world, made, out, call, seen, answer>>

\* A plausible mistake: the lock is not asked for.
ValidateUnlocked(b) ==
  /\ pc[b] = "validate"
  /\ IF Accepts(out) THEN To(b, "use") /\ UNCHANGED <<made, out, seen, answer>>
     ELSE Raise(b)
  /\ UNCHANGED <<world, call>>

\* _validate_locked_compiler: the commit is the lock's.
Validate(b) ==
  /\ pc[b] = "validate"
  /\ IF Accepts(out) /\ out["manifest"].key.head = Locked
     THEN To(b, "use") /\ UNCHANGED <<made, out, seen, answer>>
     ELSE Raise(b)
  /\ UNCHANGED <<world, call>>

\* The compilers of the comparison are loaded once more.
Use(b) ==
  /\ pc[b] = "use"
  /\ IF Accepts(out)
     THEN /\ answer' = [answer EXCEPT ![b] = out["manifest"]]
          /\ To(b, "ended") /\ UNCHANGED <<made, out, seen>>
     ELSE Raise(b)
  /\ UNCHANGED <<world, call>>
-----------------------------------------------------------------------------
(* Around the calls *)

Writing == [write |-> "manifest", reuse |-> "manifest", copy |-> "source",
            clone |-> "source", bundle |-> "bundle", install |-> "bin"]

\* A call dies between two writes, or in one.
Crash(b) ==
  /\ MayCrash /\ b \in Alive /\ To(b, "dead") /\ Gone(b)
  /\ \/ UNCHANGED out
     \/ pc[b] \in DOMAIN Writing /\ made /\ Put(Writing[pc[b]], Torn)
  /\ UNCHANGED <<world, made, call, answer>>

Move ==
  /\ moves < MaxMoves /\ (Quiet => Alive = {}) /\ moves' = moves + 1
  /\ \/ /\ \/ \E v \in Version \ {tree.tracked} :
                tree' = [tree EXCEPT !.tracked = v] /\ UNCHANGED head
           \/ head' = tree.tracked /\ head # tree.tracked /\ UNCHANGED tree
        /\ "tracked" \in Movable /\ UNCHANGED <<tag, tool>>
     \/ /\ \E f \in {"untracked", "ignored"} \cap Movable, v \in 0 .. 1 :
             v # tree[f] /\ tree' = [tree EXCEPT ![f] = v]
        /\ UNCHANGED <<head, tag, tool>>
     \/ /\ \E v \in Version \ {tag} : tag' = v
        /\ "tag" \in Movable /\ UNCHANGED <<head, tree, tool>>
     \/ /\ tool' = tool + 1 /\ "tool" \in Movable
        /\ UNCHANGED <<head, tree, tag>>
  /\ UNCHANGED <<made, out, pc, call, seen, answer, damage>>

Damage ==
  /\ damage < MaxDamage /\ damage' = damage + 1 /\ Alive = {}
  /\ \E f \in Part \ {"target", "bundle"}, to \in {NoFile, Torn} :
       out[f] # NoFile /\ Put(f, to)
  /\ UNCHANGED <<head, tree, tag, tool, made, pc, call, seen, answer, moves>>

Step(b) ==
  \/ ReadHead(b) \/ ReadDiff(b) \/ ReadUntracked(b) \/ ReadRecords(b)
  \/ ReadHashes(b) \/ Resolve(b) \/ Lookup(b) \/ Relabel(b) \/ Remove(b)
  \/ RemoveNothing(b) \/ Make(b) \/ Clone(b) \/ Copy(b) \/ Bundle(b)
  \/ Compile(b) \/ Install(b) \/ WriteManifest(b) \/ Find(b) \/ Validate(b)
  \/ Use(b)

Next == Move \/ Damage \/ \E b \in Build : Call(b) \/ Step(b) \/ Crash(b)

Spec == Init /\ [][Next]_vars
-----------------------------------------------------------------------------
Steps == {"head", "diff", "others", "records", "hashes", "resolve", "lookup",
          "reuse", "remove", "make", "clone", "copy", "bundle", "compile",
          "install", "write", "find", "validate", "use"}

TypeOK ==
  /\ head \in Version /\ tag \in Version /\ tool \in 1 .. MaxMoves + 1
  /\ tree \in [tracked : Version, untracked : 0 .. 1, ignored : 0 .. 1]
  /\ pc \in [Build -> Steps \cup Stopped]
  /\ DOMAIN out = Part /\ (~ made => \A f \in Part : out[f] = NoFile)
  /\ \A b \in Build : pc[b] = "ended" <=> answer[b] # None
  /\ moves \in 0 .. MaxMoves /\ damage \in 0 .. MaxDamage

Compiled(manifest, bin) ==
  bin.files = manifest.key.records /\ bin.head = manifest.key.head

(* An artifact that verifies has a binary compiled from the very source    *)
(* and commit its manifest names.                                          *)
VerifiedCompiled == Accepts(out) => Compiled(out["manifest"], out["bin"])

(* After any edits, crashes and damage, that holds of the output and of    *)
(* whatever a call has returned.                                           *)
BinaryOfItsSource ==
  /\ VerifiedCompiled
  /\ \A b \in Build : answer[b] # None => Compiled(answer[b], answer[b].bin)

(* Whatever a call returns, built or found, is of the inputs the call has  *)
(* read: the commit, the source as it hashed it, the toolchain.            *)
AnswerMatches ==
  \A b \in Build : answer[b] # None /\ call[b].kind # "profile" =>
    /\ answer[b].label = call[b].label
    /\ answer[b].key.head = seen[b].head
    /\ answer[b].key.tool = seen[b].tool
    /\ answer[b].key.records = IF call[b].kind = "local" THEN seen[b].records
                               ELSE Committed(seen[b].head)

(* src/README.md: a manifest that says clean is reproducible from its      *)
(* commit; a dirty one has a bundle with the diff and every untracked      *)
(* source file.  With them the source of the binary that verifies between  *)
(* two calls is had again.                                                 *)
Rebuilt(manifest, bundle) ==
  IF ~ manifest.key.dirty THEN Committed(manifest.key.head)
  ELSE [tracked |-> IF bundle.diff = NoDiff THEN manifest.key.head
                    ELSE bundle.diff.to,
        untracked |-> bundle.untracked, ignored |-> 0]
Rebuilds ==
  Alive = {} /\ Accepts(out) =>
    /\ out["manifest"].key.dirty => out["bundle"] \notin {NoFile, Torn}
    /\ out["bin"].files = Rebuilt(out["manifest"], out["bundle"])
    /\ out["bin"].tool = out["manifest"].key.tool

(* What the locks of releases and profiles let through is the locked       *)
(* release, also after the tag was moved, a toolchain was updated or the   *)
(* artifact was damaged: a historical profile compares compilers made of   *)
(* the locked commit, unless a local build was put where they are; and the *)
(* release lock takes an artifact that verifies exactly when it is that    *)
(* release, built with the toolchain it was locked with.                   *)
ReleasesLocked ==
  \A b \in Build : answer[b] # None =>
    /\ call[b].kind = "profile" =>
         \/ \E c \in Build : call[c] # None /\ call[c].kind = "local"
         \/ /\ answer[b].bin.files = Committed(Locked)
            /\ answer[b].bin.head = Locked
    /\ Accepts(out) /\ out["manifest"] = answer[b] =>
         (LockAccepts(out) <=>
            /\ answer[b].key.kind = "release"
            /\ answer[b].bin.head = Locked /\ answer[b].bin.tool = 1)
=============================================================================
