------------------------ MODULE CompilerCache_proofs ------------------------
(***************************************************************************)
(* Safety of CompilerCache for any number of calls, edits and losses.      *)
(* What a call answers is of the inputs it has read however many calls     *)
(* overlap; that a binary is the one its manifest names, and what the      *)
(* locks let through, is proved of calls that run one at a time.           *)
(***************************************************************************)
EXTENDS CompilerCache, FiniteSetTheorems, TLAPS

\* The files as they are written, whoever wrote them.
IsBinary(x) == x = [files |-> x.files, head |-> x.head, tool |-> x.tool]
IsSource(x) == x = [files |-> x.files, head |-> x.head]
IsManifest(m) ==
  /\ m = [key |-> m.key, label |-> m.label, bin |-> m.bin]
  /\ IsBinary(m.bin)

\* What a call knows of its inputs.
IsInputs(in) ==
  in = [head |-> in.head, diff |-> in.diff, untracked |-> in.untracked,
        hashes |-> in.hashes, records |-> in.records, lock |-> in.lock,
        tool |-> in.tool, bin |-> in.bin, cached |-> in.cached]

\* The world, the output directory and the calls.
WorldTypes ==
  /\ head \in Version /\ tag \in Version
  /\ moves \in 0 .. MaxMoves /\ damage \in 0 .. MaxDamage
  /\ tool \in 1 .. moves + 1
  /\ tree \in [tracked : Version, untracked : 0 .. 1, ignored : 0 .. 1]
OutTypes ==
  /\ out = [f \in Part |-> out[f]]
  /\ ~ made => \A f \in Part : out[f] = NoFile
  /\ out["source"] \in {NoFile, Torn} \/ IsSource(out["source"])
  /\ out["target"] = NoFile \/ IsBinary(out["target"])
  /\ out["manifest"] \in {NoFile, Torn} \/ IsManifest(out["manifest"])
CallTypes ==
  /\ pc \in [Build -> Steps \cup Stopped]
  /\ call \in [Build -> [kind : {"local", "release", "profile"}, label : Label] \cup {None}]
  /\ seen = [b \in Build |-> seen[b]]
  /\ answer = [b \in Build |-> answer[b]]
  /\ \A b \in Build :
       /\ pc[b] = "ended" <=> answer[b] # None
       /\ answer[b] # None => IsManifest(answer[b])
       /\ pc[b] \notin Stopped => call[b] # None /\ IsInputs(seen[b])
       /\ pc[b] = "idle" => call[b] = None

\* A local build was asked for.
LocalCalled == \E c \in Build : call[c] # None /\ call[c].kind = "local"

\* The key of a manifest: a release is the committed source, and the
\* toolchain was looked at before it was used.
KeyHolds(m) ==
  /\ \/ m.key.kind = "local" /\ LocalCalled
     \/ m.key.kind = "release" /\ m.key.records = Committed(m.key.head)
  /\ m.key.tool \in Nat \ {0} /\ m.bin.tool \in Nat /\ m.key.tool <= m.bin.tool

LocalSteps == {"head", "diff", "others", "records", "hashes", "copy", "bundle"}
ProfileSteps == {"find", "validate", "use"}
ToolKnown == {"lookup", "reuse", "remove", "make", "clone", "copy", "bundle",
              "compile", "install", "write"}

\* How far a call has come, and what it has read until then.
ReadBy(b) ==
  /\ pc[b] \in LocalSteps => call[b].kind = "local"
  /\ pc[b] \in ProfileSteps => call[b].kind = "profile"
  /\ pc[b] = "resolve" => call[b].kind # "local"
  /\ pc[b] \in ToolKnown => seen[b].tool \in 1 .. tool
  /\ pc[b] \in {"compile", "install", "write"} /\ call[b].kind # "local" =>
       seen[b].records = Committed(seen[b].head)
  /\ pc[b] = "install" /\ out["target"] # NoFile =>
       out["target"].tool \in Nat /\ seen[b].tool <= out["target"].tool
  /\ pc[b] = "write" => /\ IsBinary(seen[b].bin) /\ seen[b].bin.tool \in Nat
                        /\ seen[b].tool <= seen[b].bin.tool
  /\ pc[b] = "reuse" =>
       /\ IsManifest(seen[b].cached) /\ KeyHolds(seen[b].cached)
       /\ IF call[b].kind = "local"
          THEN seen[b].cached.key = Key("local", seen[b])
          ELSE /\ seen[b].cached.key.kind = "release"
               /\ seen[b].cached.key.head = seen[b].head
               /\ seen[b].cached.key.tool = seen[b].tool
Reads == \A b \in Build : ReadBy(b)

\* The keys of the manifest in place and of the answers.
Keys ==
  /\ out["manifest"] \notin {NoFile, Torn} => KeyHolds(out["manifest"])
  /\ \A b \in Build : answer[b] # None => KeyHolds(answer[b])

IInv == WorldTypes /\ OutTypes /\ CallTypes /\ Reads /\ Keys /\ AnswerMatches

\* Calls that run one at a time, and what each has made so far.
Alone == \A b, c \in Alive : b = c
MadeBy(b) ==
  /\ pc[b] = "use" => out["manifest"].key.head = Locked
  /\ pc[b] = "reuse" => Compiled(seen[b].cached, seen[b].cached.bin)
  /\ pc[b] \in {"bundle", "compile"} =>
       /\ out["source"].files = seen[b].records
       /\ out["source"].head = seen[b].head
  /\ pc[b] = "install" =>
       /\ out["target"].files = seen[b].records
       /\ out["target"].head = seen[b].head
  /\ pc[b] = "write" =>
       /\ seen[b].bin.files = seen[b].records
       /\ seen[b].bin.head = seen[b].head
Faithful ==
  /\ out["manifest"] \notin {NoFile, Torn} =>
       Compiled(out["manifest"], out["manifest"].bin)
  /\ \A b \in Build : answer[b] # None =>
       /\ Compiled(answer[b], answer[b].bin)
       /\ call[b].kind = "profile" => answer[b].key.head = Locked
  /\ \A b \in Build : MadeBy(b)
SInv == Alone /\ Faithful
-----------------------------------------------------------------------------
\* The absent, the torn and the written are told apart.
LEMMA Marks ==
  /\ NoFile # Torn /\ NoFile # None /\ Torn # None
  /\ \A x : IsManifest(x) => x \notin {NoFile, Torn, None}
  /\ \A x : IsBinary(x) => x \notin {NoFile, Torn, None}
  /\ \A x : IsSource(x) => x \notin {NoFile, Torn, None}
<1>1. NoFile # Torn /\ NoFile # None /\ Torn # None
  BY DEF NoFile, Torn, None
<1>2. \A x : IsManifest(x) => x \notin {NoFile, Torn, None}
  BY DEF IsManifest, NoFile, Torn, None
<1>3. \A x : IsBinary(x) => x \notin {NoFile, Torn, None}
  BY DEF IsBinary, NoFile, Torn, None
<1>4. \A x : IsSource(x) => x \notin {NoFile, Torn, None}
  BY DEF IsSource, NoFile, Torn, None
<1> QED
  BY <1>1, <1>2, <1>3, <1>4

\* A manifest with another label is one.
LEMMA Relabelled ==
  ASSUME NEW m, IsManifest(m), NEW l
  PROVE  [m EXCEPT !.label = l] = [key |-> m.key, label |-> l, bin |-> m.bin]
BY DEF IsManifest

\* Calls and crashes leave the world alone.
LEMMA WorldKept ==
  ASSUME [Next]_vars
  PROVE  Move \/ Damage \/ UNCHANGED world
<1>1. ASSUME NEW b \in Build, Call(b) \/ Crash(b)
      PROVE  UNCHANGED world
  BY <1>1 DEF Call, Crash
<1>2. ASSUME NEW b \in Build, Step(b)
      PROVE  UNCHANGED world
  BY <1>2
     DEF Step, ReadHead, ReadDiff, ReadUntracked, ReadRecords, ReadHashes, Resolve, Lookup,
         Relabel, Remove, RemoveNothing, Make, Clone, Copy, Bundle, Compile, Install,
         WriteManifest, Find, Validate, Use
<1> QED
  BY <1>1, <1>2 DEF Next, vars, world

\* The world is of its types, and a toolchain is only ever updated.
LEMMA WorldNext ==
  ASSUME WorldTypes, [Next]_vars
  PROVE  WorldTypes' /\ tool <= tool'
<1>1. CASE Move
  <2>1. /\ moves' \in 0 .. MaxMoves /\ moves' = moves + 1 /\ damage' = damage
        /\ tool' \in {tool, tool + 1}
    BY <1>1, BoundsAssumption DEF Move, WorldTypes
  <2>2. head' \in Version /\ tag' \in Version
    BY <1>1 DEF Move, WorldTypes
  <2>3. tree' \in [tracked : Version, untracked : 0 .. 1, ignored : 0 .. 1]
    BY <1>1 DEF Move, WorldTypes
  <2> QED
    BY <2>1, <2>2, <2>3 DEF WorldTypes
<1>2. CASE Damage
  BY <1>2, BoundsAssumption DEF Damage, WorldTypes
<1>3. CASE UNCHANGED world
  BY <1>3 DEF world, WorldTypes
<1> QED
  BY <1>1, <1>2, <1>3, WorldKept

\* The output directory, under the steps that write in it.
LEMMA OutNext ==
  ASSUME WorldTypes, OutTypes, CallTypes, Reads, [Next]_vars
  PROVE  OutTypes'
<1>1. ASSUME NEW f \in Part, NEW x, Put(f, x), made' = made \/ made' = TRUE,
             x # NoFile => made' = TRUE,
             f = "source" => x \in {NoFile, Torn} \/ IsSource(x),
             f = "target" => x = NoFile \/ IsBinary(x),
             f = "manifest" => x \in {NoFile, Torn} \/ IsManifest(x)
      PROVE  OutTypes'
  <2>1. /\ out' = [g \in Part |-> out'[g]]
        /\ \A g \in Part : out'[g] = IF g = f THEN x ELSE out[g]
    BY <1>1 DEF OutTypes, Put
  <2> QED
    BY <1>1, <2>1 DEF OutTypes, Part
<1>2. ASSUME out' = out, made' \in {made, TRUE} \/ \A f \in Part : out[f] = NoFile
      PROVE  OutTypes'
  BY <1>2 DEF OutTypes
<1>3. ASSUME NEW b \in Build,
             \/ Call(b) \/ ReadHead(b) \/ ReadDiff(b) \/ ReadUntracked(b) \/ ReadRecords(b)
             \/ ReadHashes(b) \/ Resolve(b) \/ Lookup(b) \/ RemoveNothing(b) \/ Make(b) \/ Find(b)
             \/ Validate(b) \/ Use(b)
      PROVE  out' = out /\ made' \in {made, TRUE}
  BY <1>3
     DEF Call, ReadHead, ReadDiff, ReadUntracked, ReadRecords, ReadHashes, Resolve, Lookup,
         RemoveNothing, Make, Find, Validate, Use, Raise
<1>4. ASSUME NEW b \in Build, Relabel(b)
      PROVE  OutTypes'
  <2>1. IsManifest([seen[b].cached EXCEPT !.label = call[b].label])
    BY <1>4, Relabelled DEF Relabel, Reads, ReadBy, IsManifest
  <2> QED
    BY <1>1, <1>2, <1>4, <2>1, Marks DEF Relabel, Part
<1>5. ASSUME NEW b \in Build, Remove(b)
      PROVE  OutTypes'
  BY <1>1, <1>2, <1>5 DEF Remove, Part
<1>6. ASSUME NEW b \in Build, Clone(b)
      PROVE  OutTypes'
  <2>1. IsSource([files |-> Committed(seen[b].head), head |-> seen[b].head])
    BY DEF IsSource
  <2> QED
    BY <1>1, <1>2, <1>6, <2>1 DEF Clone, Raise, Part
<1>7. ASSUME NEW b \in Build, Copy(b)
      PROVE  OutTypes'
  <2>1. IsSource([files |-> Copied(seen[b]), head |-> seen[b].head])
    BY DEF IsSource
  <2> QED
    BY <1>1, <1>2, <1>7, <2>1 DEF Copy, Raise, Part, OutTypes
<1>8. ASSUME NEW b \in Build, Bundle(b)
      PROVE  OutTypes'
  BY <1>1, <1>2, <1>8 DEF Bundle, Raise, Part
<1>9. ASSUME NEW b \in Build, Compile(b)
      PROVE  OutTypes'
  <2>1. IsBinary([files |-> out["source"].files, head |-> out["source"].head, tool |-> tool])
    BY DEF IsBinary
  <2> QED
    BY <1>1, <1>2, <1>9, <2>1 DEF Compile, Raise, Part, OutTypes
<1>10. ASSUME NEW b \in Build, Install(b)
       PROVE  OutTypes'
  BY <1>1, <1>2, <1>10 DEF Install, Raise, Part, OutTypes
<1>11. ASSUME NEW b \in Build, WriteManifest(b)
       PROVE  OutTypes'
  <2>1. IsManifest(Manifest(b))
    BY <1>11 DEF WriteManifest, Reads, ReadBy, IsManifest, Manifest
  <2> QED
    BY <1>1, <1>11, <2>1 DEF WriteManifest, Part
<1>12. ASSUME NEW b \in Build, Crash(b)
       PROVE  OutTypes'
  <2>1. pc[b] \in DOMAIN Writing => Writing[pc[b]] \in {"manifest", "source", "bundle", "bin"}
    BY DEF Writing
  <2> QED
    BY <1>1, <1>2, <1>12, <2>1 DEF Crash, Part
<1>13. CASE Damage
  BY <1>1, <1>13 DEF Damage, Part, OutTypes
<1>14. CASE Move \/ UNCHANGED vars
  BY <1>2, <1>14 DEF Move, vars
<1> QED
  BY <1>2, <1>3, <1>4, <1>5, <1>6, <1>7, <1>8, <1>9, <1>10, <1>11, <1>12, <1>13, <1>14
     DEF Next, Step

\* A step of one call is no step of another.
OthersStay(b) ==
  \A c \in Build \ {b} : /\ pc'[c] = pc[c] /\ call'[c] = call[c]
                          /\ seen'[c] = seen[c] /\ answer'[c] = answer[c]
\* The variables of the calls stay functions on them.
StillCalls ==
  /\ seen' = [c \in Build |-> seen'[c]] /\ answer' = [c \in Build |-> answer'[c]]
  /\ pc' = [c \in Build |-> pc'[c]] /\ call' = [c \in Build |-> call'[c]]

\* A call reads one of its inputs.
LEMMA Reading ==
  ASSUME CallTypes, NEW b \in Build, IsInputs(seen[b]),
         NEW f \in {"head", "diff", "untracked", "records", "bin", "cached"}, NEW x, See(b, f, x)
  PROVE  /\ seen' = [c \in Build |-> seen'[c]]
         /\ \A c \in Build \ {b} : seen'[c] = seen[c]
         /\ IsInputs(seen'[b])
         /\ seen'[b].head = IF f = "head" THEN x ELSE seen[b].head
         /\ seen'[b].diff = IF f = "diff" THEN x ELSE seen[b].diff
         /\ seen'[b].untracked = IF f = "untracked" THEN x ELSE seen[b].untracked
         /\ seen'[b].records = IF f = "records" THEN x ELSE seen[b].records
         /\ seen'[b].bin = IF f = "bin" THEN x ELSE seen[b].bin
         /\ seen'[b].cached = IF f = "cached" THEN x ELSE seen[b].cached
         /\ seen'[b].tool = seen[b].tool /\ seen'[b].hashes = seen[b].hashes
         /\ seen'[b].lock = seen[b].lock
<1>1. /\ seen' = [c \in Build |-> seen'[c]]
      /\ \A c \in Build \ {b} : seen'[c] = seen[c]
      /\ seen'[b] = [seen[b] EXCEPT ![f] = x]
  BY DEF See, CallTypes
<1>2. seen[b] = [head |-> seen[b].head, diff |-> seen[b].diff, untracked |-> seen[b].untracked,
                 hashes |-> seen[b].hashes, records |-> seen[b].records, lock |-> seen[b].lock,
                 tool |-> seen[b].tool, bin |-> seen[b].bin, cached |-> seen[b].cached]
  BY DEF IsInputs
<1>3. CASE f = "head"
  BY <1>1, <1>2, <1>3 DEF IsInputs
<1>4. CASE f = "diff"
  BY <1>1, <1>2, <1>4 DEF IsInputs
<1>5. CASE f = "untracked"
  BY <1>1, <1>2, <1>5 DEF IsInputs
<1>6. CASE f = "records"
  BY <1>1, <1>2, <1>6 DEF IsInputs
<1>7. CASE f = "bin"
  BY <1>1, <1>2, <1>7 DEF IsInputs
<1>8. CASE f = "cached"
  BY <1>1, <1>2, <1>8 DEF IsInputs
<1> QED
  BY <1>1, <1>3, <1>4, <1>5, <1>6, <1>7, <1>8

\* What it knows after it has read several at once.
WithHashes(in, t, l, h) == [in EXCEPT !.tool = t, !.lock = l, !.hashes = h]
WithTag(in, h, t) == [in EXCEPT !.head = h, !.tool = t]
WithCheckout(in, r, l) == [in EXCEPT !.records = r, !.lock = l]
LEMMA ReadingHashes ==
  ASSUME NEW in, IsInputs(in), NEW t, NEW l, NEW h
  PROVE  /\ IsInputs(WithHashes(in, t, l, h)) /\ WithHashes(in, t, l, h).tool = t
         /\ WithHashes(in, t, l, h).head = in.head
<1>1. PICK new : new = [in EXCEPT !.tool = t, !.lock = l, !.hashes = h]
  OBVIOUS
<1>2. IsInputs(new) /\ new.tool = t /\ new.head = in.head
  BY <1>1 DEF IsInputs
<1>3. WithHashes(in, t, l, h) = new
  BY <1>1 DEF WithHashes
<1> QED
  BY <1>2, <1>3
LEMMA ReadingTag ==
  ASSUME NEW in, IsInputs(in), NEW h, NEW t
  PROVE  /\ IsInputs(WithTag(in, h, t)) /\ WithTag(in, h, t).tool = t
         /\ WithTag(in, h, t).head = h
<1>1. PICK new : new = [in EXCEPT !.head = h, !.tool = t]
  OBVIOUS
<1>2. IsInputs(new) /\ new.tool = t /\ new.head = h
  BY <1>1 DEF IsInputs
<1>3. WithTag(in, h, t) = new
  BY <1>1 DEF WithTag
<1> QED
  BY <1>2, <1>3
LEMMA ReadingCheckout ==
  ASSUME NEW in, IsInputs(in), NEW r, NEW l
  PROVE  /\ IsInputs(WithCheckout(in, r, l)) /\ WithCheckout(in, r, l).records = r
         /\ WithCheckout(in, r, l).head = in.head /\ WithCheckout(in, r, l).tool = in.tool
<1>1. PICK new : new = [in EXCEPT !.records = r, !.lock = l]
  OBVIOUS
<1>2. IsInputs(new) /\ new.records = r /\ new.head = in.head /\ new.tool = in.tool
  BY <1>1 DEF IsInputs
<1>3. WithCheckout(in, r, l) = new
  BY <1>1 DEF WithCheckout
<1> QED
  BY <1>2, <1>3

\* The three ways a step of a call can end: it stops with nothing, it goes on,
\* or it answers.
Stops(b) ==
  pc'[b] \in {"raised", "refused"} /\ answer'[b] = answer[b]
GoesOn(b) ==
  pc'[b] \in Steps /\ answer'[b] = answer[b] /\ IsInputs(seen'[b])
Ends(b) ==
  pc'[b] = "ended" /\ seen' = seen /\ IsManifest(answer'[b])

\* What going to a step, and raising, do to the other calls.
LEMMA Going ==
  ASSUME CallTypes, NEW b \in Build, NEW s
  PROVE  /\ To(b, s) => /\ pc' = [c \in Build |-> pc'[c]] /\ pc'[b] = s
                        /\ \A c \in Build \ {b} : pc'[c] = pc[c]
         /\ Gone(b) => /\ seen' = [c \in Build |-> seen'[c]] /\ seen'[b] = None
                       /\ \A c \in Build \ {b} : seen'[c] = seen[c]
         /\ \A m : answer' = [answer EXCEPT ![b] = m] =>
                       /\ answer' = [c \in Build |-> answer'[c]] /\ answer'[b] = m
                       /\ \A c \in Build \ {b} : answer'[c] = answer[c]
         /\ \A in : seen' = [seen EXCEPT ![b] = in] =>
                       /\ seen' = [c \in Build |-> seen'[c]] /\ seen'[b] = in
                       /\ \A c \in Build \ {b} : seen'[c] = seen[c]
         /\ UNCHANGED seen => seen' = [c \in Build |-> seen'[c]]
         /\ UNCHANGED answer => answer' = [c \in Build |-> answer'[c]]
         /\ UNCHANGED call => call' = [c \in Build |-> call'[c]]
<1>1. To(b, s) => /\ pc' = [c \in Build |-> pc'[c]] /\ pc'[b] = s
                  /\ \A c \in Build \ {b} : pc'[c] = pc[c]
  BY DEF CallTypes, To
<1>2. \A in : seen' = [seen EXCEPT ![b] = in] =>
        /\ seen' = [c \in Build |-> seen'[c]] /\ seen'[b] = in
        /\ \A c \in Build \ {b} : seen'[c] = seen[c]
  BY DEF CallTypes
<1>3. \A m : answer' = [answer EXCEPT ![b] = m] =>
        /\ answer' = [c \in Build |-> answer'[c]] /\ answer'[b] = m
        /\ \A c \in Build \ {b} : answer'[c] = answer[c]
  BY DEF CallTypes
<1>4. UNCHANGED call => call' = [c \in Build |-> call'[c]]
  BY DEF CallTypes
<1>5. /\ UNCHANGED seen => seen' = [c \in Build |-> seen'[c]]
      /\ UNCHANGED answer => answer' = [c \in Build |-> answer'[c]]
  BY DEF CallTypes
<1> QED
  BY <1>1, <1>2, <1>3, <1>4, <1>5 DEF Gone

\* Only a call that runs makes a step.
LEMMA Running ==
  ASSUME CallTypes, NEW b \in Build, Step(b)
  PROVE  pc[b] \notin Stopped /\ IsInputs(seen[b])
BY DEF Step, ReadHead, ReadDiff, ReadUntracked, ReadRecords, ReadHashes, Resolve, Lookup,
         Relabel, Remove, RemoveNothing, Make, Clone, Copy, Bundle, Compile, Install,
         WriteManifest, Find, Validate, Use,
       CallTypes, Stopped

\* So it is with every step.
LEMMA StepShape ==
  ASSUME OutTypes, CallTypes, Reads, NEW b \in Build, Step(b)
  PROVE  /\ OthersStay(b) /\ StillCalls /\ call' = call
         /\ Stops(b) \/ GoesOn(b) \/ Ends(b)
<1>1. pc[b] \notin Stopped /\ IsInputs(seen[b])
  BY Running
<1>2. ASSUME Raise(b), call' = call
      PROVE  OthersStay(b) /\ StillCalls /\ Stops(b)
  BY <1>2, Going DEF Raise, OthersStay, StillCalls, Stops
<1>3. ASSUME Gone(b), To(b, "raised") \/ To(b, "refused"), UNCHANGED <<answer, call>>
      PROVE  OthersStay(b) /\ StillCalls /\ Stops(b)
  BY <1>3, Going DEF OthersStay, StillCalls, Stops
<1>4. ASSUME NEW s \in Steps, To(b, s), UNCHANGED <<answer, call, seen>>
      PROVE  OthersStay(b) /\ StillCalls /\ GoesOn(b)
  BY <1>1, <1>4, Going DEF OthersStay, StillCalls, GoesOn
<1>5. ASSUME NEW s \in Steps, To(b, s), UNCHANGED <<answer, call>>,
             NEW f \in {"head", "diff", "untracked", "records", "bin", "cached"}, NEW x,
             See(b, f, x)
      PROVE  OthersStay(b) /\ StillCalls /\ GoesOn(b)
  BY <1>1, <1>5, Going, Reading DEF OthersStay, StillCalls, GoesOn
<1>6. ASSUME NEW s \in Steps, To(b, s), UNCHANGED <<answer, call>>,
             NEW in, seen' = [seen EXCEPT ![b] = in], IsInputs(in)
      PROVE  OthersStay(b) /\ StillCalls /\ GoesOn(b)
  BY <1>6, Going DEF OthersStay, StillCalls, GoesOn
<1>7. ASSUME NEW m, IsManifest(m), Return(b, m), UNCHANGED <<call, seen>>
      PROVE  OthersStay(b) /\ StillCalls /\ (GoesOn(b) \/ Ends(b))
  <2>1. CASE call[b].kind = "profile"
    BY <1>4, <1>7, <2>1 DEF Return, Steps
  <2>2. CASE call[b].kind # "profile"
    BY <1>7, <2>2, Going DEF Return, OthersStay, StillCalls, Ends
  <2> QED
    BY <2>1, <2>2
<1>8. CASE ReadHead(b) \/ ReadDiff(b) \/ ReadUntracked(b) \/ ReadRecords(b)
  BY <1>3, <1>5, <1>8 DEF ReadHead, ReadDiff, ReadUntracked, ReadRecords, Steps
<1>9. CASE ReadHashes(b) \/ Resolve(b) \/ Clone(b)
  <2>2. CASE ReadHashes(b)
    <3>h. PICK h : h = IF seen[b].untracked THEN tree.untracked ELSE 0
      OBVIOUS
    <3>0. PICK new : new = WithHashes(seen[b], tool, tree.tracked, h)
      OBVIOUS
    <3>1. IsInputs(new)
      BY <1>1, <3>0, ReadingHashes
    <3>2. \/ Raise(b)
          \/ seen' = [seen EXCEPT ![b] = new] /\ To(b, "lookup") /\ UNCHANGED answer
      BY <3>h, <3>0, <2>2 DEF ReadHashes, WithHashes
    <3>3. call' = call
      BY <2>2 DEF ReadHashes, WithHashes
    <3> QED
      BY <1>2, <1>6, <3>1, <3>2, <3>3 DEF Steps
  <2>3. CASE Resolve(b)
    <3>0. PICK new : new = WithTag(seen[b], tag, tool)
      OBVIOUS
    <3>1. IsInputs(new)
      BY <1>1, <3>0, ReadingTag
    <3>2. seen' = [seen EXCEPT ![b] = new] /\ To(b, "lookup") /\ UNCHANGED <<answer, call>>
      BY <3>0, <2>3 DEF Resolve, WithTag
    <3> QED
      BY <1>6, <3>1, <3>2 DEF Steps
  <2>4. CASE Clone(b)
    <3>0. PICK new : new = WithCheckout(seen[b], Committed(seen[b].head),
                                       Committed(seen[b].head).tracked)
      OBVIOUS
    <3>1. IsInputs(new)
      BY <1>1, <3>0, ReadingCheckout
    <3>2. \/ Raise(b)
          \/ To(b, "copy") /\ UNCHANGED <<answer, seen>>
          \/ seen' = [seen EXCEPT ![b] = new] /\ To(b, "compile") /\ UNCHANGED answer
      BY <3>0, <2>4 DEF Clone, WithCheckout
    <3>3. call' = call
      BY <2>4 DEF Clone
    <3> QED
      BY <1>2, <1>4, <1>6, <3>1, <3>2, <3>3 DEF Steps
  <2> QED
    BY <1>9, <2>2, <2>3, <2>4
<1>10. CASE \/ Lookup(b) \/ RemoveNothing(b) \/ Make(b) \/ Bundle(b) \/ Compile(b) \/ Find(b)
            \/ Validate(b) \/ Copy(b)
  BY <1>2, <1>3, <1>4, <1>5, <1>10
     DEF Lookup, RemoveNothing, Make, Bundle, Compile, Find, Validate, Copy, Steps
<1>11. CASE Remove(b)
  <2>1. CASE UNCHANGED pc
    <3>1. pc[b] = "remove" /\ UNCHANGED <<call, seen, answer>>
      BY <1>11 DEF Remove
    <3> QED
      BY <1>1, <2>1, <3>1 DEF OthersStay, StillCalls, GoesOn, Steps, CallTypes
  <2> QED
    BY <1>4, <1>11, <2>1 DEF Remove, Steps
<1>12. CASE Install(b)
  BY <1>2, <1>3, <1>5, <1>12 DEF Install, Steps
<1>13. CASE Relabel(b)
  <2>1. IsManifest([seen[b].cached EXCEPT !.label = call[b].label])
    BY <1>13, Relabelled DEF Relabel, Reads, ReadBy, IsManifest
  <2> QED
    BY <1>7, <1>13, <2>1 DEF Relabel
<1>14. CASE WriteManifest(b)
  <2>1. IsManifest(Manifest(b))
    BY <1>14 DEF WriteManifest, Reads, ReadBy, IsManifest, Manifest
  <2> QED
    BY <1>7, <1>14, <2>1 DEF WriteManifest
<1>15. CASE Use(b)
  <2>1. CASE Accepts(out)
    <3>1. IsManifest(out["manifest"])
      BY <2>1 DEF Accepts, OutTypes
    <3> QED
      BY <1>15, <2>1, <3>1, Going DEF Use, OthersStay, StillCalls, Ends
  <2> QED
    BY <1>2, <1>15, <2>1 DEF Use
<1> QED
  BY <1>8, <1>9, <1>10, <1>11, <1>12, <1>13, <1>14, <1>15
     DEF Step, ReadHead, ReadDiff, ReadUntracked, ReadRecords, ReadHashes, Resolve, Lookup,
         Relabel, Remove, RemoveNothing, Make, Clone, Copy, Bundle, Compile, Install,
         WriteManifest, Find, Validate, Use

\* A call starts with nothing read, at the first step of its kind.
First(kind) == IF kind = "local" THEN "head" ELSE IF kind = "release" THEN "resolve" ELSE "find"
LEMMA CallShape ==
  ASSUME CallTypes, NEW b \in Build, Call(b)
  PROVE  /\ OthersStay(b) /\ StillCalls /\ UNCHANGED <<world, made, out, answer>>
         /\ pc[b] = "idle" /\ IsInputs(seen'[b])
         /\ \E kind \in Kind, label \in Label :
              call'[b] = [kind |-> kind, label |-> label] /\ pc'[b] = First(kind)
<1> DEFINE new == [head |-> 0, diff |-> NoDiff, untracked |-> FALSE, hashes |-> 0,
                   records |-> None, lock |-> 0, tool |-> 0, bin |-> None, cached |-> None]
<1>1. PICK kind \in Kind, label \in Label :
        /\ call' = [call EXCEPT ![b] = [kind |-> kind, label |-> label]]
        /\ To(b, CASE kind = "local" -> "head" [] kind = "release" -> "resolve" [] OTHER -> "find")
  BY DEF Call
<1>2. (CASE kind = "local" -> "head" [] kind = "release" -> "resolve" [] OTHER -> "find")
        = First(kind)
  <2>1. CASE kind = "local"
    BY <2>1 DEF First
  <2>2. CASE kind = "release"
    BY <2>2 DEF First
  <2>3. CASE kind \notin {"local", "release"}
    BY <2>3 DEF First
  <2> QED
    BY <2>1, <2>2, <2>3
<1>3. To(b, First(kind))
  BY <1>1, <1>2
<1>4. /\ call' = [c \in Build |-> call'[c]] /\ call'[b] = [kind |-> kind, label |-> label]
      /\ \A c \in Build \ {b} : call'[c] = call[c]
  BY <1>1 DEF CallTypes
<1>5. seen' = [seen EXCEPT ![b] = new] /\ pc[b] = "idle" /\ UNCHANGED <<world, made, out, answer>>
  BY DEF Call
<1>6. IsInputs(new)
  BY DEF IsInputs
<1> HIDE DEF new
<1>7. /\ seen' = [c \in Build |-> seen'[c]] /\ IsInputs(seen'[b])
      /\ \A c \in Build \ {b} : seen'[c] = seen[c]
  BY <1>5, <1>6, Going
<1>8. /\ pc' = [c \in Build |-> pc'[c]] /\ pc'[b] = First(kind)
      /\ \A c \in Build \ {b} : pc'[c] = pc[c]
  BY <1>3, Going
<1>9. answer' = [c \in Build |-> answer'[c]]
  BY <1>5, Going
<1>10. OthersStay(b) /\ StillCalls
  BY <1>4, <1>5, <1>7, <1>8, <1>9 DEF OthersStay, StillCalls
<1> QED
  BY <1>4, <1>5, <1>7, <1>8, <1>10

LEMMA CrashShape ==
  ASSUME CallTypes, NEW b \in Build, Crash(b)
  PROVE  /\ OthersStay(b) /\ StillCalls /\ UNCHANGED <<world, made, call, answer>>
         /\ pc[b] \notin Stopped /\ pc'[b] = "dead"
         /\ out' = out \/ \E f \in Part \ {"target"} : Put(f, Torn)
<1>1. pc[b] \in DOMAIN Writing => Writing[pc[b]] \in Part \ {"target"}
  BY DEF Writing, Part
<1> QED
  BY <1>1, Going DEF Crash, Alive, OthersStay, StillCalls

LEMMA CallsNext ==
  ASSUME OutTypes, CallTypes, Reads, [Next]_vars
  PROVE  CallTypes'
<1>1. CASE UNCHANGED <<pc, call, seen, answer>>
  BY <1>1 DEF CallTypes, IsManifest, IsBinary, IsInputs
<1>2. ASSUME NEW b \in Build, OthersStay(b), StillCalls,
             pc'[b] \in Steps \cup Stopped,
             call'[b] \in [kind : {"local", "release", "profile"}, label : Label] \cup {None},
             pc'[b] = "ended" <=> answer'[b] # None, answer'[b] # None => IsManifest(answer'[b]),
             pc'[b] \notin Stopped => call'[b] # None /\ IsInputs(seen'[b]),
             pc'[b] # "idle"
      PROVE  CallTypes'
  <2>1. ASSUME NEW c \in Build, c # b
        PROVE  /\ pc'[c] \in Steps \cup Stopped
               /\ call'[c] \in [kind : {"local", "release", "profile"}, label : Label] \cup {None}
               /\ pc'[c] = "ended" <=> answer'[c] # None
               /\ answer'[c] # None => IsManifest(answer'[c])
               /\ pc'[c] \notin Stopped => call'[c] # None /\ IsInputs(seen'[c])
               /\ pc'[c] = "idle" => call'[c] = None
    BY <1>2, <2>1 DEF CallTypes, OthersStay
  <2>2. \A c \in Build : pc'[c] \in Steps \cup Stopped
    BY <1>2, <2>1
  <2>3. \A c \in Build :
          call'[c] \in [kind : {"local", "release", "profile"}, label : Label] \cup {None}
    BY <1>2, <2>1
  <2>4. /\ seen' = [c \in Build |-> seen'[c]] /\ answer' = [c \in Build |-> answer'[c]]
        /\ pc' \in [Build -> Steps \cup Stopped]
        /\ call' \in [Build -> [kind : {"local", "release", "profile"}, label : Label] \cup {None}]
    BY <1>2, <2>2, <2>3 DEF StillCalls
  <2>5. \A c \in Build :
          /\ pc'[c] = "ended" <=> answer'[c] # None
          /\ answer'[c] # None => IsManifest(answer'[c])
          /\ pc'[c] \notin Stopped => call'[c] # None /\ IsInputs(seen'[c])
          /\ pc'[c] = "idle" => call'[c] = None
    BY <1>2, <2>1
  <2> QED
    BY <2>4, <2>5 DEF CallTypes, IsManifest, IsBinary, IsInputs
<1>3. ASSUME NEW b \in Build, Call(b)
      PROVE  CallTypes'
  <2>1. PICK kind \in Kind, label \in Label :
          call'[b] = [kind |-> kind, label |-> label] /\ pc'[b] = First(kind)
    BY <1>3, CallShape
  <2>2. /\ call'[b] # None
        /\ call'[b] \in [kind : {"local", "release", "profile"}, label : Label]
    BY <2>1, KindsAssumption DEF None
  <2>3. pc'[b] \in {"head", "resolve", "find"}
    BY <2>1 DEF First
  <2>4. answer'[b] = None
    BY <1>3, CallShape DEF CallTypes
  <2> QED
    BY <1>2, <1>3, <2>2, <2>3, <2>4, CallShape DEF Steps, Stopped
<1>4. ASSUME NEW b \in Build, Crash(b)
      PROVE  CallTypes'
  <2>1. answer'[b] = None /\ call'[b] = call[b]
    BY <1>4, CrashShape DEF CallTypes, Stopped
  <2> QED
    BY <1>2, <1>4, <2>1, CrashShape DEF CallTypes, Stopped
<1>5. ASSUME NEW b \in Build, Step(b)
      PROVE  CallTypes'
  <2>1. pc[b] \notin Stopped
    BY <1>5, Running
  <2>2. /\ answer[b] = None /\ call'[b] # None
        /\ call'[b] \in [kind : {"local", "release", "profile"}, label : Label] \cup {None}
    BY <1>5, <2>1, StepShape DEF CallTypes, Stopped
  <2>3. CASE Stops(b)
    BY <1>2, <1>5, <2>2, <2>3, StepShape DEF Stops, Steps, Stopped
  <2>4. CASE GoesOn(b)
    BY <1>2, <1>5, <2>2, <2>4, StepShape DEF GoesOn, Steps, Stopped
  <2>5. CASE Ends(b)
    BY <1>2, <1>5, <2>2, <2>5, StepShape, Marks DEF Ends, Steps, Stopped
  <2> QED
    BY <1>5, <2>3, <2>4, <2>5, StepShape
<1> QED
  BY <1>1, <1>3, <1>4, <1>5 DEF Next, Move, Damage, vars

-----------------------------------------------------------------------------
\* Only a call is asked for.
LEMMA CallUnchanged ==
  ASSUME OutTypes, CallTypes, Reads, [Next]_vars
  PROVE  call' = call \/ \E b \in Build : Call(b)
<1>1. ASSUME NEW b \in Build, Step(b)
      PROVE  call' = call
  BY <1>1, StepShape
<1>2. ASSUME NEW b \in Build, Crash(b)
      PROVE  call' = call
  BY <1>2, CrashShape
<1> QED
  BY <1>1, <1>2 DEF Next, Move, Damage, vars

\* A local build that was asked for stays asked for, and with it every key.
LEMMA KeysStay ==
  ASSUME OutTypes, CallTypes, Reads, [Next]_vars
  PROVE  \A m : KeyHolds(m) => KeyHolds(m)'
<1>1. ASSUME NEW c \in Build, call[c] # None
      PROVE  call'[c] = call[c]
  <2>1. CASE call' = call
    BY <2>1
  <2>2. ASSUME NEW b \in Build, Call(b)
        PROVE  call'[c] = call[c]
    <3>1. pc[b] = "idle" /\ OthersStay(b)
      BY <2>2, CallShape
    <3> QED
      BY <1>1, <3>1 DEF OthersStay, CallTypes
  <2> QED
    BY <2>1, <2>2, CallUnchanged
<1>2. LocalCalled => LocalCalled'
  BY <1>1 DEF LocalCalled
<1> QED
  BY <1>2 DEF KeyHolds

\* Only a compilation puts a binary in the target directory, with the
\* toolchain of then.
LEMMA TargetNext ==
  ASSUME OutTypes, CallTypes, [Next]_vars
  PROVE  \/ out'["target"] \in {out["target"], NoFile}
         \/ out'["target"].tool = tool
<1>1. ASSUME NEW f \in Part \ {"target"}, NEW x, Put(f, x)
      PROVE  out'["target"] = out["target"]
  BY <1>1 DEF Put, OutTypes, Part
<1>2. ASSUME NEW b \in Build,
             \/ Call(b) \/ ReadHead(b) \/ ReadDiff(b) \/ ReadUntracked(b) \/ ReadRecords(b)
             \/ ReadHashes(b) \/ Resolve(b) \/ Lookup(b) \/ RemoveNothing(b) \/ Make(b) \/ Find(b)
             \/ Validate(b) \/ Use(b)
      PROVE  out' = out
  BY <1>2
     DEF Call, ReadHead, ReadDiff, ReadUntracked, ReadRecords, ReadHashes, Resolve, Lookup,
         RemoveNothing, Make, Find, Validate, Use, Raise
<1>3. ASSUME NEW b \in Build,
             Relabel(b) \/ Clone(b) \/ Copy(b) \/ Bundle(b) \/ Install(b) \/ WriteManifest(b)
      PROVE  out'["target"] = out["target"]
  BY <1>1, <1>3 DEF Relabel, Clone, Copy, Bundle, Install, WriteManifest, Raise, Part
<1>4. ASSUME NEW b \in Build, Remove(b)
      PROVE  out'["target"] \in {out["target"], NoFile}
  BY <1>1, <1>4 DEF Remove, Put, OutTypes, Part
<1>5. ASSUME NEW b \in Build, Compile(b), Put("target", [files |-> out["source"].files,
                          head |-> out["source"].head, tool |-> tool])
      PROVE  out'["target"].tool = tool
  BY <1>5 DEF Put, OutTypes, Part
<1>6. ASSUME NEW b \in Build, Compile(b)
      PROVE  out' = out \/ out'["target"].tool = tool
  BY <1>5, <1>6 DEF Compile, Raise
<1>7. ASSUME NEW b \in Build, Crash(b)
      PROVE  out'["target"] = out["target"]
  BY <1>1, <1>7, CrashShape
<1>8. CASE Damage
  BY <1>1, <1>8 DEF Damage
<1> QED
  BY <1>2, <1>3, <1>4, <1>6, <1>7, <1>8 DEF Next, Step, Move, vars

\* What another call reads, or has written, is no loss to this one.
LEMMA OthersRead ==
  ASSUME WorldTypes, OutTypes, CallTypes, Reads, [Next]_vars, NEW c \in Build,
         pc'[c] = pc[c], call'[c] = call[c], seen'[c] = seen[c]
  PROVE  ReadBy(c)'
<1>1. tool \in Nat /\ tool' \in Nat /\ tool <= tool'
  BY WorldNext, BoundsAssumption DEF WorldTypes
<1>2. ReadBy(c)
  BY DEF Reads
<1>3. pc[c] \in ToolKnown => seen'[c].tool \in 1 .. tool'
  BY <1>1, <1>2 DEF ReadBy
<1>4. pc[c] = "install" /\ out'["target"] # NoFile =>
        out'["target"].tool \in Nat /\ seen[c].tool <= out'["target"].tool
  BY <1>1, <1>2, TargetNext DEF ReadBy, ToolKnown
<1>5. pc[c] = "reuse" => KeyHolds(seen[c].cached)'
  BY <1>2, KeysStay DEF ReadBy
<1> QED
  BY <1>2, <1>3, <1>4, <1>5 DEF ReadBy, IsManifest, IsBinary, Key, Dirty, KeyHolds

\* What a call has read holds after each step it makes.
LEMMA ReadsNext ==
  ASSUME WorldTypes, OutTypes, CallTypes, Reads, Keys, [Next]_vars
  PROVE  Reads'
<1>0. tool \in Nat \ {0} /\ tool' \in Nat /\ tool <= tool'
  BY WorldNext, BoundsAssumption DEF WorldTypes
<1> DEFINE W == {"ended", "raised", "refused", "dead"}
<1>1. ASSUME NEW b \in Build, pc'[b] \in W
      PROVE  ReadBy(b)'
  BY <1>1 DEF ReadBy, LocalSteps, ProfileSteps, ToolKnown
<1>2. ASSUME NEW b \in Build, pc'[b] \in {"diff", "others", "records", "hashes"},
             call' = call, call[b].kind = "local"
      PROVE  ReadBy(b)'
  BY <1>2 DEF ReadBy, LocalSteps, ProfileSteps, ToolKnown
<1>3. ASSUME NEW b \in Build, pc'[b] \in ProfileSteps, call' = call, call[b].kind = "profile"
      PROVE  ReadBy(b)'
  BY <1>3 DEF ReadBy, LocalSteps, ProfileSteps, ToolKnown
<1>4. ASSUME NEW b \in Build, pc'[b] \in {"lookup", "remove", "make", "clone"},
             seen'[b].tool \in 1 .. tool
      PROVE  ReadBy(b)'
  BY <1>0, <1>4 DEF ReadBy, LocalSteps, ProfileSteps, ToolKnown
<1>5. ASSUME NEW b \in Build, pc[b] \in ToolKnown, Step(b), seen' = seen
      PROVE  seen'[b].tool \in 1 .. tool /\ seen'[b].tool \in 1 .. tool'
  BY <1>0, <1>5 DEF Reads, ReadBy
<1>6. ASSUME NEW b \in Build, Step(b), Stops(b)
      PROVE  ReadBy(b)'
  BY <1>1, <1>6 DEF Stops
<1>7. ASSUME NEW b \in Build, Raise(b)
      PROVE  ReadBy(b)'
  BY <1>1, <1>7, Going DEF Raise
<1>8. ASSUME NEW b \in Build, ReadHead(b) \/ ReadDiff(b) \/ ReadUntracked(b) \/ ReadRecords(b)
      PROVE  ReadBy(b)'
  <2>1. call' = call /\ call[b].kind = "local"
    BY <1>8 DEF ReadHead, ReadDiff, ReadUntracked, ReadRecords, Reads, ReadBy, LocalSteps
  <2>2. pc'[b] \in {"diff", "others", "records", "hashes", "refused"}
    BY <1>8, Going DEF ReadHead, ReadDiff, ReadUntracked, ReadRecords
  <2> QED
    BY <1>1, <1>2, <2>1, <2>2
<1>9. ASSUME NEW b \in Build, ReadHashes(b)
      PROVE  ReadBy(b)'
  <2>h. PICK h : h = IF seen[b].untracked THEN tree.untracked ELSE 0
    OBVIOUS
  <2>0. PICK new : new = WithHashes(seen[b], tool, tree.tracked, h)
    OBVIOUS
  <2>1. new.tool = tool
    <3>1. IsInputs(seen[b])
      BY <1>9 DEF ReadHashes, CallTypes, Stopped
    <3> QED
      BY <2>0, <3>1, ReadingHashes
  <2>2. Raise(b) \/ (seen' = [seen EXCEPT ![b] = new] /\ To(b, "lookup"))
    BY <1>9, <2>h, <2>0 DEF ReadHashes, WithHashes
  <2>3. Raise(b) \/ (seen'[b] = new /\ pc'[b] = "lookup")
    BY <2>2, Going
  <2> QED
    BY <1>0, <1>4, <1>7, <2>1, <2>3
<1>10. ASSUME NEW b \in Build, Resolve(b)
       PROVE  ReadBy(b)'
  <2>0. PICK new : new = WithTag(seen[b], tag, tool)
    OBVIOUS
  <2>1. new.tool = tool
    <3>1. IsInputs(seen[b])
      BY <1>10 DEF Resolve, CallTypes, Stopped
    <3> QED
      BY <2>0, <3>1, ReadingTag
  <2>2. seen' = [seen EXCEPT ![b] = new] /\ To(b, "lookup")
    BY <1>10, <2>0 DEF Resolve, WithTag
  <2>3. seen'[b] = new /\ pc'[b] = "lookup"
    BY <2>2, Going
  <2> QED
    BY <1>0, <1>4, <2>1, <2>3
<1>11. ASSUME NEW b \in Build, Lookup(b)
       PROVE  ReadBy(b)'
  <2>1. pc[b] = "lookup" /\ call' = call /\ IsInputs(seen[b]) /\ seen[b].tool \in 1 .. tool
    BY <1>11 DEF Lookup, CallTypes, Stopped, Reads, ReadBy, ToolKnown
  <2>2. CASE Hit(out, call[b].kind, seen[b])
    <3>1. See(b, "cached", out["manifest"]) /\ pc'[b] = "reuse"
      BY <1>11, <2>2, Going DEF Lookup
    <3>2. /\ seen'[b].cached = out["manifest"] /\ seen'[b].tool = seen[b].tool
          /\ seen'[b].head = seen[b].head /\ Key("local", seen'[b]) = Key("local", seen[b])
      BY <2>1, <3>1, Reading DEF Key, Dirty
    <3>m. PICK m : m = out["manifest"]
      OBVIOUS
    <3>3. IsManifest(m) /\ KeyHolds(m)'
      <4>1. IsManifest(m) /\ KeyHolds(m)
        BY <2>2, <3>m DEF Hit, Accepts, OutTypes, Keys
      <4> QED
        BY <4>1, KeysStay
    <3>4. IF call[b].kind = "local" THEN out["manifest"].key = Key("local", seen[b])
          ELSE /\ out["manifest"].key.kind = "release"
               /\ out["manifest"].key.head = seen[b].head
               /\ out["manifest"].key.tool = seen[b].tool
      BY <2>2 DEF Hit
    <3>5. /\ IsManifest(seen'[b].cached)
          /\ KeyHolds(seen[b].cached)'
      BY <3>m, <3>2, <3>3 DEF KeyHolds
    <3>6. IF call[b].kind = "local" THEN seen'[b].cached.key = Key("local", seen'[b])
          ELSE /\ seen'[b].cached.key.kind = "release"
               /\ seen'[b].cached.key.head = seen'[b].head
               /\ seen'[b].cached.key.tool = seen'[b].tool
      BY <3>2, <3>4
    <3>7. seen'[b].tool \in 1 .. tool'
      BY <1>0, <2>1, <3>2
    <3> QED
      BY <2>1, <3>1, <3>5, <3>6, <3>7
         DEF ReadBy, LocalSteps, ProfileSteps, IsManifest, IsBinary, Key, Dirty
  <2>3. CASE ~ Hit(out, call[b].kind, seen[b])
    BY <1>4, <1>11, <2>1, <2>3, Going DEF Lookup
  <2> QED
    BY <2>2, <2>3
<1>12. ASSUME NEW b \in Build, Return(b, answer'[b]), call' = call
       PROVE  ReadBy(b)'
  BY <1>1, <1>3, <1>12, Going DEF Return, ProfileSteps
<1>13. ASSUME NEW b \in Build, Relabel(b) \/ WriteManifest(b)
       PROVE  ReadBy(b)'
  BY <1>1, <1>3, <1>13, Going DEF Relabel, WriteManifest, Return, ProfileSteps
<1>14. ASSUME NEW b \in Build, Remove(b) \/ RemoveNothing(b) \/ Make(b)
       PROVE  ReadBy(b)'
  <2>1. pc[b] \in {"remove", "make"} /\ seen[b].tool \in 1 .. tool
    BY <1>14 DEF Remove, RemoveNothing, Make, Reads, ReadBy, ToolKnown
  <2>2. Raise(b) \/ (seen' = seen /\ pc'[b] \in {"remove", "make", "clone"})
    BY <1>14, Going DEF Remove, RemoveNothing, Make
  <2> QED
    BY <1>4, <1>7, <2>1, <2>2
<1>15. ASSUME NEW b \in Build, Clone(b)
       PROVE  ReadBy(b)'
  <2>0. PICK new : new = WithCheckout(seen[b], Committed(seen[b].head),
                                       Committed(seen[b].head).tracked)
    OBVIOUS
  <2>1. /\ new.tool = seen[b].tool /\ new.records = Committed(new.head)
        /\ seen[b].tool \in 1 .. tool
    <3>1. IsInputs(seen[b]) /\ seen[b].tool \in 1 .. tool
      BY <1>15 DEF Clone, CallTypes, Stopped, Reads, ReadBy, ToolKnown
    <3> QED
      BY <2>0, <3>1, ReadingCheckout
  <2>2. \/ Raise(b)
        \/ seen' = seen /\ pc'[b] = "copy" /\ call[b].kind = "local"
        \/ seen'[b] = new /\ pc'[b] = "compile" /\ call[b].kind # "local"
    BY <1>15, <2>0, Going DEF Clone, WithCheckout
  <2>3. call' = call
    BY <1>15 DEF Clone
  <2>4. CASE seen' = seen /\ pc'[b] = "copy" /\ call[b].kind = "local"
    BY <1>0, <2>1, <2>3, <2>4 DEF ReadBy, LocalSteps, ProfileSteps
  <2>5. CASE seen'[b] = new /\ pc'[b] = "compile" /\ call[b].kind # "local"
    BY <1>0, <2>1, <2>3, <2>5 DEF ReadBy, LocalSteps, ProfileSteps, Committed
  <2> QED
    BY <1>7, <2>2, <2>4, <2>5
<1>16. ASSUME NEW b \in Build, Copy(b) \/ Bundle(b)
       PROVE  ReadBy(b)'
  <2>1. call' = call /\ call[b].kind = "local" /\ seen[b].tool \in 1 .. tool
    BY <1>16 DEF Copy, Bundle, Reads, ReadBy, LocalSteps, ToolKnown
  <2>2. \/ pc'[b] = "raised"
        \/ seen' = seen /\ pc'[b] \in {"bundle", "compile"}
    BY <1>16, Going DEF Copy, Bundle, Raise
  <2> QED
    BY <1>0, <1>1, <2>1, <2>2 DEF ReadBy, LocalSteps, ProfileSteps
<1>17. ASSUME NEW b \in Build, Compile(b)
       PROVE  ReadBy(b)'
  <2>1. /\ call' = call /\ seen[b].tool \in 1 .. tool
        /\ call[b].kind # "local" => seen[b].records = Committed(seen[b].head)
    BY <1>17 DEF Compile, Reads, ReadBy, ToolKnown
  <2>2. CASE Raise(b)
    BY <1>7, <2>2
  <2>3. CASE ~ Raise(b)
    <3>1. /\ Put("target", [files |-> out["source"].files, head |-> out["source"].head, tool |-> tool])
          /\ pc'[b] = "install" /\ seen' = seen
      BY <1>17, <2>3, Going DEF Compile
    <3>2. out'["target"].tool = tool
      BY <3>1 DEF Put, OutTypes, Part
    <3> QED
      BY <1>0, <2>1, <3>1, <3>2 DEF ReadBy, LocalSteps, ProfileSteps, Committed
  <2> QED
    BY <2>2, <2>3
<1>18. ASSUME NEW b \in Build, Install(b)
       PROVE  ReadBy(b)'
  <2>1. /\ pc[b] = "install" /\ call' = call /\ IsInputs(seen[b]) /\ seen[b].tool \in 1 .. tool
        /\ call[b].kind # "local" => seen[b].records = Committed(seen[b].head)
        /\ out["target"] # NoFile =>
             out["target"].tool \in Nat /\ seen[b].tool <= out["target"].tool
    BY <1>18 DEF Install, CallTypes, Stopped, Reads, ReadBy, ToolKnown
  <2>2. \/ pc'[b] = "raised"
        \/ /\ See(b, "bin", out["target"]) /\ pc'[b] = "write" /\ out["target"] # NoFile
    BY <1>18, Going DEF Install, Raise
  <2>3. CASE See(b, "bin", out["target"]) /\ pc'[b] = "write" /\ out["target"] # NoFile
    <3>1. /\ seen'[b].bin = out["target"] /\ seen'[b].tool = seen[b].tool
          /\ seen'[b].records = seen[b].records /\ seen'[b].head = seen[b].head
      BY <2>1, <2>3, Reading
    <3>2. IsBinary(out["target"])
      BY <2>3 DEF OutTypes
    <3> QED
      BY <1>0, <2>1, <2>3, <3>1, <3>2
         DEF ReadBy, LocalSteps, ProfileSteps, Committed, IsBinary
  <2> QED
    BY <1>1, <2>2, <2>3
<1>19. ASSUME NEW b \in Build, Find(b) \/ Validate(b) \/ Use(b)
       PROVE  ReadBy(b)'
  <2>1. call' = call /\ call[b].kind = "profile"
    BY <1>19 DEF Find, Validate, Use, Reads, ReadBy, ProfileSteps
  <2>2. pc'[b] \in {"resolve", "validate", "use", "raised", "ended"}
    BY <1>19, Going DEF Find, Validate, Use, Raise
  <2> QED
    BY <1>1, <1>3, <2>1, <2>2 DEF ReadBy, LocalSteps, ProfileSteps, ToolKnown
<1>20. ASSUME NEW b \in Build, Call(b)
       PROVE  ReadBy(b)'
  <2>1. PICK kind \in Kind, label \in Label :
          call'[b] = [kind |-> kind, label |-> label] /\ pc'[b] = First(kind)
    BY <1>20, CallShape
  <2>2. kind \in {"local", "release", "profile"} /\ call'[b].kind = kind
    BY <2>1, KindsAssumption
  <2> QED
    BY <2>1, <2>2 DEF First, ReadBy, LocalSteps, ProfileSteps, ToolKnown
<1>21. ASSUME NEW b \in Build, Crash(b)
       PROVE  ReadBy(b)'
  BY <1>1, <1>21, CrashShape
<1>22. ASSUME NEW b \in Build, Step(b)
       PROVE  ReadBy(b)'
  BY <1>8, <1>9, <1>10, <1>11, <1>13, <1>14, <1>15, <1>16, <1>17, <1>18, <1>19, <1>22 DEF Step
<1>23. ASSUME NEW b \in Build, Call(b) \/ Step(b) \/ Crash(b)
       PROVE  Reads'
  <2>1. OthersStay(b)
    BY <1>23, CallShape, StepShape, CrashShape
  <2>2. ASSUME NEW c \in Build, c # b
        PROVE  ReadBy(c)'
    BY <2>1, <2>2, OthersRead DEF OthersStay
  <2> QED
    BY <1>20, <1>21, <1>22, <1>23, <2>2 DEF Reads
<1>24. CASE UNCHANGED <<pc, call, seen>>
  BY <1>24, OthersRead DEF Reads
<1> QED
  BY <1>23, <1>24 DEF Next, Move, Damage, vars

-----------------------------------------------------------------------------
\* The cached manifest with the label of the call.
Mine(b) == [seen[b].cached EXCEPT !.label = call[b].label]
\* What a manifest that is written, or answered, comes from.
Written(b, m) == (Relabel(b) /\ m = Mine(b)) \/ (WriteManifest(b) /\ m = Manifest(b))

\* The manifest in place is written by the two steps that write one.
LEMMA ManifestNext ==
  ASSUME OutTypes, CallTypes, [Next]_vars
  PROVE  \/ out'["manifest"] \in {out["manifest"], NoFile, Torn}
         \/ \E b \in Build : Written(b, out'["manifest"])
<1>1. ASSUME NEW f \in Part \ {"manifest"}, NEW x, Put(f, x)
      PROVE  out'["manifest"] = out["manifest"]
  BY <1>1 DEF Put, OutTypes, Part
<1>2. ASSUME NEW x, Put("manifest", x)
      PROVE  out'["manifest"] = x
  BY <1>2 DEF Put, OutTypes, Part
<1>3. ASSUME NEW b \in Build,
             \/ Call(b) \/ ReadHead(b) \/ ReadDiff(b) \/ ReadUntracked(b) \/ ReadRecords(b)
             \/ ReadHashes(b) \/ Resolve(b) \/ Lookup(b) \/ RemoveNothing(b) \/ Make(b) \/ Find(b)
             \/ Validate(b) \/ Use(b)
      PROVE  out' = out
  BY <1>3
     DEF Call, ReadHead, ReadDiff, ReadUntracked, ReadRecords, ReadHashes, Resolve, Lookup,
         RemoveNothing, Make, Find, Validate, Use, Raise
<1>4. ASSUME NEW b \in Build, Clone(b) \/ Copy(b) \/ Bundle(b) \/ Compile(b) \/ Install(b)
      PROVE  out'["manifest"] = out["manifest"]
  BY <1>1, <1>4 DEF Clone, Copy, Bundle, Compile, Install, Raise, Part
<1>5. ASSUME NEW b \in Build, Remove(b)
      PROVE  out'["manifest"] \in {out["manifest"], NoFile, Torn}
  BY <1>5 DEF Remove, Put, OutTypes, Part
<1>6. ASSUME NEW b \in Build, Relabel(b)
      PROVE  out' = out \/ Written(b, out'["manifest"])
  BY <1>2, <1>6 DEF Relabel, Written, Mine
<1>7. ASSUME NEW b \in Build, WriteManifest(b)
      PROVE  Written(b, out'["manifest"])
  BY <1>2, <1>7 DEF WriteManifest, Written
<1>8. ASSUME NEW b \in Build, Crash(b)
      PROVE  out'["manifest"] \in {out["manifest"], Torn}
  <2>1. out' = out \/ \E f \in Part \ {"target"} : Put(f, Torn)
    BY <1>8, CrashShape
  <2> QED
    BY <1>1, <1>2, <2>1
<1>9. CASE Damage
  BY <1>1, <1>2, <1>9 DEF Damage
<1> QED
  BY <1>3, <1>4, <1>5, <1>6, <1>7, <1>8, <1>9 DEF Next, Step, Move, vars

\* An answer is given once, by the call itself.
LEMMA AnswerNext ==
  ASSUME OutTypes, CallTypes, Reads, [Next]_vars, NEW c \in Build, answer'[c] # answer[c]
  PROVE  /\ answer[c] = None /\ seen'[c] = seen[c] /\ call'[c] = call[c]
         /\ \/ Written(c, answer'[c]) /\ call[c].kind # "profile"
            \/ Use(c) /\ Accepts(out) /\ answer'[c] = out["manifest"] /\ call[c].kind = "profile"
<1>1. PICK b \in Build : Call(b) \/ Step(b) \/ Crash(b)
  BY DEF Next, Move, Damage, vars
<1>2. OthersStay(b) /\ b = c
  BY <1>1, CallShape, StepShape, CrashShape DEF OthersStay
<1>3. Step(c) /\ Ends(c)
  BY <1>1, <1>2, CallShape, StepShape, CrashShape DEF Stops, GoesOn
<1>4. seen'[c] = seen[c] /\ call'[c] = call[c] /\ pc'[c] = "ended"
  BY <1>3, StepShape DEF Ends
<1>5. ASSUME NEW m, Return(c, m), pc[c] \notin Stopped
      PROVE  call[c].kind # "profile" /\ answer'[c] = m
  BY <1>4, <1>5, Going DEF Return
<1>6. ASSUME Relabel(c)
      PROVE  Written(c, answer'[c]) /\ call[c].kind # "profile"
  <2>1. Return(c, Mine(c)) /\ pc[c] \notin Stopped
    BY <1>6 DEF Relabel, Mine, Stopped
  <2> QED
    BY <1>5, <1>6, <2>1 DEF Written
<1>7. ASSUME WriteManifest(c)
      PROVE  Written(c, answer'[c]) /\ call[c].kind # "profile"
  <2>1. Return(c, Manifest(c)) /\ pc[c] \notin Stopped
    BY <1>7 DEF WriteManifest, Stopped
  <2> QED
    BY <1>5, <1>7, <2>1 DEF Written
<1>8. ASSUME Use(c)
      PROVE  Accepts(out) /\ answer'[c] = out["manifest"] /\ call[c].kind = "profile"
  <2>1. call[c].kind = "profile"
    BY <1>8 DEF Use, Reads, ReadBy, ProfileSteps
  <2>2. Accepts(out) /\ answer'[c] = out["manifest"]
    BY <1>4, <1>8, Going DEF Use, Raise
  <2> QED
    BY <2>1, <2>2
<1>9. \/ Relabel(c) \/ WriteManifest(c) \/ Use(c)
  BY <1>3
     DEF Step, ReadHead, ReadDiff, ReadUntracked, ReadRecords, ReadHashes, Resolve, Lookup,
         Remove, RemoveNothing, Make, Clone, Copy, Bundle, Compile, Install, Find, Validate, Raise
<1>10. pc[c] \notin Stopped
  BY <1>9 DEF Relabel, WriteManifest, Use, Stopped
<1>11. answer[c] = None
  BY <1>10 DEF CallTypes, Stopped
<1> QED
  BY <1>4, <1>6, <1>7, <1>8, <1>9, <1>11

\* What is written is of the inputs the call has read.
LEMMA WrittenHolds ==
  ASSUME WorldTypes, OutTypes, CallTypes, Reads, NEW b \in Build, NEW m, Written(b, m)
  PROVE  /\ KeyHolds(m) /\ IsManifest(m)
         /\ m.label = call[b].label /\ m.key.head = seen[b].head
         /\ m.key.tool = seen[b].tool
         /\ m.key.records = IF call[b].kind = "local" THEN seen[b].records
                            ELSE Committed(seen[b].head)
<1>1. CASE Relabel(b) /\ m = Mine(b)
  <2> DEFINE o == seen[b].cached
  <2>1. /\ IsManifest(o) /\ KeyHolds(o)
        /\ IF call[b].kind = "local" THEN o.key = Key("local", seen[b])
           ELSE /\ o.key.kind = "release" /\ o.key.head = seen[b].head
                /\ o.key.tool = seen[b].tool
    BY <1>1 DEF Relabel, Reads, ReadBy
  <2>2. m = [key |-> o.key, label |-> call[b].label, bin |-> o.bin]
    BY <1>1, <2>1, Relabelled DEF Mine
  <2>3. m.key = o.key /\ m.bin = o.bin /\ m.label = call[b].label /\ IsManifest(m)
    BY <2>1, <2>2 DEF IsManifest, IsBinary
  <2>4. KeyHolds(m)
    BY <2>1, <2>3 DEF KeyHolds
  <2>5. /\ m.key.head = seen[b].head /\ m.key.tool = seen[b].tool
        /\ m.key.records = IF call[b].kind = "local" THEN seen[b].records
                           ELSE Committed(seen[b].head)
    BY <2>1, <2>3 DEF Key, KeyHolds
  <2> QED
    BY <2>3, <2>4, <2>5
<1>2. CASE WriteManifest(b) /\ m = Manifest(b)
  <2>1. /\ pc[b] = "write" /\ call[b] # None
        /\ call[b] \in [kind : {"local", "release", "profile"}, label : Label] \cup {None}
    BY <1>2 DEF WriteManifest, CallTypes, Stopped
  <2>2. /\ seen[b].tool \in 1 .. tool
        /\ call[b].kind # "local" => seen[b].records = Committed(seen[b].head)
        /\ IsBinary(seen[b].bin) /\ seen[b].bin.tool \in Nat
        /\ seen[b].tool <= seen[b].bin.tool
    BY <2>1 DEF Reads, ReadBy, ToolKnown
  <2>3. PICK kind \in {"local", "release"} :
          /\ m = [key |-> Key(kind, seen[b]), label |-> call[b].label, bin |-> seen[b].bin]
          /\ kind = IF call[b].kind = "local" THEN "local" ELSE "release"
    BY <1>2 DEF Manifest
  <2>4. /\ m.key.kind = kind /\ m.key.head = seen[b].head /\ m.key.tool = seen[b].tool
        /\ m.key.records = seen[b].records /\ m.label = call[b].label /\ m.bin = seen[b].bin
    BY <2>3 DEF Key
  <2>5. IsManifest(m)
    BY <2>2, <2>3, <2>4 DEF IsManifest
  <2>6. kind = "local" => LocalCalled
    BY <2>1, <2>3 DEF LocalCalled
  <2>7. m.key.tool \in Nat \ {0} /\ m.bin.tool \in Nat /\ m.key.tool <= m.bin.tool
    BY <2>2, <2>4, BoundsAssumption DEF WorldTypes
  <2>8. KeyHolds(m)
    BY <2>2, <2>3, <2>4, <2>6, <2>7 DEF KeyHolds
  <2> QED
    BY <2>2, <2>3, <2>4, <2>5, <2>8
<1> QED
  BY <1>1, <1>2 DEF Written

LEMMA KeysNext ==
  ASSUME WorldTypes, OutTypes, CallTypes, Reads, Keys, [Next]_vars
  PROVE  Keys'
<1>1. ASSUME NEW m, m = out'["manifest"], m \notin {NoFile, Torn}
      PROVE  KeyHolds(m)
  BY <1>1, ManifestNext, WrittenHolds DEF Keys
<1>2. ASSUME NEW c \in Build, NEW m, m = answer'[c], m # None
      PROVE  KeyHolds(m)
  <2>1. CASE answer'[c] = answer[c]
    BY <1>2, <2>1 DEF Keys
  <2>2. CASE answer'[c] # answer[c]
    BY <1>2, <2>2, AnswerNext, WrittenHolds DEF Keys, Accepts
  <2> QED
    BY <2>1, <2>2
<1>3. \A m : KeyHolds(m) => KeyHolds(m)'
  BY KeysStay
<1> QED
  BY <1>1, <1>2, <1>3 DEF Keys, KeyHolds

LEMMA MatchesNext ==
  ASSUME WorldTypes, OutTypes, CallTypes, Reads, Keys, AnswerMatches, [Next]_vars
  PROVE  AnswerMatches'
<1> SUFFICES ASSUME NEW c \in Build, answer'[c] # None, call'[c].kind # "profile"
             PROVE  /\ answer'[c].label = call'[c].label
                    /\ answer'[c].key.head = seen'[c].head
                    /\ answer'[c].key.tool = seen'[c].tool
                    /\ answer'[c].key.records = IF call'[c].kind = "local" THEN seen'[c].records
                                                ELSE Committed(seen'[c].head)
  BY DEF AnswerMatches, Committed
<1>1. CASE answer'[c] = answer[c]
  <2>1. pc[c] = "ended"
    BY <1>1 DEF CallTypes
  <2>2. seen'[c] = seen[c] /\ call'[c] = call[c]
    <3>1. ASSUME NEW b \in Build, Call(b) \/ Step(b) \/ Crash(b)
          PROVE  OthersStay(b) /\ pc[b] # "ended"
      <4>1. CASE Call(b) \/ Crash(b)
        BY <4>1, CallShape, CrashShape DEF Stopped
      <4>2. CASE Step(b)
        BY <4>2, StepShape, Running DEF Stopped
      <4> QED
        BY <3>1, <4>1, <4>2
    <3> QED
      BY <2>1, <3>1 DEF Next, Move, Damage, vars, OthersStay
  <2> QED
    BY <1>1, <2>2 DEF AnswerMatches
<1>2. CASE answer'[c] # answer[c]
  BY <1>2, AnswerNext, WrittenHolds
<1> QED
  BY <1>1, <1>2

LEMMA Starts ==
  ASSUME Init
  PROVE  IInv
<1>1. WorldTypes
  BY MovesAssumption, BoundsAssumption DEF Init, WorldTypes, Committed
<1>2. OutTypes
  BY DEF Init, OutTypes, Part
<1>3. CallTypes
  BY DEF Init, CallTypes, Stopped, Steps
<1>4. Reads
  BY DEF Init, Reads, ReadBy, LocalSteps, ProfileSteps, ToolKnown
<1>5. Keys
  BY DEF Init, Keys, Part
<1>6. AnswerMatches
  BY DEF Init, AnswerMatches
<1> QED
  BY <1>1, <1>2, <1>3, <1>4, <1>5, <1>6 DEF IInv

(* The inductive invariant, of any number of calls at once.                *)
THEOREM Invariant == Spec => []IInv
<1>1. IInv /\ [Next]_vars => IInv'
  BY WorldNext, OutNext, CallsNext, ReadsNext, KeysNext, MatchesNext DEF IInv
<1> QED
  BY Starts, <1>1, PTL DEF Spec

(* The variables are of their types, nothing is in an output directory     *)
(* that is not there, and exactly the calls that ended have an answer.     *)
THEOREM TypeCorrect == Spec => []TypeOK
<1>1. IInv => TypeOK
  BY BoundsAssumption DEF IInv, WorldTypes, OutTypes, CallTypes, TypeOK
<1> QED
  BY Invariant, <1>1, PTL

(* What build_local and build_release return, built or found in the cache, *)
(* is of the commit, the source and the toolchain the call has read, with  *)
(* its own label - also while other calls build in the same directory.     *)
THEOREM AnswersMatch == Spec => []AnswerMatches
BY Invariant, PTL DEF IInv

-----------------------------------------------------------------------------
\* A call begins when no other is running.
LEMMA AloneNext ==
  ASSUME AtOnce = 1, IInv, Alone, [Next]_vars
  PROVE  Alone'
<1>1. ASSUME NEW b \in Build, Call(b)
      PROVE  Alone'
  <2>1. IsFiniteSet(Alive)
    BY BuildAssumption, FS_Subset DEF Alive
  <2>2. Cardinality(Alive) \in Nat /\ Cardinality(Alive) < 1
    BY <1>1, <2>1, FS_CardinalityType DEF Call
  <2>3. Alive = {}
    BY <2>1, <2>2, FS_EmptySet
  <2> QED
    BY <1>1, <2>3, CallShape DEF Alone, Alive, OthersStay, IInv
<1>2. ASSUME NEW b \in Build, Step(b) \/ Crash(b)
      PROVE  Alone'
  <2>1. OthersStay(b) /\ pc[b] \notin Stopped
    <3>1. CASE Crash(b)
      BY <3>1, CrashShape DEF IInv
    <3>2. CASE Step(b)
      BY <3>2, StepShape, Running DEF IInv
    <3> QED
      BY <1>2, <3>1, <3>2
  <2> QED
    BY <2>1 DEF Alone, Alive, OthersStay
<1>3. CASE UNCHANGED pc
  BY <1>3 DEF Alone, Alive
<1> QED
  BY <1>1, <1>2, <1>3 DEF Next, Move, Damage, vars

\* What is written is compiled from what it names.
LEMMA WrittenCompiled ==
  ASSUME Reads, Faithful, NEW b \in Build, NEW m, Written(b, m)
  PROVE  Compiled(m, m.bin)
<1>1. CASE Relabel(b) /\ m = Mine(b)
  <2> DEFINE o == seen[b].cached
  <2>1. IsManifest(o) /\ Compiled(o, o.bin)
    BY <1>1 DEF Relabel, Reads, ReadBy, Faithful, MadeBy
  <2>2. m = [key |-> o.key, label |-> call[b].label, bin |-> o.bin]
    BY <1>1, <2>1, Relabelled DEF Mine
  <2> QED
    BY <2>1, <2>2 DEF Compiled
<1>2. CASE WriteManifest(b) /\ m = Manifest(b)
  <2>1. seen[b].bin.files = seen[b].records /\ seen[b].bin.head = seen[b].head
    BY <1>2 DEF WriteManifest, Faithful, MadeBy
  <2>2. m.key.records = seen[b].records /\ m.key.head = seen[b].head /\ m.bin = seen[b].bin
    BY <1>2 DEF Manifest, Key
  <2> QED
    BY <2>1, <2>2 DEF Compiled
<1> QED
  BY <1>1, <1>2 DEF Written

\* What a call has made holds after each step it makes alone.
LEMMA MadeNext ==
  ASSUME IInv, Faithful, NEW b \in Build, Step(b)
  PROVE  MadeBy(b)'
<1> USE DEF IInv
<1>0. IsInputs(seen[b]) /\ call' = call
  BY StepShape, Running
<1>1. ASSUME pc'[b] \notin {"use", "reuse", "bundle", "compile", "install", "write"}
      PROVE  MadeBy(b)'
  BY <1>1 DEF MadeBy
<1>2. CASE Raise(b)
  BY <1>1, <1>2, Going DEF Raise
<1>3. CASE ReadHead(b) \/ ReadDiff(b) \/ ReadUntracked(b) \/ ReadRecords(b)
  <2>1. pc'[b] \in {"diff", "others", "records", "hashes", "refused"}
    BY <1>3, Going DEF ReadHead, ReadDiff, ReadUntracked, ReadRecords
  <2> QED
    BY <1>1, <2>1
<1>4. CASE ReadHashes(b) \/ Resolve(b)
  <2>1. pc'[b] \in {"lookup", "raised"}
    BY <1>4, Going DEF ReadHashes, Resolve, Raise
  <2> QED
    BY <1>1, <2>1
<1>5. CASE Lookup(b)
  <2>1. CASE Hit(out, call[b].kind, seen[b])
    <3>1. See(b, "cached", out["manifest"]) /\ pc'[b] = "reuse"
      BY <1>5, <2>1, Going DEF Lookup
    <3>2. seen'[b].cached = out["manifest"]
      BY <1>0, <3>1, Reading
    <3>3. Compiled(out["manifest"], out["manifest"].bin)
      BY <2>1 DEF Hit, Accepts, Faithful
    <3> QED
      BY <3>1, <3>2, <3>3 DEF MadeBy, Compiled
  <2>2. CASE ~ Hit(out, call[b].kind, seen[b])
    BY <1>1, <1>5, <2>2, Going DEF Lookup
  <2> QED
    BY <2>1, <2>2
<1>6. CASE Relabel(b) \/ WriteManifest(b)
  <2>1. pc'[b] \in {"validate", "ended"}
    BY <1>6, Going DEF Relabel, WriteManifest, Return
  <2> QED
    BY <1>1, <2>1
<1>7. CASE Remove(b) \/ RemoveNothing(b) \/ Make(b)
  <2>1. pc'[b] \in {"remove", "make", "clone", "raised"}
    BY <1>7, Going DEF Remove, RemoveNothing, Make, Raise
  <2> QED
    BY <1>1, <2>1
<1>8. CASE Clone(b)
  <2>0. PICK new : new = WithCheckout(seen[b], Committed(seen[b].head),
                                       Committed(seen[b].head).tracked)
    OBVIOUS
  <2>1. new.records = Committed(seen[b].head) /\ new.head = seen[b].head
    BY <1>0, <2>0, ReadingCheckout
  <2>2. \/ Raise(b)
        \/ pc'[b] = "copy"
        \/ /\ seen'[b] = new /\ pc'[b] = "compile"
           /\ Put("source", [files |-> Committed(seen[b].head), head |-> seen[b].head])
    BY <1>8, <2>0, Going DEF Clone, WithCheckout
  <2>3. CASE /\ seen'[b] = new /\ pc'[b] = "compile"
             /\ Put("source", [files |-> Committed(seen[b].head), head |-> seen[b].head])
    BY <2>1, <2>3 DEF MadeBy, Put, OutTypes, Part
  <2> QED
    BY <1>1, <1>2, <2>2, <2>3
<1>9. CASE Copy(b)
  <2>1. \/ pc'[b] = "raised"
        \/ /\ Put("source", [files |-> Copied(seen[b]), head |-> seen[b].head])
           /\ Copied(seen[b]) = seen[b].records /\ seen' = seen /\ pc'[b] \in {"bundle", "compile"}
    BY <1>9, Going DEF Copy, Raise
  <2>2. CASE /\ Put("source", [files |-> Copied(seen[b]), head |-> seen[b].head])
             /\ Copied(seen[b]) = seen[b].records /\ seen' = seen /\ pc'[b] \in {"bundle", "compile"}
    BY <2>2 DEF MadeBy, Put, OutTypes, Part
  <2> QED
    BY <1>1, <2>1, <2>2
<1>10. CASE Bundle(b)
  <2>1. \/ Raise(b)
        \/ pc'[b] = "compile" /\ seen' = seen /\ out'["source"] = out["source"]
    BY <1>10, Going DEF Bundle, Put, OutTypes, Part
  <2>2. out["source"].files = seen[b].records /\ out["source"].head = seen[b].head
    BY <1>10 DEF Bundle, Faithful, MadeBy
  <2> QED
    BY <1>2, <2>1, <2>2 DEF MadeBy
<1>11. CASE Compile(b)
  <2>1. \/ Raise(b)
        \/ /\ Put("target", [files |-> out["source"].files, head |-> out["source"].head, tool |-> tool])
           /\ pc'[b] = "install" /\ seen' = seen
    BY <1>11, Going DEF Compile
  <2>2. out["source"].files = seen[b].records /\ out["source"].head = seen[b].head
    BY <1>11 DEF Compile, Faithful, MadeBy
  <2>3. CASE /\ Put("target", [files |-> out["source"].files, head |-> out["source"].head, tool |-> tool])
             /\ pc'[b] = "install" /\ seen' = seen
    BY <2>2, <2>3 DEF MadeBy, Put, OutTypes, Part
  <2> QED
    BY <1>2, <2>1, <2>3
<1>12. CASE Install(b)
  <2>1. pc'[b] = "raised" \/ (See(b, "bin", out["target"]) /\ pc'[b] = "write")
    BY <1>12, Going DEF Install, Raise
  <2>2. out["target"].files = seen[b].records /\ out["target"].head = seen[b].head
    BY <1>12 DEF Install, Faithful, MadeBy
  <2>3. CASE See(b, "bin", out["target"]) /\ pc'[b] = "write"
    <3>1. /\ seen'[b].bin = out["target"]
          /\ seen'[b].records = seen[b].records /\ seen'[b].head = seen[b].head
      BY <1>0, <2>3, Reading
    <3> QED
      BY <2>2, <2>3, <3>1 DEF MadeBy
  <2> QED
    BY <1>1, <2>1, <2>3
<1>13. CASE Find(b) \/ Use(b)
  <2>1. pc'[b] \in {"resolve", "validate", "ended", "raised"}
    BY <1>13, Going DEF Find, Use, Raise
  <2> QED
    BY <1>1, <2>1
<1>14. CASE Validate(b)
  <2>1. Raise(b) \/ (pc'[b] = "use" /\ out' = out /\ out["manifest"].key.head = Locked)
    BY <1>14, Going DEF Validate
  <2> QED
    BY <1>2, <2>1 DEF MadeBy
<1> QED
  BY <1>3, <1>4, <1>5, <1>6, <1>7, <1>8, <1>9, <1>10, <1>11, <1>12, <1>13, <1>14 DEF Step

LEMMA FaithfulNext ==
  ASSUME IInv, IInv', Alone, Alone', Faithful, [Next]_vars
  PROVE  Faithful'
<1> USE DEF IInv
<1>1. ASSUME NEW m, m = out'["manifest"], m \notin {NoFile, Torn}
      PROVE  Compiled(m, m.bin)
  BY <1>1, ManifestNext, WrittenCompiled DEF Faithful
<1>2. ASSUME NEW c \in Build, NEW m, m = answer'[c], m # None
      PROVE  Compiled(m, m.bin) /\ (call'[c].kind = "profile" => m.key.head = Locked)
  <2>1. CASE answer'[c] = answer[c]
    <3>1. call'[c] = call[c]
      <4>1. pc[c] = "ended"
        BY <1>2, <2>1 DEF CallTypes
      <4> QED
        BY <4>1, CallUnchanged, CallShape DEF OthersStay
    <3> QED
      BY <1>2, <2>1, <3>1 DEF Faithful
  <2>2. CASE answer'[c] # answer[c]
    <3>1. /\ call'[c] = call[c]
          /\ \/ Written(c, m) /\ call[c].kind # "profile"
             \/ Use(c) /\ Accepts(out) /\ m = out["manifest"] /\ call[c].kind = "profile"
      BY <1>2, <2>2, AnswerNext
    <3>2. Use(c) => out["manifest"].key.head = Locked
      BY DEF Use, Faithful, MadeBy
    <3> QED
      BY <3>1, <3>2, WrittenCompiled DEF Accepts, Faithful
  <2> QED
    BY <2>1, <2>2
<1>3. ASSUME NEW c \in Build, pc'[c] \in Stopped
      PROVE  MadeBy(c)'
  BY <1>3 DEF MadeBy, Stopped
<1>4. ASSUME NEW b \in Build, Call(b) \/ Step(b) \/ Crash(b), NEW c \in Build
      PROVE  MadeBy(c)'
  <2>1. CASE c = b /\ Step(b)
    BY <2>1, MadeNext
  <2>2. CASE c = b /\ Crash(b)
    BY <1>3, <2>2, CrashShape DEF Stopped
  <2>3. CASE c = b /\ Call(b)
    BY <2>3, CallShape DEF First, MadeBy
  <2>4. CASE c # b
    <3>1. pc'[c] = pc[c]
      BY <1>4, <2>4, CallShape, StepShape, CrashShape DEF OthersStay
    <3>2. pc[b] \notin Stopped \/ pc'[b] \notin Stopped
      BY <1>4, CallShape, Running, CrashShape DEF First, Stopped
    <3>3. pc'[c] \in Stopped
      BY <2>4, <3>1, <3>2 DEF Alone, Alive
    <3> QED
      BY <1>3, <3>3
  <2> QED
    BY <1>4, <2>1, <2>2, <2>3, <2>4
<1>5. ASSUME Damage, NEW c \in Build
      PROVE  MadeBy(c)'
  <2>1. pc'[c] \in Stopped
    BY <1>5 DEF Damage, Alive
  <2> QED
    BY <1>3, <2>1
<1>6. ASSUME Move \/ UNCHANGED vars, NEW c \in Build
      PROVE  MadeBy(c)'
  BY <1>6 DEF Move, vars, Faithful, MadeBy, Compiled
<1>7. \A c \in Build : MadeBy(c)'
  BY <1>4, <1>5, <1>6 DEF Next
<1> QED
  BY <1>1, <1>2, <1>7 DEF Faithful, Compiled

(* The inductive invariant of calls that run one at a time.                *)
THEOREM AloneInvariant ==
  ASSUME AtOnce = 1
  PROVE  Spec => [](IInv /\ SInv)
<1>1. Init => SInv
  BY DEF Init, SInv, Alone, Alive, Stopped, Faithful, MadeBy, Part
<1>2. IInv /\ IInv' /\ SInv /\ [Next]_vars => SInv'
  BY AloneNext, FaithfulNext DEF SInv
<1> QED
  BY Invariant, <1>1, <1>2, PTL DEF Spec

(* As long as calls do not overlap, whatever was edited, lost, damaged or  *)
(* interrupted: an artifact that verifies, and every one that was          *)
(* returned, has a binary made of the source and commit it names.          *)
THEOREM BinariesFaithful ==
  ASSUME AtOnce = 1
  PROVE  Spec => []BinaryOfItsSource
<1>1. IInv /\ SInv => BinaryOfItsSource
  BY DEF IInv, SInv, Faithful, BinaryOfItsSource, VerifiedCompiled, Accepts
<1> QED
  BY AloneInvariant, <1>1, PTL

(* And then the locks let through the locked release and nothing else: a   *)
(* profile run compares compilers of the locked commit, and the release    *)
(* lock takes what was built of it with the toolchain of the lock.         *)
THEOREM LocksHold ==
  ASSUME AtOnce = 1
  PROVE  Spec => []ReleasesLocked
<1>1. ASSUME IInv, SInv, NEW b \in Build, answer[b] # None
      PROVE  /\ call[b].kind = "profile" =>
                  \/ \E c \in Build : call[c] # None /\ call[c].kind = "local"
                  \/ /\ answer[b].bin.files = Committed(Locked)
                     /\ answer[b].bin.head = Locked
             /\ Accepts(out) /\ out["manifest"] = answer[b] =>
                  (LockAccepts(out) <=>
                     /\ answer[b].key.kind = "release"
                     /\ answer[b].bin.head = Locked /\ answer[b].bin.tool = 1)
  <2>1. /\ KeyHolds(answer[b]) /\ Compiled(answer[b], answer[b].bin) /\ IsBinary(answer[b].bin)
        /\ call[b].kind = "profile" => answer[b].key.head = Locked
    BY <1>1 DEF IInv, SInv, Keys, Faithful, CallTypes, IsManifest
  <2>2. ASSUME call[b].kind = "profile", ~ LocalCalled
        PROVE  /\ answer[b].bin.files = Committed(Locked)
               /\ answer[b].bin.head = Locked
    BY <2>1, <2>2 DEF KeyHolds, Compiled
  <2>3. ASSUME Accepts(out), out["manifest"] = answer[b], LockAccepts(out)
        PROVE  /\ answer[b].key.kind = "release"
               /\ answer[b].bin.head = Locked /\ answer[b].bin.tool = 1
    BY <2>3 DEF Accepts, LockAccepts
  <2>4. ASSUME Accepts(out), out["manifest"] = answer[b], answer[b].key.kind = "release",
               answer[b].bin.head = Locked, answer[b].bin.tool = 1
        PROVE  LockAccepts(out)
    <3>1. answer[b].key.records = Committed(answer[b].key.head)
      BY <2>1, <2>4 DEF KeyHolds
    <3>2. answer[b].key.head = Locked /\ answer[b].bin.files = Committed(Locked)
      BY <2>1, <2>4, <3>1 DEF Compiled
    <3>3. answer[b].key.tool = 1
      BY <2>1, <2>4 DEF KeyHolds
    <3>4. out["bin"] = [files |-> Committed(Locked), head |-> Locked, tool |-> 1]
      BY <2>1, <2>4, <3>2 DEF Accepts, IsBinary
    <3> QED
      BY <2>4, <3>1, <3>2, <3>3, <3>4 DEF LockAccepts
  <2> QED
    BY <2>2, <2>3, <2>4 DEF LocalCalled
<1>2. IInv /\ SInv => ReleasesLocked
  BY <1>1 DEF ReleasesLocked
<1> QED
  BY AloneInvariant, <1>2, PTL
=============================================================================
