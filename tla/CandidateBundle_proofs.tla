----------------------- MODULE CandidateBundle_proofs -----------------------
(***************************************************************************)
(* Safety of CandidateBundle for any tasks, pairs and verdicts and any     *)
(* number of calls, losses and deaths, however the tasks of each call end: *)
(* what a bundle that verifies is made of, what strict lets pass, and what *)
(* a signed archive vouches for.                                           *)
(***************************************************************************)
EXTENDS CandidateBundle, FiniteSetTheorems, FunctionTheorems, TLAPS

\* The place of a step in the order of the writes.
Rank == [plan |-> 1, obtain |-> 2, sources |-> 3, results |-> 4, lineage |-> 5,
         links |-> 6, tasks |-> 7, classes |-> 8, decisions |-> 9, environment |-> 10,
         manifest |-> 11, attestation |-> 12, checksums |-> 13, verify |-> 14, judge |-> 15]
Past(g, n) == pc[g] \in DOMAIN Rank /\ Rank[pc[g]] > n
Place == Stopped \cup DOMAIN Rank \cup {"check", "open"}

\* The variables, and what a call holds.
Types ==
  /\ clean \in BOOLEAN /\ exists \in BOOLEAN /\ damage \in 0 .. MaxDamage
  /\ verdict \in Seq(Verdict)
  /\ store \in [Changed -> 0 .. Len(verdict)]
  /\ work \subseteq 1 .. Len(verdict)
  /\ dir = [f \in Required |-> dir[f]]
CallTypes ==
  /\ pc \in [Gate -> Place]
  /\ call = [g \in Gate |-> call[g]] /\ got = [g \in Gate |-> got[g]]
  /\ seen = [g \in Gate |-> seen[g]] /\ answer = [g \in Gate |-> answer[g]]
  /\ \A g \in Gate :
       /\ IF pc[g] = "idle" THEN call[g] = None ELSE call[g] \in MayCall
       /\ pc[g] = "ended" <=> answer[g] # None
Holding ==
  \A g \in Gate :
    /\ IF pc[g] = "idle" THEN DOMAIN got[g] = {} ELSE DOMAIN got[g] \subseteq ObligedOf(g)
    /\ \A p \in DOMAIN got[g] : got[g][p].run \in 1 .. Len(verdict)
    /\ Past(g, 2) => Complete(g)
    /\ answer[g] # None => Complete(g) /\ answer[g].decisions = DecisionsOf(g)

\* A call attests the manifest it has just made.
Making ==
  \A g \in Gate : pc[g] = "attestation" => seen[g].content.manifest.policy = call[g].policy

\* The files that tell the calls apart, all of one call.
Own(files, g) ==
  /\ Complete(g) /\ files["lineage"] = [rows |-> got[g]] /\ files["tasks"] = [rows |-> Tasks(g)]
  /\ files["environment"] = [captured |-> g]

\* What a file says, when it is whole, is what a call wrote; a manifest and an
\* attestation speak of the files of that very call when calls do not overlap.
LineageSays(x) == x \notin {NoFile, Torn} => \E g \in Gate : Complete(g) /\ x = [rows |-> got[g]]
TasksSay(x) == x \notin {NoFile, Torn} => \E g \in Gate : Complete(g) /\ x = [rows |-> Tasks(g)]
ManifestSays(x) ==
  x \notin {NoFile, Torn} =>
    \E g \in Gate :
      /\ pc[g] # "idle" /\ x.inputs.policy = call[g].policy
      /\ AtOnce = 1 => Own(x.content.files, g)
AttestationSays(x) ==
  x \notin {NoFile, Torn} =>
    \E g \in Gate :
      /\ pc[g] # "idle" /\ x.trusted = call[g].trusted
      /\ x.parent.manifest.policy = call[g].policy
      /\ AtOnce = 1 => Own(x.parent.files, g)
Files(d) ==
  /\ LineageSays(d["lineage"]) /\ TasksSay(d["tasks"])
  /\ ManifestSays(d["manifest"]) /\ AttestationSays(d["attestation"])

IInv ==
  /\ Types /\ CallTypes /\ Holding /\ Making
  /\ Files(dir) /\ (archive # None => Files(archive.dir))

\* Calls that run one at a time: each file so far is as the call writes it,
\* but for the sources, where those of other obligations stay.
Alone == \A g, h \in Alive : g = h
HasSources(g) ==
  /\ dir["sources"] \notin {NoFile, Torn}
  /\ \A p \in DOMAIN got[g] : /\ p \in DOMAIN dir["sources"].runs
                              /\ dir["sources"].runs[p] = got[g][p].run
Untouched(g) ==
  /\ \A f \in Required \ {"sources"} : Past(g, Rank[f]) => dir[f] = Written(g, f)
  /\ Past(g, 3) => HasSources(g)
  /\ Past(g, 11) => seen[g] = dir["manifest"]
LInv ==
  AtOnce = 1 => Alone /\ (\A g \in Gate : Untouched(g)) /\ RaisesExcused
-----------------------------------------------------------------------------
(* The order of the writes *)

LEMMA Places ==
  /\ DOMAIN Writes = 1 .. 14
  /\ Writes[1] = "plan" /\ Writes[2] = "obtain" /\ Writes[3] = "sources"
  /\ Writes[4] = "results" /\ Writes[5] = "lineage" /\ Writes[6] = "links"
  /\ Writes[7] = "tasks" /\ Writes[8] = "classes" /\ Writes[9] = "decisions"
  /\ Writes[10] = "environment" /\ Writes[11] = "manifest" /\ Writes[12] = "attestation"
  /\ Writes[13] = "checksums" /\ Writes[14] = "verify"
BY DEF Writes

LEMMA RequiredIs ==
  /\ Required = {"plan", "sources", "results", "lineage", "links", "tasks", "classes",
                 "decisions", "environment", "manifest", "attestation", "checksums"}
  /\ Described = {"plan", "sources", "results", "lineage", "links", "tasks", "classes",
                  "decisions", "environment"}
<1>1. \A i \in 1 .. 14 : i \in {1, 2, 3, 4, 5, 6, 7, 8, 9, 10, 11, 12, 13, 14}
  OBVIOUS
<1>2. {Writes[i] : i \in 1 .. 14} = {"plan", "obtain", "sources", "results", "lineage", "links",
        "tasks", "classes", "decisions", "environment", "manifest", "attestation", "checksums",
        "verify"}
  BY <1>1, Places
<1>3. {Writes[i] : i \in DOMAIN Writes} = {Writes[i] : i \in 1 .. 14}
  BY Places
<1> QED
  BY <1>2, <1>3 DEF Required, Described

\* What comes after a step is found at its place.
LEMMA PlaceIs ==
  ASSUME NEW k \in 1 .. 14, NEW s, Writes[k] = s, \A i \in 1 .. 14 : Writes[i] = s => i = k
  PROVE  After(s) = Writes[1 + k]
<1>1. (CHOOSE i \in DOMAIN Writes : Writes[i] = s) = k
  BY Places
<1> QED
  BY <1>1 DEF After

LEMMA AfterIs ==
  /\ After("plan") = "obtain" /\ After("obtain") = "sources" /\ After("sources") = "results"
  /\ After("results") = "lineage" /\ After("lineage") = "links" /\ After("links") = "tasks"
  /\ After("tasks") = "classes" /\ After("classes") = "decisions"
  /\ After("decisions") = "environment" /\ After("environment") = "manifest"
  /\ After("manifest") = "attestation" /\ After("attestation") = "checksums"
  /\ After("checksums") = "verify"
<1>1. \A i \in 1 .. 14 : i \in {1, 2, 3, 4, 5, 6, 7, 8, 9, 10, 11, 12, 13, 14}
  OBVIOUS
<1> DEFINE Only(k, s) == Writes[k] = s /\ \A i \in 1 .. 14 : Writes[i] = s => i = k
<1>2. /\ Only(1, "plan") /\ Only(2, "obtain") /\ Only(3, "sources") /\ Only(4, "results")
      /\ Only(5, "lineage") /\ Only(6, "links") /\ Only(7, "tasks")
  BY <1>1, Places
<1>3. /\ Only(8, "classes") /\ Only(9, "decisions") /\ Only(10, "environment")
      /\ Only(11, "manifest") /\ Only(12, "attestation") /\ Only(13, "checksums")
  BY <1>1, Places
<1>4. \A k \in 1 .. 13 : \A s : Only(k, s) => After(s) = Writes[1 + k]
  BY PlaceIs
<1> HIDE DEF Only
<1>5. /\ After("plan") = Writes[1 + 1] /\ After("obtain") = Writes[1 + 2]
      /\ After("sources") = Writes[1 + 3] /\ After("results") = Writes[1 + 4]
      /\ After("lineage") = Writes[1 + 5] /\ After("links") = Writes[1 + 6]
      /\ After("tasks") = Writes[1 + 7] /\ After("classes") = Writes[1 + 8]
      /\ After("decisions") = Writes[1 + 9] /\ After("environment") = Writes[1 + 10]
      /\ After("manifest") = Writes[1 + 11] /\ After("attestation") = Writes[1 + 12]
      /\ After("checksums") = Writes[1 + 13]
  BY <1>2, <1>3, <1>4
<1> QED
  BY <1>5, Places

\* A write leads to the next place.
LEMMA Ranks ==
  /\ DOMAIN Rank = Required \cup {"obtain", "verify", "judge"}
  /\ \A f \in Required :
       /\ After(f) \in DOMAIN Rank /\ Rank[f] \in 1 .. 13 /\ Rank[f] # 2
       /\ Rank[After(f)] = Rank[f] + 1
  /\ \A f, h \in Required : Rank[f] = Rank[h] => f = h
  /\ DOMAIN Rank \cap Stopped = {}
  /\ Rank["obtain"] = 2 /\ Rank["verify"] = 14 /\ Rank["judge"] = 15
<1>1. DOMAIN Rank = Required \cup {"obtain", "verify", "judge"}
  BY RequiredIs DEF Rank
<1>2. \A f \in Required : After(f) \in DOMAIN Rank /\ Rank[f] \in 1 .. 13 /\ Rank[f] # 2
  BY RequiredIs, AfterIs DEF Rank
<1>3. \A f \in Required : Rank[After(f)] = Rank[f] + 1
  BY RequiredIs, AfterIs DEF Rank
<1>4. \A f, h \in Required : Rank[f] = Rank[h] => f = h
  BY RequiredIs DEF Rank
<1>5. DOMAIN Rank \cap Stopped = {}
  BY DEF Rank, Stopped
<1>6. Rank["obtain"] = 2 /\ Rank["verify"] = 14 /\ Rank["judge"] = 15
  BY DEF Rank
<1> QED
  BY <1>1, <1>2, <1>3, <1>4, <1>5, <1>6

LEMMA RankOf ==
  /\ Rank["plan"] = 1 /\ Rank["sources"] = 3 /\ Rank["results"] = 4 /\ Rank["lineage"] = 5
  /\ Rank["links"] = 6 /\ Rank["tasks"] = 7 /\ Rank["classes"] = 8 /\ Rank["decisions"] = 9
  /\ Rank["environment"] = 10 /\ Rank["manifest"] = 11 /\ Rank["attestation"] = 12
  /\ Rank["checksums"] = 13
BY DEF Rank
-----------------------------------------------------------------------------
(* What is written *)

LEMMA WrittenIs ==
  ASSUME NEW g
  PROVE  /\ Written(g, "plan") = Plan(g) /\ Written(g, "sources") = [runs |-> Sources(g)]
         /\ Written(g, "results") = [rows |-> got[g]] /\ Written(g, "lineage") = [rows |-> got[g]]
         /\ Written(g, "links") =
              [rows |-> [h \in Linked(call[g].outcome) |-> Evidence(g, {PairOf[h]})]]
         /\ Written(g, "tasks") = [rows |-> Tasks(g)]
         /\ Written(g, "classes") = [rows |-> Classes(g)]
         /\ Written(g, "decisions") = DecisionsOf(g)
         /\ Written(g, "environment") = [captured |-> g]
         /\ Written(g, "manifest") = Manifest(g)
         /\ Written(g, "attestation") = Attestation(g)
         /\ Written(g, "checksums") = Sums(dir, work)
<1>1. /\ Written(g, "plan") = Plan(g) /\ Written(g, "sources") = [runs |-> Sources(g)]
      /\ Written(g, "results") = [rows |-> got[g]] /\ Written(g, "lineage") = [rows |-> got[g]]
  BY DEF Written
<1>2. /\ Written(g, "links") =
           [rows |-> [h \in Linked(call[g].outcome) |-> Evidence(g, {PairOf[h]})]]
      /\ Written(g, "tasks") = [rows |-> Tasks(g)]
      /\ Written(g, "classes") = [rows |-> Classes(g)]
  BY DEF Written
<1>3. /\ Written(g, "decisions") = DecisionsOf(g)
      /\ Written(g, "environment") = [captured |-> g]
      /\ Written(g, "manifest") = Manifest(g)
  BY DEF Written
<1>4. Written(g, "attestation") = Attestation(g) /\ Written(g, "checksums") = Sums(dir, work)
  BY DEF Written
<1> QED
  BY <1>1, <1>2, <1>3, <1>4

\* The absent, the torn and the written are told apart.
LEMMA Marks ==
  /\ NoFile # Torn /\ NoFile # None /\ Torn # None
  /\ \A x, y, z : [pairs |-> x, obliged |-> y, links |-> z] \notin {NoFile, Torn}
  /\ \A x : [runs |-> x] \notin {NoFile, Torn} /\ [rows |-> x] \notin {NoFile, Torn}
  /\ \A x : [captured |-> x] \notin {NoFile, Torn}
  /\ \A x, y, z, c : Decisions(x, y, z, c) \notin {NoFile, Torn}
  /\ \A x, y : [inputs |-> x, content |-> y] \notin {NoFile, Torn}
  /\ \A x, y : [trusted |-> x, parent |-> y] \notin {NoFile, Torn}
  /\ \A x, y : [files |-> x, work |-> y] \notin {NoFile, Torn}
  /\ \A x, y : [decisions |-> x, id |-> y] # None
  /\ \A x, y : [dir |-> x, work |-> y] # None
<1>1. NoFile # Torn /\ NoFile # None /\ Torn # None
  BY DEF NoFile, Torn, None
<1>2. \A x, y, z : [pairs |-> x, obliged |-> y, links |-> z] \notin {NoFile, Torn}
  BY DEF NoFile, Torn
<1>3. \A x : [runs |-> x] \notin {NoFile, Torn} /\ [rows |-> x] \notin {NoFile, Torn}
  BY DEF NoFile, Torn
<1>4. \A x : [captured |-> x] \notin {NoFile, Torn}
  BY DEF NoFile, Torn
<1>5. \A x, y, z, c : Decisions(x, y, z, c) \notin {NoFile, Torn}
  BY DEF NoFile, Torn, Decisions
<1>6. \A x, y : [inputs |-> x, content |-> y] \notin {NoFile, Torn}
  BY DEF NoFile, Torn
<1>7. \A x, y : [trusted |-> x, parent |-> y] \notin {NoFile, Torn}
  BY DEF NoFile, Torn
<1>8. \A x, y : [files |-> x, work |-> y] \notin {NoFile, Torn}
  BY DEF NoFile, Torn
<1>9. \A x, y : [decisions |-> x, id |-> y] # None
  BY DEF None
<1>10. \A x, y : [dir |-> x, work |-> y] # None
  BY DEF None
<1> QED
  BY <1>1, <1>2, <1>3, <1>4, <1>5, <1>6, <1>7, <1>8, <1>9, <1>10

LEMMA WrittenWhole ==
  ASSUME NEW g, NEW f \in Required
  PROVE  Written(g, f) \notin {NoFile, Torn}
<1>1. Plan(g) \notin {NoFile, Torn}
  BY Marks DEF Plan
<1>2. DecisionsOf(g) \notin {NoFile, Torn}
  BY Marks DEF DecisionsOf
<1>3. Manifest(g) \notin {NoFile, Torn}
  BY Marks DEF Manifest
<1>4. Attestation(g) \notin {NoFile, Torn}
  BY Marks DEF Attestation
<1>5. Sums(dir, work) \notin {NoFile, Torn}
  BY Marks DEF Sums
<1>6. /\ Written(g, "plan") \notin {NoFile, Torn} /\ Written(g, "sources") \notin {NoFile, Torn}
      /\ Written(g, "results") \notin {NoFile, Torn} /\ Written(g, "lineage") \notin {NoFile, Torn}
  BY <1>1, WrittenIs, Marks
<1>7. /\ Written(g, "links") \notin {NoFile, Torn} /\ Written(g, "tasks") \notin {NoFile, Torn}
      /\ Written(g, "classes") \notin {NoFile, Torn}
      /\ Written(g, "environment") \notin {NoFile, Torn}
  BY WrittenIs, Marks
<1>8. /\ Written(g, "decisions") \notin {NoFile, Torn}
      /\ Written(g, "manifest") \notin {NoFile, Torn}
      /\ Written(g, "attestation") \notin {NoFile, Torn}
      /\ Written(g, "checksums") \notin {NoFile, Torn}
  BY <1>2, <1>3, <1>4, <1>5, WrittenIs
<1> QED
  BY <1>6, <1>7, <1>8, RequiredIs

\* What the manifest of a call says.
LEMMA ManifestIs ==
  ASSUME NEW g
  PROVE  /\ Manifest(g).inputs =
              [policy |-> call[g].policy, clean |-> clean, counts |-> CountsOf(g)]
         /\ Manifest(g).content = Content(Manifest(g).inputs, dir, work)
         /\ Manifest(g).content.manifest = Manifest(g).inputs
         /\ \A f \in Described : Manifest(g).content.files[f] = dir[f]
<1>1. Manifest(g).inputs = [policy |-> call[g].policy, clean |-> clean, counts |-> CountsOf(g)]
  BY DEF Manifest
<1>2. Manifest(g).content = Content(Manifest(g).inputs, dir, work)
  BY DEF Manifest
<1>3. \A x : /\ Content(x, dir, work).manifest = x
             /\ \A f \in Described : Content(x, dir, work).files[f] = dir[f]
  BY DEF Content
<1> QED
  BY <1>1, <1>2, <1>3
-----------------------------------------------------------------------------
(* What a step leaves alone *)

LEMMA Fixed ==
  ASSUME [Next]_vars
  PROVE  clean' = clean
<1>1. ASSUME NEW g \in Gate, Call(g) \/ Crash(g) \/ Pack(g)
      PROVE  clean' = clean
  BY <1>1 DEF Call, Crash, Pack
<1>2. ASSUME NEW g \in Gate, Step(g)
      PROVE  clean' = clean
  BY <1>2 DEF Step, Check, Open, Obtained, Write, Verify, Judge, Reuse, Execute
<1> QED
  BY <1>1, <1>2 DEF Next, Damage, vars

\* Only a solver run changes the store while a call is running, and the runs.
LEMMA RunsNext ==
  ASSUME [Next]_vars
  PROVE  \/ UNCHANGED <<store, verdict, work>>
         \/ \E g \in Gate, p \in Pair : Execute(g, p)
         \/ Damage
<1>1. ASSUME NEW g \in Gate, Call(g) \/ Crash(g) \/ Pack(g)
      PROVE  UNCHANGED <<store, verdict, work>>
  BY <1>1 DEF Call, Crash, Pack
<1>2. ASSUME NEW g \in Gate, Step(g)
      PROVE  UNCHANGED <<store, verdict, work>> \/ \E p \in Pair : Execute(g, p)
  BY <1>2 DEF Step, Check, Open, Obtained, Write, Verify, Judge, Reuse
<1> QED
  BY <1>1, <1>2 DEF Next, vars

\* A solver run adds one verdict, and its work.
LEMMA Executed ==
  ASSUME Types, NEW g \in Gate, NEW p, Execute(g, p)
  PROVE  /\ p \in Changed /\ store[p] = 0 /\ Len(verdict') = Len(verdict) + 1
         /\ verdict' \in Seq(Verdict)
         /\ \A n \in 1 .. Len(verdict) : verdict'[n] = verdict[n]
         /\ store' = [store EXCEPT ![p] = Len(verdict) + 1]
         /\ \A n \in work' : n \in work \/ n = Len(verdict) + 1
<1>1. PICK v \in Verdict : verdict' = Append(verdict, v)
  BY DEF Execute
<1>2. p \in Changed
  BY DEF Execute, ObligedOf, Obliged
<1>3. store[p] = 0 /\ store' = [store EXCEPT ![p] = Len(verdict) + 1]
      /\ \A n \in work' : n \in work \/ n = Len(verdict) + 1
  BY DEF Execute
<1>4. /\ Len(verdict') = Len(verdict) + 1 /\ verdict' \in Seq(Verdict)
      /\ \A n \in 1 .. Len(verdict) : verdict'[n] = verdict[n]
  BY <1>1 DEF Types
<1> QED
  BY <1>2, <1>3, <1>4

LEMMA VerdictsStay ==
  ASSUME Types, [Next]_vars
  PROVE  /\ Len(verdict) \in Nat /\ Len(verdict') \in Nat /\ Len(verdict) <= Len(verdict')
         /\ \A n \in 1 .. Len(verdict) : verdict'[n] = verdict[n]
<1>1. Len(verdict) \in Nat
  BY DEF Types
<1>2. CASE UNCHANGED verdict
  BY <1>1, <1>2
<1>3. ASSUME NEW g \in Gate, NEW p \in Pair, Execute(g, p)
      PROVE  /\ Len(verdict') \in Nat /\ Len(verdict) <= Len(verdict')
             /\ \A n \in 1 .. Len(verdict) : verdict'[n] = verdict[n]
  BY <1>1, <1>3, Executed
<1> QED
  BY <1>1, <1>2, <1>3, RunsNext DEF Damage

\* A step of one call is no step of another.
OthersStay(g) ==
  \A h \in Gate \ {g} : /\ pc'[h] = pc[h] /\ call'[h] = call[h] /\ got'[h] = got[h]
                         /\ seen'[h] = seen[h] /\ answer'[h] = answer[h]
\* The variables of the calls stay functions on them.
StillCalls ==
  /\ pc' = [h \in Gate |-> pc'[h]] /\ call' = [h \in Gate |-> call'[h]]
  /\ got' = [h \in Gate |-> got'[h]] /\ seen' = [h \in Gate |-> seen'[h]]
  /\ answer' = [h \in Gate |-> answer'[h]]
LEMMA Moving ==
  ASSUME CallTypes, NEW g \in Gate,
         UNCHANGED pc \/ \E s : To(g, s),
         UNCHANGED call \/ \E x : call' = [call EXCEPT ![g] = x],
         UNCHANGED got \/ \E x : got' = [got EXCEPT ![g] = x],
         UNCHANGED seen \/ \E x : seen' = [seen EXCEPT ![g] = x],
         UNCHANGED answer \/ \E x : answer' = [answer EXCEPT ![g] = x]
  PROVE  OthersStay(g) /\ StillCalls
<1>1. pc' = [h \in Gate |-> pc'[h]] /\ \A h \in Gate \ {g} : pc'[h] = pc[h]
  BY DEF CallTypes, To
<1>2. call' = [h \in Gate |-> call'[h]] /\ \A h \in Gate \ {g} : call'[h] = call[h]
  BY DEF CallTypes
<1>3. got' = [h \in Gate |-> got'[h]] /\ \A h \in Gate \ {g} : got'[h] = got[h]
  BY DEF CallTypes
<1>4. seen' = [h \in Gate |-> seen'[h]] /\ \A h \in Gate \ {g} : seen'[h] = seen[h]
  BY DEF CallTypes
<1>5. answer' = [h \in Gate |-> answer'[h]] /\ \A h \in Gate \ {g} : answer'[h] = answer[h]
  BY DEF CallTypes
<1> QED
  BY <1>1, <1>2, <1>3, <1>4, <1>5 DEF OthersStay, StillCalls

LEMMA Acting ==
  ASSUME CallTypes, NEW g \in Gate, Call(g) \/ Step(g) \/ Crash(g)
  PROVE  OthersStay(g) /\ StillCalls
<1>1. CASE Call(g)
  BY <1>1, Moving DEF Call
<1>2. CASE Crash(g)
  BY <1>2, Moving DEF Crash, gateVars
<1>3. CASE Check(g) \/ Open(g) \/ Obtained(g)
  BY <1>3, Moving DEF Check, Open, Obtained, gateVars
<1>4. CASE Verify(g) \/ Judge(g)
  BY <1>4, Moving DEF Verify, Judge
<1>5. ASSUME NEW p \in Pair, Reuse(g, p) \/ Execute(g, p)
      PROVE  OthersStay(g) /\ StillCalls
  <2>1. \E x : got' = [got EXCEPT ![g] = x]
    BY <1>5 DEF Reuse, Execute, Hold
  <2>2. UNCHANGED <<pc, call, seen, answer>>
    BY <1>5 DEF Reuse, Execute
  <2> QED
    BY <2>1, <2>2, Moving
<1>6. CASE Write(g)
  BY <1>6, Moving DEF Write
<1> QED
  BY <1>1, <1>2, <1>3, <1>4, <1>5, <1>6 DEF Step

\* Where a step of a call leads, and what it leaves as it was.
LEMMA Moves ==
  ASSUME CallTypes, NEW g \in Gate, Call(g) \/ Step(g) \/ Crash(g)
  PROVE  /\ pc'[g] \in Place /\ pc'[g] # "idle" /\ call'[g] \in MayCall
         /\ pc'[g] = "ended" <=> answer'[g] # None
         /\ pc[g] # "idle" => call'[g] = call[g]
<1>1. CASE Call(g)
  <2>1. pc[g] = "idle" /\ pc'[g] = "check" /\ answer' = answer
    BY <1>1 DEF Call, To, CallTypes
  <2>2. call'[g] \in MayCall
    BY <1>1 DEF Call, CallTypes
  <2> QED
    BY <2>1, <2>2 DEF CallTypes, Place
<1>2. CASE Crash(g)
  <2>1. pc[g] \notin Stopped /\ pc'[g] = "dead" /\ UNCHANGED <<call, answer>>
    BY <1>2 DEF Crash, Alive, To, CallTypes, gateVars
  <2> QED
    BY <2>1 DEF CallTypes, Stopped, Place
<1>3. CASE Check(g) \/ Open(g) \/ Obtained(g) \/ Write(g)
  <2>1. pc[g] \notin Stopped /\ UNCHANGED <<call, answer>>
    BY <1>3, Ranks DEF Check, Open, Obtained, Write, gateVars, Stopped
  <2>2. pc'[g] \in Place \ {"idle", "ended"}
    <3>1. CASE Check(g)
      BY <3>1 DEF Check, To, CallTypes, Stopped, Place
    <3>2. CASE Open(g)
      <4>1. pc'[g] \in DOMAIN Rank
        BY <3>2, Places, Ranks, RequiredIs DEF Open, To, CallTypes
      <4> QED
        BY <4>1, Ranks DEF Stopped, Place
    <3>3. CASE Obtained(g)
      <4>1. pc'[g] \in DOMAIN Rank
        BY <3>3, AfterIs, Ranks, RequiredIs DEF Obtained, To, CallTypes
      <4> QED
        BY <4>1, Ranks DEF Stopped, Place
    <3>4. CASE Write(g)
      <4>1. pc'[g] \in DOMAIN Rank
        BY <3>4, Ranks DEF Write, To, CallTypes
      <4> QED
        BY <4>1, Ranks DEF Stopped, Place
    <3> QED
      BY <1>3, <3>1, <3>2, <3>3, <3>4
  <2> QED
    BY <2>1, <2>2 DEF CallTypes, Stopped
<1>4. CASE Verify(g) \/ Judge(g)
  <2>1. pc[g] \notin Stopped /\ call' = call
    BY <1>4 DEF Verify, Judge, Stopped
  <2>2. \/ pc'[g] \in {"judge", "raised"} /\ answer' = answer
        \/ pc'[g] = "ended" /\ answer'[g] # None
    BY <1>4, Marks DEF Verify, Judge, To, CallTypes
  <2>3. pc'[g] \in Place /\ pc'[g] # "idle"
    BY <2>2, Ranks DEF Stopped, Place
  <2> QED
    BY <2>1, <2>2, <2>3 DEF CallTypes, Stopped
<1>5. ASSUME NEW p \in Pair, Reuse(g, p) \/ Execute(g, p)
      PROVE  /\ pc'[g] \in Place /\ pc'[g] # "idle" /\ call'[g] \in MayCall
             /\ pc'[g] = "ended" <=> answer'[g] # None
             /\ pc[g] # "idle" => call'[g] = call[g]
  <2>1. pc[g] = "obtain" /\ UNCHANGED <<pc, call, answer>>
    BY <1>5 DEF Reuse, Execute
  <2> QED
    BY <2>1 DEF CallTypes
<1> QED
  BY <1>1, <1>2, <1>3, <1>4, <1>5 DEF Step

\* A call that was made is not made again.
LEMMA CallStays ==
  ASSUME CallTypes, [Next]_vars, NEW g \in Gate, pc[g] # "idle"
  PROVE  pc'[g] # "idle" /\ call'[g] = call[g]
<1>1. ASSUME NEW h \in Gate, Call(h) \/ Step(h) \/ Crash(h)
      PROVE  pc'[g] # "idle" /\ call'[g] = call[g]
  <2>1. CASE h = g
    BY <1>1, <2>1, Moves
  <2>2. CASE h # g
    BY <1>1, <2>2, Acting DEF OthersStay
  <2> QED
    BY <2>1, <2>2
<1>2. ASSUME NEW h \in Gate, Pack(h)
      PROVE  UNCHANGED <<pc, call>>
  BY <1>2 DEF Pack, gateVars
<1> QED
  BY <1>1, <1>2 DEF Next, Damage, vars, gateVars

\* Who is idle after a step was so before it.
LEMMA IdleBefore ==
  ASSUME CallTypes, [Next]_vars, NEW g \in Gate, pc'[g] = "idle"
  PROVE  pc[g] = "idle"
BY CallStays
-----------------------------------------------------------------------------
(* The variables, and what a call holds *)

LEMMA TypesNext ==
  ASSUME Types, [Next]_vars
  PROVE  Types'
<1>1. clean' \in BOOLEAN
  BY Fixed DEF Types
<1>2. exists' \in BOOLEAN /\ damage' \in 0 .. MaxDamage
  <2>1. ASSUME NEW g \in Gate, Call(g) \/ Crash(g) \/ Pack(g)
        PROVE  exists' = exists /\ damage' = damage
    BY <2>1 DEF Call, Crash, Pack
  <2>2. ASSUME NEW g \in Gate, Step(g)
        PROVE  exists' \in {exists, TRUE} /\ damage' = damage
    BY <2>2 DEF Step, Check, Open, Obtained, Write, Verify, Judge, Reuse, Execute
  <2>3. CASE Damage
    BY <2>3, BoundsAssumption DEF Damage, Types
  <2>4. CASE UNCHANGED vars
    BY <2>4 DEF vars, Types
  <2> QED
    BY <2>1, <2>2, <2>3, <2>4 DEF Next, Types
<1>3. verdict' \in Seq(Verdict) /\ store' \in [Changed -> 0 .. Len(verdict')]
      /\ work' \subseteq 1 .. Len(verdict')
  <2>1. CASE UNCHANGED <<store, verdict, work>>
    BY <2>1 DEF Types
  <2>2. ASSUME NEW g \in Gate, NEW p \in Pair, Execute(g, p)
        PROVE  verdict' \in Seq(Verdict) /\ store' \in [Changed -> 0 .. Len(verdict')]
               /\ work' \subseteq 1 .. Len(verdict')
    <3>0. Len(verdict) \in Nat
      BY DEF Types
    <3>1. verdict' \in Seq(Verdict) /\ Len(verdict') = Len(verdict) + 1
      BY <2>2, Executed
    <3>2. store' = [store EXCEPT ![p] = Len(verdict) + 1]
      BY <2>2, Executed
    <3>5. \A n \in work' : n \in work \/ n = Len(verdict) + 1
      BY <2>2, Executed
    <3>3. store' \in [Changed -> 0 .. Len(verdict')]
      <4>1. store \in [Changed -> 0 .. Len(verdict')]
        BY <3>0, <3>1 DEF Types
      <4>2. Len(verdict) + 1 \in 0 .. Len(verdict')
        BY <3>0, <3>1
      <4> QED
        BY <3>2, <4>1, <4>2
    <3>4. work' \subseteq 1 .. Len(verdict')
      BY <3>0, <3>1, <3>5 DEF Types
    <3> QED
      BY <3>1, <3>3, <3>4
  <2>3. CASE Damage
    BY <2>3 DEF Damage, Types
  <2> QED
    BY <2>1, <2>2, <2>3, RunsNext
<1>4. dir' = [f \in Required |-> dir'[f]]
  <2>1. dir' = dir \/ \E f, x : dir' = [dir EXCEPT ![f] = x]
    <3>1. ASSUME NEW g \in Gate, Call(g) \/ Crash(g) \/ Pack(g)
          PROVE  dir' = dir \/ \E f, x : dir' = [dir EXCEPT ![f] = x]
      BY <3>1 DEF Call, Crash, Pack
    <3>2. ASSUME NEW g \in Gate, Step(g)
          PROVE  dir' = dir \/ \E f, x : dir' = [dir EXCEPT ![f] = x]
      BY <3>2 DEF Step, Check, Open, Obtained, Write, Verify, Judge, Reuse, Execute
    <3> QED
      BY <3>1, <3>2 DEF Next, Damage, vars
  <2> QED
    BY <2>1 DEF Types
<1> QED
  BY <1>1, <1>2, <1>3, <1>4 DEF Types

LEMMA CallsNext ==
  ASSUME CallTypes, [Next]_vars
  PROVE  CallTypes'
<1>1. CASE UNCHANGED <<pc, call, got, seen, answer>>
  BY <1>1 DEF CallTypes
<1>2. ASSUME NEW g \in Gate, Call(g) \/ Step(g) \/ Crash(g)
      PROVE  CallTypes'
  <2>1. OthersStay(g) /\ StillCalls
    BY <1>2, Acting
  <2>2. /\ pc'[g] \in Place /\ pc'[g] # "idle" /\ call'[g] \in MayCall
        /\ pc'[g] = "ended" <=> answer'[g] # None
    BY <1>2, Moves
  <2>3. \A h \in Gate : pc'[h] \in Place
    BY <2>1, <2>2 DEF OthersStay, CallTypes
  <2>4. \A h \in Gate : /\ IF pc'[h] = "idle" THEN call'[h] = None ELSE call'[h] \in MayCall
                        /\ pc'[h] = "ended" <=> answer'[h] # None
    BY <2>1, <2>2 DEF OthersStay, CallTypes
  <2>5. pc' \in [Gate -> Place]
    BY <2>1, <2>3 DEF StillCalls
  <2>6. None' = None /\ Place' = Place
    BY DEF None, Place, Stopped, Rank
  <2> QED
    BY <2>1, <2>4, <2>5, <2>6 DEF StillCalls, CallTypes
<1>3. ASSUME NEW g \in Gate, Pack(g)
      PROVE  UNCHANGED <<pc, call, got, seen, answer>>
  BY <1>3 DEF Pack, gateVars
<1> QED
  BY <1>1, <1>2, <1>3 DEF Next, Damage, vars, gateVars

\* What obtaining evidence does to the evidence of a call.
LEMMA GotNext ==
  ASSUME CallTypes, [Next]_vars, NEW g \in Gate
  PROVE  \/ got'[g] = got[g]
         \/ \E p \in ObligedOf(g) \ DOMAIN got[g] : \E run, reused :
              /\ pc[g] = "obtain" /\ pc'[g] = "obtain"
              /\ got'[g] = [q \in DOMAIN got[g] \cup {p} |->
                              IF q = p THEN [run |-> run, reused |-> reused] ELSE got[g][q]]
              /\ \/ store[p] # 0 /\ run = store[p] /\ UNCHANGED <<store, verdict>>
                 \/ Execute(g, p) /\ run = Len(verdict) + 1
<1>1. ASSUME NEW h \in Gate, NEW p \in Pair, Reuse(h, p) \/ Execute(h, p)
      PROVE  \/ got'[g] = got[g]
             \/ \E q \in ObligedOf(g) \ DOMAIN got[g] : \E run, reused :
                  /\ pc[g] = "obtain" /\ pc'[g] = "obtain"
                  /\ got'[g] = [r \in DOMAIN got[g] \cup {q} |->
                                  IF r = q THEN [run |-> run, reused |-> reused] ELSE got[g][r]]
                  /\ \/ store[q] # 0 /\ run = store[q] /\ UNCHANGED <<store, verdict>>
                     \/ Execute(g, q) /\ run = Len(verdict) + 1
  <2>1. CASE h # g
    BY <1>1, <2>1, Acting DEF Step, OthersStay
  <2>2. CASE h = g
    <3>1. PICK run, reused :
            /\ Hold(g, p, run, reused) /\ p \in ObligedOf(g) \ DOMAIN got[g]
            /\ pc[g] = "obtain" /\ pc' = pc
            /\ \/ store[p] # 0 /\ run = store[p] /\ UNCHANGED <<store, verdict>>
               \/ Execute(g, p) /\ run = Len(verdict) + 1
      BY <1>1, <2>2 DEF Reuse, Execute
    <3>2. got'[g] = [q \in DOMAIN got[g] \cup {p} |->
                       IF q = p THEN [run |-> run, reused |-> reused] ELSE got[g][q]]
      BY <3>1 DEF Hold, CallTypes
    <3> QED
      BY <3>1, <3>2
  <2> QED
    BY <2>1, <2>2
<1>2. ASSUME NEW h \in Gate, Call(h) \/ Crash(h) \/ Pack(h)
      PROVE  got' = got
  BY <1>2 DEF Call, Crash, Pack, gateVars
<1>3. ASSUME NEW h \in Gate,
             Check(h) \/ Open(h) \/ Obtained(h) \/ Write(h) \/ Verify(h) \/ Judge(h)
      PROVE  got' = got
  BY <1>3 DEF Check, Open, Obtained, Write, Verify, Judge, gateVars
<1> QED
  BY <1>1, <1>2, <1>3 DEF Next, Step, Damage, vars, gateVars

\* Evidence that is complete stays as it is, and so does what is made of it.
LEMMA CompleteStays ==
  ASSUME Types, CallTypes, Holding, [Next]_vars, NEW g \in Gate, Complete(g)
  PROVE  /\ got'[g] = got[g] /\ call'[g] = call[g] /\ Complete(g)'
         /\ Runs(g)' = Runs(g) /\ Classes(g)' = Classes(g) /\ Tasks(g)' = Tasks(g)
         /\ Plan(g)' = Plan(g) /\ CountsOf(g)' = CountsOf(g)
         /\ DecisionsOf(g)' = DecisionsOf(g)
<1>1. got'[g] = got[g]
  BY GotNext DEF Complete
<1>2. call'[g] = call[g] /\ pc'[g] # "idle"
  BY CallStays DEF Complete
<1>3. Runs(g)' = Runs(g)
  BY <1>1 DEF Runs
<1>4. Complete(g)'
  BY <1>1, <1>2 DEF Complete, ObligedOf
<1>5. Classes(g)' = Classes(g)
  <2>1. ASSUME NEW p \in Planned(call[g].outcome), p \in Changed
        PROVE  verdict'[Runs(g)[p]] = verdict[Runs(g)[p]]
    <3>1. p \in DOMAIN got[g]
      BY <2>1 DEF Complete, ObligedOf, Obliged
    <3>2. Runs(g)[p] \in 1 .. Len(verdict)
      BY <3>1 DEF Holding, Runs
    <3> QED
      BY <3>2, VerdictsStay
  <2> QED
    BY <1>2, <1>3, <2>1 DEF Classes, Classify
<1>6. Tasks(g)' = Tasks(g)
  BY <1>1, <1>2, <1>5 DEF Tasks, TaskRow, Evidence
<1>7. Plan(g)' = Plan(g)
  BY <1>2 DEF Plan
<1>8. CountsOf(g)' = CountsOf(g)
  BY <1>1, <1>5, <1>7 DEF CountsOf
<1>9. DecisionsOf(g)' = DecisionsOf(g)
  BY <1>2, <1>5, <1>6, <1>8 DEF DecisionsOf
<1> QED
  BY <1>1, <1>2, <1>3, <1>4, <1>5, <1>6, <1>7, <1>8, <1>9

\* A call gets to the writes behind the evidence with all of it.
LEMMA PastNext ==
  ASSUME CallTypes, [Next]_vars, NEW g \in Gate, NEW n \in 1 .. 13, Past(g, n)'
  PROVE  \/ Past(g, n) /\ pc'[g] = pc[g]
         \/ Past(g, n) /\ (Verify(g) \/ Write(g) \/ Obtained(g))
         \/ n = 2 /\ Obtained(g)
         \/ Write(g) /\ Rank[pc[g]] = n
<1>1. CASE pc'[g] = pc[g]
  BY <1>1 DEF Past
<1>2. ASSUME pc'[g] # pc[g]
      PROVE  Call(g) \/ Step(g) \/ Crash(g)
  BY <1>2, Acting DEF Next, Pack, Damage, vars, OthersStay
<1>3. CASE Write(g)
  <2>1. pc[g] \in Required /\ pc'[g] = After(pc[g])
    BY <1>3 DEF Write, To, CallTypes
  <2>2. Rank[pc'[g]] = Rank[pc[g]] + 1 /\ pc[g] \in DOMAIN Rank /\ Rank[pc[g]] \in 1 .. 13
    BY <2>1, Ranks
  <2> QED
    BY <1>3, <2>2 DEF Past
<1>4. CASE Obtained(g)
  <2>1. pc'[g] = "sources" /\ pc[g] = "obtain"
    BY <1>4, AfterIs DEF Obtained, To, CallTypes
  <2>2. n = 1 \/ n = 2
    BY <2>1, RankOf DEF Past
  <2>3. Past(g, 1)
    BY <2>1, Ranks DEF Past
  <2> QED
    BY <1>4, <2>2, <2>3
<1>5. CASE Verify(g)
  <2>1. pc[g] = "verify" /\ pc'[g] \in {"judge", "raised"}
    BY <1>5 DEF Verify, To, CallTypes
  <2>2. pc'[g] = "judge"
    BY <2>1, Ranks DEF Past, Stopped
  <2> QED
    BY <1>5, <2>1, <2>2, Ranks DEF Past
<1>6. CASE Call(g) \/ Crash(g) \/ Check(g) \/ Open(g) \/ Judge(g)
  <2>1. pc'[g] \in Stopped \cup {"check", "open", "plan"}
    BY <1>6, Places DEF Call, Crash, Check, Open, Judge, To, CallTypes, Stopped
  <2> QED
    BY <2>1, Ranks, RankOf, RequiredIs DEF Past
<1>7. ASSUME NEW p \in Pair, Reuse(g, p) \/ Execute(g, p)
      PROVE  pc' = pc
  BY <1>7 DEF Reuse, Execute
<1> QED
  BY <1>1, <1>2, <1>3, <1>4, <1>5, <1>6, <1>7 DEF Step

\* Who runs after a step, ran or was called.
LEMMA AliveNext ==
  ASSUME CallTypes, [Next]_vars, NEW g \in Gate, pc'[g] \notin Stopped
  PROVE  pc[g] \notin Stopped \/ Call(g)
<1>1. ASSUME NEW h \in Gate, Crash(h)
      PROVE  pc[g] \notin Stopped
  BY <1>1, Acting DEF Crash, Alive, OthersStay
<1>2. ASSUME NEW h \in Gate, Step(h)
      PROVE  pc[g] \notin Stopped
  <2>1. pc[h] \notin Stopped
    BY <1>2, Ranks
       DEF Step, Check, Open, Obtained, Write, Verify, Judge, Reuse, Execute, Stopped
  <2> QED
    BY <1>2, <2>1, Acting DEF OthersStay
<1>3. ASSUME NEW h \in Gate, Call(h)
      PROVE  pc[g] \notin Stopped \/ Call(g)
  BY <1>3, Acting DEF OthersStay
<1> QED
  BY <1>1, <1>2, <1>3 DEF Next, Pack, Damage, vars, gateVars

LEMMA HoldingNext ==
  ASSUME Types, CallTypes, Holding, [Next]_vars
  PROVE  Holding'
<1> SUFFICES ASSUME NEW g \in Gate
             PROVE  /\ IF pc'[g] = "idle" THEN DOMAIN got'[g] = {}
                                          ELSE DOMAIN got'[g] \subseteq ObligedOf(g)'
                    /\ \A p \in DOMAIN got'[g] : got'[g][p].run \in 1 .. Len(verdict')
                    /\ Past(g, 2)' => Complete(g)'
                    /\ answer'[g] # None =>
                         Complete(g)' /\ answer'[g].decisions = DecisionsOf(g)'
  <2>1. None' = None
    BY DEF None
  <2> QED
    BY <2>1 DEF Holding
<1>1. ASSUME pc[g] # "idle"
      PROVE  ObligedOf(g)' = ObligedOf(g) /\ pc'[g] # "idle"
  BY <1>1, CallStays DEF ObligedOf
<1>2. Past(g, 2)' => Complete(g)'
  <2>1. ASSUME Past(g, 2)', Obtained(g)
        PROVE  Complete(g)
    BY <2>1 DEF Obtained, Complete
  <2>2. ASSUME Past(g, 2)', Write(g), Rank[pc[g]] = 2
        PROVE  FALSE
    BY <2>2, Ranks DEF Write
  <2>3. ASSUME Past(g, 2)'
        PROVE  Complete(g)
    BY <2>1, <2>2, <2>3, PastNext DEF Holding
  <2> QED
    BY <2>3, CompleteStays
<1>3. ASSUME answer'[g] # None
      PROVE  Complete(g)' /\ answer'[g].decisions = DecisionsOf(g)'
  <2>1. CASE answer'[g] = answer[g]
    <3>1. Complete(g) /\ answer[g].decisions = DecisionsOf(g)
      BY <1>3, <2>1 DEF Holding
    <3> QED
      BY <2>1, <3>1, CompleteStays
  <2>2. CASE answer'[g] # answer[g]
    <3>1. Judge(g)
      <4>1. PICK h \in Gate : Call(h) \/ Step(h) \/ Crash(h)
        BY <2>2 DEF Next, Pack, Damage, vars, gateVars
      <4>2. h = g
        BY <2>2, <4>1, Acting DEF OthersStay
      <4> QED
        BY <2>2, <4>1, <4>2
           DEF Call, Crash, Step, Check, Open, Obtained, Write, Verify, Reuse, Execute, gateVars
    <3>2. answer'[g].decisions = DecisionsOf(g) /\ pc[g] = "judge"
      BY <2>2, <3>1 DEF Judge, CallTypes
    <3>3. Complete(g)
      BY <3>2, Ranks DEF Holding, Past
    <3> QED
      BY <3>2, <3>3, CompleteStays
  <2> QED
    BY <2>1, <2>2
<1>4. CASE got'[g] = got[g]
  <2>1. IF pc'[g] = "idle" THEN DOMAIN got'[g] = {} ELSE DOMAIN got'[g] \subseteq ObligedOf(g)'
    <3>1. CASE pc[g] = "idle"
      BY <1>4, <3>1 DEF Holding
    <3>2. CASE pc[g] # "idle"
      BY <1>1, <1>4, <3>2 DEF Holding
    <3> QED
      BY <3>1, <3>2
  <2>2. \A p \in DOMAIN got'[g] : got'[g][p].run \in 1 .. Len(verdict')
    BY <1>4, VerdictsStay DEF Holding
  <2> QED
    BY <1>2, <1>3, <2>1, <2>2
<1>5. CASE got'[g] # got[g]
  <2>0. PICK p \in ObligedOf(g) \ DOMAIN got[g] :
          \E run, reused :
            /\ pc[g] = "obtain" /\ pc'[g] = "obtain"
            /\ got'[g] = [q \in DOMAIN got[g] \cup {p} |->
                            IF q = p THEN [run |-> run, reused |-> reused] ELSE got[g][q]]
            /\ \/ store[p] # 0 /\ run = store[p] /\ UNCHANGED <<store, verdict>>
               \/ Execute(g, p) /\ run = Len(verdict) + 1
    BY <1>5, GotNext
  <2>1. PICK run, reused :
          /\ pc[g] = "obtain" /\ pc'[g] = "obtain"
          /\ got'[g] = [q \in DOMAIN got[g] \cup {p} |->
                          IF q = p THEN [run |-> run, reused |-> reused] ELSE got[g][q]]
          /\ \/ store[p] # 0 /\ run = store[p] /\ UNCHANGED <<store, verdict>>
             \/ Execute(g, p) /\ run = Len(verdict) + 1
    BY <2>0
  <2>2. p \in Changed
    BY <2>1 DEF ObligedOf, Obliged
  <2>3. DOMAIN got'[g] \subseteq ObligedOf(g)'
    BY <1>1, <2>1 DEF Holding
  <2>4. run \in 1 .. Len(verdict')
    <3>1. CASE store[p] # 0 /\ run = store[p] /\ UNCHANGED <<store, verdict>>
      BY <2>2, <3>1 DEF Types
    <3>2. CASE Execute(g, p) /\ run = Len(verdict) + 1
      BY <2>2, <3>2, Executed, VerdictsStay
    <3> QED
      BY <2>1, <3>1, <3>2
  <2>5. \A q \in DOMAIN got[g] : got[g][q].run \in 1 .. Len(verdict')
    BY VerdictsStay DEF Holding
  <2>6. \A q \in DOMAIN got'[g] : got'[g][q].run \in 1 .. Len(verdict')
    BY <2>1, <2>4, <2>5
  <2> QED
    BY <1>2, <1>3, <2>1, <2>3, <2>6
<1> QED
  BY <1>4, <1>5

\* A call gets to its attestation by making the manifest.
LEMMA MakingNext ==
  ASSUME CallTypes, Making, [Next]_vars
  PROVE  Making'
<1> SUFFICES ASSUME NEW g \in Gate, pc'[g] = "attestation"
             PROVE  seen'[g].content.manifest.policy = call'[g].policy
  BY DEF Making
<1>1. Past(g, 11)'
  BY Ranks, RankOf, RequiredIs DEF Past
<1>2. CASE Write(g)
  <2>1. pc[g] \in Required /\ After(pc[g]) = "attestation" /\ call' = call
    BY <1>2 DEF Write, To, CallTypes
  <2>2. pc[g] = "manifest"
    BY <2>1, AfterIs, RequiredIs
  <2>3. seen'[g] = Manifest(g)
    BY <1>2, <2>2 DEF Write, CallTypes
  <2>4. Manifest(g).content.manifest.policy = call[g].policy
    <3>1. Manifest(g).content.manifest = Manifest(g).inputs
      BY ManifestIs
    <3>2. Manifest(g).inputs.policy = call[g].policy
      BY DEF Manifest
    <3> QED
      BY <3>1, <3>2
  <2> QED
    BY <2>1, <2>3, <2>4
<1>3. CASE pc[g] = "attestation" /\ ~ Write(g)
  <2>1. seen'[g] = seen[g]
    <3>1. ASSUME NEW h \in Gate, Call(h) \/ Step(h) \/ Crash(h)
          PROVE  seen'[g] = seen[g]
      <4>1. CASE h # g
        BY <3>1, <4>1, Acting DEF OthersStay
      <4>2. CASE h = g
        BY <1>3, <3>1, <4>2
           DEF Call, Crash, Step, Check, Open, Obtained, Verify, Judge, Reuse, Execute, gateVars
      <4> QED
        BY <4>1, <4>2
    <3> QED
      BY <3>1 DEF Next, Pack, Damage, vars, gateVars
  <2>2. call'[g] = call[g]
    BY <1>3, CallStays
  <2> QED
    BY <1>3, <2>1, <2>2 DEF Making
<1>4. CASE pc[g] # "attestation" /\ ~ Write(g)
  <2>1. Verify(g) \/ Obtained(g)
    BY <1>1, <1>4, PastNext
  <2>2. ~ Verify(g)
    BY DEF Verify, To, CallTypes
  <2>3. ~ Obtained(g)
    BY AfterIs DEF Obtained, To, CallTypes
  <2> QED
    BY <2>1, <2>2, <2>3
<1> QED
  BY <1>2, <1>3, <1>4
-----------------------------------------------------------------------------
(* What the files say *)

\* A file changes when it is torn or when a call gets to it.
LEMMA FileNext ==
  ASSUME Types, [Next]_vars, NEW f \in Required
  PROVE  \/ dir'[f] = dir[f]
         \/ dir'[f] = Torn /\ (Damage \/ \E g \in Gate : Crash(g))
         \/ \E g \in Gate : Write(g) /\ pc[g] = f /\ dir'[f] = Written(g, f)
<1>1. ASSUME NEW g \in Gate, Write(g)
      PROVE  dir'[f] = dir[f] \/ (pc[g] = f /\ dir'[f] = Written(g, f))
  BY <1>1 DEF Write, Types
<1>2. ASSUME NEW g \in Gate, Crash(g)
      PROVE  dir'[f] = dir[f] \/ dir'[f] = Torn
  BY <1>2 DEF Crash, Types
<1>3. CASE Damage
  <2>1. dir' = dir \/ \E h \in Required : dir' = [dir EXCEPT ![h] = Torn]
    BY <1>3 DEF Damage
  <2> QED
    BY <1>3, <2>1 DEF Types
<1>4. ASSUME NEW g \in Gate, Call(g) \/ Pack(g)
      PROVE  dir' = dir
  BY <1>4 DEF Call, Pack
<1>5. ASSUME NEW g \in Gate, Step(g), ~ Write(g)
      PROVE  dir' = dir
  BY <1>5 DEF Step, Check, Open, Obtained, Verify, Judge, Reuse, Execute
<1> QED
  BY <1>1, <1>2, <1>3, <1>4, <1>5 DEF Next, Step, vars

\* Files of one call remain so.
LEMMA OwnStays ==
  ASSUME Types, CallTypes, Holding, [Next]_vars, NEW files, NEW g \in Gate, Own(files, g)
  PROVE  Own(files, g)'
<1>1. got'[g] = got[g] /\ Complete(g)' /\ Tasks(g)' = Tasks(g)
  BY CompleteStays DEF Own
<1> QED
  BY <1>1 DEF Own

\* What a file says stays true.
LEMMA SaidStays ==
  ASSUME Types, CallTypes, Holding, [Next]_vars, NEW x
  PROVE  /\ LineageSays(x) => LineageSays(x)'
         /\ TasksSay(x) => TasksSay(x)'
         /\ ManifestSays(x) => ManifestSays(x)'
         /\ AttestationSays(x) => AttestationSays(x)'
<1>0. NoFile' = NoFile /\ Torn' = Torn
  BY DEF NoFile, Torn
<1>1. ASSUME LineageSays(x), x \notin {NoFile, Torn}
      PROVE  \E g \in Gate : Complete(g)' /\ x = [rows |-> got'[g]]
  <2>1. PICK g \in Gate : Complete(g) /\ x = [rows |-> got[g]]
    BY <1>1 DEF LineageSays
  <2> QED
    BY <2>1, CompleteStays
<1>2. ASSUME TasksSay(x), x \notin {NoFile, Torn}
      PROVE  \E g \in Gate : Complete(g)' /\ x = [rows |-> Tasks(g)']
  <2>1. PICK g \in Gate : Complete(g) /\ x = [rows |-> Tasks(g)]
    BY <1>2 DEF TasksSay
  <2> QED
    BY <2>1, CompleteStays
<1>3. ASSUME ManifestSays(x), x \notin {NoFile, Torn}
      PROVE  \E g \in Gate : /\ pc'[g] # "idle" /\ x.inputs.policy = call'[g].policy
                             /\ AtOnce = 1 => Own(x.content.files, g)'
  <2>1. PICK g \in Gate : /\ pc[g] # "idle" /\ x.inputs.policy = call[g].policy
                          /\ AtOnce = 1 => Own(x.content.files, g)
    BY <1>3 DEF ManifestSays
  <2>2. pc'[g] # "idle" /\ call'[g] = call[g]
    BY <2>1, CallStays
  <2>3. PICK files : files = x.content.files
    OBVIOUS
  <2>4. AtOnce = 1 => Own(files, g)'
    BY <2>1, <2>3, OwnStays
  <2> QED
    BY <2>1, <2>2, <2>3, <2>4
<1>4. ASSUME AttestationSays(x), x \notin {NoFile, Torn}
      PROVE  \E g \in Gate : /\ pc'[g] # "idle" /\ x.trusted = call'[g].trusted
                             /\ x.parent.manifest.policy = call'[g].policy
                             /\ AtOnce = 1 => Own(x.parent.files, g)'
  <2>1. PICK g \in Gate : /\ pc[g] # "idle" /\ x.trusted = call[g].trusted
                          /\ x.parent.manifest.policy = call[g].policy
                          /\ AtOnce = 1 => Own(x.parent.files, g)
    BY <1>4 DEF AttestationSays
  <2>2. pc'[g] # "idle" /\ call'[g] = call[g]
    BY <2>1, CallStays
  <2>3. PICK files : files = x.parent.files
    OBVIOUS
  <2>4. AtOnce = 1 => Own(files, g)'
    BY <2>1, <2>3, OwnStays
  <2> QED
    BY <2>1, <2>2, <2>3, <2>4
<1>5. LineageSays(x) => LineageSays(x)'
  BY <1>0, <1>1 DEF LineageSays
<1>6. TasksSay(x) => TasksSay(x)'
  BY <1>0, <1>2 DEF TasksSay
<1>7. ManifestSays(x) => ManifestSays(x)'
  BY <1>0, <1>3 DEF ManifestSays
<1>8. AttestationSays(x) => AttestationSays(x)'
  BY <1>0, <1>4 DEF AttestationSays
<1> QED
  BY <1>5, <1>6, <1>7, <1>8

\* A call that writes has all its evidence, once it is past the plan.
LEMMA Writing ==
  ASSUME CallTypes, Holding, NEW g \in Gate, Write(g)
  PROVE  /\ pc[g] \in Required /\ pc[g] \notin Stopped /\ pc[g] # "idle"
         /\ \A n : Past(g, n) <=> Rank[pc[g]] > n
         /\ pc[g] # "plan" => Complete(g)
<1>1. pc[g] \in Required
  BY DEF Write
<1>2. pc[g] \in DOMAIN Rank
  BY <1>1, Ranks
<1>3. pc[g] \notin Stopped /\ pc[g] # "idle"
  BY <1>2, Ranks DEF CallTypes, Stopped
<1>4. \A n : Past(g, n) <=> Rank[pc[g]] > n
  BY <1>2 DEF Past
<1>5. ASSUME pc[g] # "plan"
      PROVE  Complete(g)
  <2>1. Rank[pc[g]] > 2
    BY <1>1, <1>5, RequiredIs, RankOf
  <2> QED
    BY <1>4, <2>1 DEF Holding
<1> QED
  BY <1>1, <1>3, <1>4, <1>5

\* What a call is about to write says what it should.
LEMMA WritesSay ==
  ASSUME Types, CallTypes, Holding, Making, NEW g \in Gate, AtOnce = 1 => Untouched(g), Write(g)
  PROVE  /\ pc[g] = "lineage" => LineageSays(Written(g, "lineage"))
         /\ pc[g] = "tasks" => TasksSay(Written(g, "tasks"))
         /\ pc[g] = "manifest" => ManifestSays(Written(g, "manifest"))
         /\ pc[g] = "attestation" => AttestationSays(Written(g, "attestation"))
<1>1. /\ pc[g] # "idle"
      /\ \A n : Past(g, n) <=> Rank[pc[g]] > n
      /\ pc[g] # "plan" => Complete(g)
  BY Writing
<1>2. ASSUME pc[g] = "lineage"
      PROVE  LineageSays(Written(g, "lineage"))
  BY <1>1, <1>2, WrittenIs DEF LineageSays
<1>3. ASSUME pc[g] = "tasks"
      PROVE  TasksSay(Written(g, "tasks"))
  BY <1>1, <1>3, WrittenIs DEF TasksSay
\* Once the environment is written, the described files are those of a call
\* that runs alone.
<1>4. ASSUME AtOnce = 1, Past(g, 10)
      PROVE  Own(dir, g)
  <2>1. \A n \in 1 .. 10 : Past(g, n)
    <3>1. \A s \in DOMAIN Rank : Rank[s] \in Nat
      BY Ranks DEF Rank
    <3> QED
      BY <1>4, <3>1 DEF Past
  <2>2. /\ dir["lineage"] = Written(g, "lineage") /\ dir["tasks"] = Written(g, "tasks")
        /\ dir["environment"] = Written(g, "environment")
    BY <1>4, <2>1, RequiredIs, RankOf DEF Untouched
  <2>3. Complete(g)
    BY <2>1 DEF Holding
  <2> QED
    BY <2>2, <2>3, WrittenIs DEF Own
<1>5. ASSUME NEW files, AtOnce = 1, Past(g, 10), \A f \in Described : files[f] = dir[f]
      PROVE  Own(files, g)
  <2>1. Own(dir, g)
    BY <1>4, <1>5
  <2>2. /\ files["lineage"] = dir["lineage"] /\ files["tasks"] = dir["tasks"]
        /\ files["environment"] = dir["environment"]
    BY <1>5, RequiredIs
  <2> QED
    BY <2>1, <2>2 DEF Own
<1>6. ASSUME pc[g] = "manifest"
      PROVE  ManifestSays(Written(g, "manifest"))
  <2>1. Written(g, "manifest") = Manifest(g)
    BY WrittenIs
  <2>2. Manifest(g).inputs.policy = call[g].policy
    BY DEF Manifest
  <2>3. Past(g, 10)
    BY <1>1, <1>6, RankOf
  <2>4. AtOnce = 1 => Own(Manifest(g).content.files, g)
    BY <1>5, <2>3, ManifestIs
  <2> QED
    BY <1>1, <2>1, <2>2, <2>4 DEF ManifestSays
<1>7. ASSUME pc[g] = "attestation"
      PROVE  AttestationSays(Written(g, "attestation"))
  <2>1. PICK x : x = Attestation(g)
    OBVIOUS
  <2>2. x.trusted = call[g].trusted /\ x.parent = seen[g].content
    BY <2>1 DEF Attestation
  <2>3. x.parent.manifest.policy = call[g].policy
    BY <1>7, <2>2 DEF Making
  <2>4. Past(g, 10) /\ Past(g, 11)
    BY <1>1, <1>7, RankOf
  <2>5. ASSUME AtOnce = 1
        PROVE  Own(x.parent.files, g)
    <3>1. seen[g] = dir["manifest"] /\ dir["manifest"] = Written(g, "manifest")
      BY <2>4, <2>5, RequiredIs, RankOf DEF Untouched
    <3>2. x.parent = Manifest(g).content
      BY <2>2, <3>1, WrittenIs
    <3> QED
      BY <1>5, <2>4, <2>5, <3>2, ManifestIs
  <2>6. AttestationSays(x)
    BY <1>1, <2>2, <2>3, <2>5 DEF AttestationSays
  <2> QED
    BY <2>1, <2>6, WrittenIs
<1> QED
  BY <1>2, <1>3, <1>6, <1>7

LEMMA FilesNext ==
  ASSUME Types, CallTypes, Holding, Making,
         AtOnce = 1 => \A g \in Gate : Untouched(g), Files(dir), [Next]_vars
  PROVE  Files(dir)'
<1>1. LineageSays(Torn)' /\ TasksSay(Torn)' /\ ManifestSays(Torn)' /\ AttestationSays(Torn)'
  BY DEF LineageSays, TasksSay, ManifestSays, AttestationSays, Torn, NoFile
<1>2. ASSUME NEW g \in Gate, Write(g)
      PROVE  /\ pc[g] = "lineage" => LineageSays(Written(g, "lineage"))
             /\ pc[g] = "tasks" => TasksSay(Written(g, "tasks"))
             /\ pc[g] = "manifest" => ManifestSays(Written(g, "manifest"))
             /\ pc[g] = "attestation" => AttestationSays(Written(g, "attestation"))
  BY <1>2, WritesSay
<1>3. PICK x : x = dir'["lineage"]
  OBVIOUS
<1>4. LineageSays(x)'
  <2>1. LineageSays(x) \/ x = Torn
    BY <1>2, <1>3, FileNext, RequiredIs DEF Files
  <2> QED
    BY <1>1, <2>1, SaidStays
<1>5. PICK y : y = dir'["tasks"]
  OBVIOUS
<1>6. TasksSay(y)'
  <2>1. TasksSay(y) \/ y = Torn
    BY <1>2, <1>5, FileNext, RequiredIs DEF Files
  <2> QED
    BY <1>1, <2>1, SaidStays
<1>7. PICK z : z = dir'["manifest"]
  OBVIOUS
<1>8. ManifestSays(z)'
  <2>1. ManifestSays(z) \/ z = Torn
    BY <1>2, <1>7, FileNext, RequiredIs DEF Files
  <2> QED
    BY <1>1, <2>1, SaidStays
<1>9. PICK u : u = dir'["attestation"]
  OBVIOUS
<1>10. AttestationSays(u)'
  <2>1. AttestationSays(u) \/ u = Torn
    BY <1>2, <1>9, FileNext, RequiredIs DEF Files
  <2> QED
    BY <1>1, <2>1, SaidStays
<1> QED
  BY <1>3, <1>4, <1>5, <1>6, <1>7, <1>8, <1>9, <1>10 DEF Files

\* An archive holds the files as they were.
LEMMA ArchiveNext ==
  ASSUME Types, CallTypes, Holding, Files(dir), archive # None => Files(archive.dir), [Next]_vars
  PROVE  archive' # None => Files(archive.dir)'
<1>1. ASSUME NEW d, Files(d)
      PROVE  Files(d)'
  BY <1>1, SaidStays DEF Files
<1>2. archive' = archive \/ archive' = [dir |-> dir, work |-> work]
  <2>1. ASSUME NEW g \in Gate, Call(g) \/ Crash(g) \/ Step(g)
        PROVE  archive' = archive
    BY <2>1 DEF Call, Crash, Step, Check, Open, Obtained, Write, Verify, Judge, Reuse, Execute
  <2> QED
    BY <2>1 DEF Next, Pack, Damage, vars
<1>3. PICK d : d = archive'.dir
  OBVIOUS
<1>4. archive' # None => Files(d)
  BY <1>2, <1>3
<1>5. archive' # None => Files(d)'
  BY <1>1, <1>4
<1>6. None' = None
  BY DEF None
<1> QED
  BY <1>3, <1>5, <1>6 DEF Files

-----------------------------------------------------------------------------
(* Calls that run one at a time *)

LEMMA AloneNext ==
  ASSUME CallTypes, Alone, AtOnce = 1, [Next]_vars
  PROVE  Alone'
<1>1. ASSUME NEW g \in Gate, Call(g)
      PROVE  Alive = {}
  <2>1. IsFiniteSet(Alive)
    BY FiniteAssumption, FS_Subset DEF Alive
  <2>2. Cardinality(Alive) \in Nat /\ Cardinality(Alive) < 1
    BY <1>1, <2>1, FS_CardinalityType DEF Call
  <2> QED
    BY <2>1, <2>2, FS_EmptySet
<1>2. ASSUME NEW g \in Gate, NEW h \in Gate, pc'[g] \notin Stopped, pc'[h] \notin Stopped
      PROVE  g = h
  <2>1. ASSUME NEW x \in Gate, Call(x)
        PROVE  pc'[g] # "idle" => g = x
    BY <1>1, <1>2, <2>1, Acting DEF Alive, OthersStay
  <2>2. ASSUME NEW x \in Gate, Call(x)
        PROVE  pc'[h] # "idle" => h = x
    BY <1>1, <1>2, <2>2, Acting DEF Alive, OthersStay
  <2>3. CASE \E x \in Gate : Call(x)
    BY <1>2, <2>1, <2>2, <2>3 DEF Stopped
  <2>4. CASE ~ \E x \in Gate : Call(x)
    BY <1>2, <2>4, AliveNext DEF Alone, Alive
  <2> QED
    BY <2>3, <2>4
<1> QED
  BY <1>2 DEF Alone, Alive, Stopped

\* What a call writes into a file is the same after a step that leaves alone
\* what it is made of.
LEMMA WrittenStays ==
  ASSUME Types, CallTypes, Holding, [Next]_vars, NEW g \in Gate, NEW f \in Required \ {"sources"},
         f = "plan" \/ Complete(g), pc[g] # "idle",
         f \in {"manifest", "checksums"} => work' = work,
         f = "manifest" => \A k \in Described : dir'[k] = dir[k],
         f = "attestation" => seen'[g] = seen[g],
         f = "checksums" => \A k \in Required \ {"checksums"} : dir'[k] = dir[k]
  PROVE  Written(g, f)' = Written(g, f)
<1>1. call'[g] = call[g] /\ clean' = clean
  BY Fixed, CallStays
<1>2. CASE f = "plan"
  BY <1>1, <1>2 DEF Written, Plan
<1>3. ASSUME f # "plan"
      PROVE  /\ got'[g] = got[g] /\ Classes(g)' = Classes(g) /\ Tasks(g)' = Tasks(g)
             /\ CountsOf(g)' = CountsOf(g) /\ DecisionsOf(g)' = DecisionsOf(g)
  BY <1>3, CompleteStays
<1>4. CASE f \in {"results", "lineage"}
  BY <1>3, <1>4 DEF Written
<1>5. CASE f \in {"tasks", "classes"}
  BY <1>3, <1>5 DEF Written
<1>6. CASE f = "links"
  BY <1>1, <1>3, <1>6 DEF Written, Evidence
<1>7. CASE f = "decisions"
  BY <1>3, <1>7 DEF Written
<1>8. CASE f = "environment"
  BY <1>8 DEF Written
<1>9. CASE f = "manifest"
  <2>1. \A x : Content(x, dir, work)' = Content(x, dir, work)
    BY <1>9 DEF Content
  <2>2. Manifest(g)' = Manifest(g)
    BY <1>1, <1>3, <1>9, <2>1 DEF Manifest, Content
  <2> QED
    BY <1>9, <2>2 DEF Written
<1>10. CASE f = "attestation"
  <2>1. Attestation(g)' = Attestation(g)
    BY <1>1, <1>10 DEF Attestation
  <2> QED
    BY <1>10, <2>1 DEF Written
<1>11. CASE f = "checksums"
  <2>1. Sums(dir, work)' = Sums(dir, work)
    BY <1>11 DEF Sums
  <2> QED
    BY <1>11, <2>1 DEF Written
<1> QED
  BY <1>2, <1>4, <1>5, <1>6, <1>7, <1>8, <1>9, <1>10, <1>11, RequiredIs

\* While a call runs alone, it is the one that moves.
LEMMA OwnMove ==
  ASSUME CallTypes, Alone, NEW g \in Gate, pc[g] \notin Stopped, pc'[g] \notin Stopped,
         AtOnce = 1, [Next]_vars
  PROVE  \/ Step(g)
         \/ UNCHANGED <<dir, work, seen, call, got, pc>>
<1>1. ASSUME NEW h \in Gate, Call(h)
      PROVE  FALSE
  <2>1. IsFiniteSet(Alive)
    BY FiniteAssumption, FS_Subset DEF Alive
  <2>2. Cardinality(Alive) \in Nat /\ Cardinality(Alive) < 1
    BY <1>1, <2>1, FS_CardinalityType DEF Call
  <2>3. Alive = {}
    BY <2>1, <2>2, FS_EmptySet
  <2> QED
    BY <2>3 DEF Alive
<1>2. ASSUME NEW h \in Gate, Crash(h)
      PROVE  FALSE
  <2>1. h = g
    BY <1>2 DEF Crash, Alone, Alive
  <2> QED
    BY <1>2, <2>1 DEF Crash, To, CallTypes, Stopped
<1>3. ASSUME NEW h \in Gate, Step(h)
      PROVE  h = g
  <2>1. pc[h] \notin Stopped
    BY <1>3, Ranks
       DEF Step, Check, Open, Obtained, Write, Verify, Judge, Reuse, Execute, Stopped
  <2> QED
    BY <2>1 DEF Alone, Alive
<1>4. ~ Damage
  BY DEF Damage, Alive
<1>5. ASSUME NEW h \in Gate, Pack(h)
      PROVE  UNCHANGED <<dir, work, seen, call, got, pc>>
  BY <1>5 DEF Pack, gateVars
<1> QED
  BY <1>1, <1>2, <1>3, <1>4, <1>5 DEF Next, vars

\* What a step of a call that runs alone comes from and changes.
LEMMA OwnPast ==
  ASSUME Types, CallTypes, Holding, Alone, AtOnce = 1, NEW g \in Gate, [Next]_vars,
         NEW n \in 1 .. 13, n # 2, Past(g, n)'
  PROVE  /\ pc[g] \notin Stopped /\ pc'[g] \notin Stopped
         /\ Past(g, n) \/ (Write(g) /\ Rank[pc[g]] = n)
         /\ n > 1 => Complete(g)
         /\ ~ Write(g) => dir' = dir /\ (n > 1 => work' = work)
<1>1. pc'[g] \notin Stopped
  BY Ranks DEF Past
<1>2. Past(g, n) \/ (Write(g) /\ Rank[pc[g]] = n)
  BY PastNext
<1>3. pc[g] \notin Stopped
  BY <1>2, Writing, Ranks DEF Past
<1>4. ASSUME n > 1
      PROVE  Complete(g)
  <2>1. \A s \in DOMAIN Rank : Rank[s] \in Nat
    BY DEF Rank
  <2>2. n > 2
    BY <1>4
  <2>3. CASE Past(g, n)
    <3>1. Past(g, 2)
      BY <2>1, <2>2, <2>3 DEF Past
    <3> QED
      BY <3>1 DEF Holding
  <2>4. CASE Write(g) /\ Rank[pc[g]] = n
    BY <2>2, <2>4, Writing, RankOf
  <2> QED
    BY <1>2, <2>3, <2>4
<1>5. ASSUME ~ Write(g)
      PROVE  dir' = dir
  <2>1. ~ Write(g) /\ Step(g) => dir' = dir
    BY DEF Step, Check, Open, Obtained, Verify, Judge, Reuse, Execute
  <2> QED
    BY <1>1, <1>3, <1>5, <2>1, OwnMove
<1>6. ASSUME ~ Write(g), n > 1
      PROVE  work' = work
  <2>1. pc[g] # "obtain"
    BY <1>2, <1>6, Ranks DEF Past
  <2>2. pc[g] # "obtain" /\ Step(g) => work' = work
    BY DEF Step, Check, Open, Obtained, Write, Verify, Judge, Reuse, Execute
  <2> QED
    BY <1>1, <1>3, <2>1, <2>2, OwnMove
<1> QED
  BY <1>1, <1>2, <1>3, <1>4, <1>5, <1>6

\* The manifest a call holds is the one on the disk.
LEMMA SeenNext ==
  ASSUME Types, CallTypes, Holding, Alone, AtOnce = 1, NEW g \in Gate, Untouched(g), [Next]_vars,
         Past(g, 11)'
  PROVE  /\ seen'[g] = dir'["manifest"]
         /\ Past(g, 11) => seen'[g] = seen[g]
<1>1. /\ pc[g] \notin Stopped /\ pc'[g] \notin Stopped
      /\ Past(g, 11) \/ (Write(g) /\ Rank[pc[g]] = 11)
      /\ ~ Write(g) => dir' = dir
  BY OwnPast
<1>2. CASE Write(g) /\ Rank[pc[g]] = 11
  <2>1. pc[g] = "manifest"
    BY <1>2, RankOf, RequiredIs, Ranks DEF Write
  <2>2. seen'[g] = Manifest(g) /\ dir'["manifest"] = Written(g, "manifest")
    BY <1>2, <2>1, RequiredIs DEF Write, Types, CallTypes
  <2>3. ~ Past(g, 11)
    BY <1>2, Ranks DEF Past
  <2> QED
    BY <2>2, <2>3, WrittenIs
<1>3. CASE Past(g, 11) /\ Write(g)
  <2>1. pc[g] # "manifest" /\ pc[g] \in Required
    BY <1>3, RankOf DEF Past, Write
  <2>2. seen' = seen /\ dir'["manifest"] = dir["manifest"]
    BY <1>3, <2>1, RequiredIs DEF Write, Types
  <2> QED
    BY <1>3, <2>2 DEF Untouched
<1>4. CASE Past(g, 11) /\ ~ Write(g)
  <2>1. dir' = dir
    BY <1>1, <1>4
  <2>2. seen'[g] \in {seen[g], dir["manifest"]}
    <3>1. ~ Write(g) /\ Step(g) => seen'[g] \in {seen[g], dir["manifest"]}
      BY DEF Step, Check, Open, Obtained, Verify, Judge, Reuse, Execute, gateVars, CallTypes
    <3> QED
      BY <1>1, <1>4, <3>1, OwnMove
  <2> QED
    BY <1>4, <2>1, <2>2 DEF Untouched
<1> QED
  BY <1>1, <1>2, <1>3, <1>4

\* The sources behind a call that runs alone are those of its evidence.
LEMMA SourcesNext ==
  ASSUME Types, CallTypes, Holding, Alone, AtOnce = 1, NEW g \in Gate, Untouched(g), [Next]_vars,
         Past(g, 3)'
  PROVE  HasSources(g)'
<1>1. /\ Past(g, 3) \/ (Write(g) /\ Rank[pc[g]] = 3)
      /\ Complete(g)
      /\ ~ Write(g) => dir' = dir
  BY OwnPast
<1>2. got'[g] = got[g]
  BY <1>1, CompleteStays
<1>3. NoFile' = NoFile /\ Torn' = Torn
  BY DEF NoFile, Torn
<1>4. CASE Write(g) /\ Rank[pc[g]] = 3
  <2>1. pc[g] = "sources"
    BY <1>4, RankOf, RequiredIs, Ranks DEF Write
  <2>2. dir'["sources"] = Written(g, "sources")
    BY <1>4, <2>1, RequiredIs DEF Write, Types
  <2>3. dir'["sources"].runs = Sources(g) /\ dir'["sources"] \notin {NoFile, Torn}
    BY <2>2, WrittenIs, WrittenWhole, RequiredIs
  <2>4. \A p \in DOMAIN got[g] : p \in DOMAIN Sources(g) /\ Sources(g)[p] = got[g][p].run
    BY DEF Sources
  <2> QED
    BY <1>2, <1>3, <2>3, <2>4 DEF HasSources
<1>5. CASE Past(g, 3)
  <2>1. dir'["sources"] = dir["sources"]
    <3>1. CASE Write(g)
      <4>1. pc[g] # "sources"
        BY <1>5, RankOf DEF Past
      <4> QED
        BY <3>1, <4>1, RequiredIs DEF Write, Types
    <3> QED
      BY <1>1, <3>1
  <2> QED
    BY <1>2, <1>3, <1>5, <2>1 DEF Untouched, HasSources
<1> QED
  BY <1>1, <1>4, <1>5

\* The files behind a call that runs alone are as it writes them.
LEMMA UntouchedNext ==
  ASSUME Types, CallTypes, Holding, Alone, AtOnce = 1, NEW g \in Gate, Untouched(g), [Next]_vars
  PROVE  Untouched(g)'
<1>1. ASSUME NEW f \in Required \ {"sources"}, Past(g, Rank[f])'
      PROVE  dir'[f] = Written(g, f)'
  <2>1. Rank[f] \in 1 .. 13 /\ Rank[f] # 2 /\ f \in Required
    BY Ranks
  <2>2. /\ pc[g] \notin Stopped
        /\ Past(g, Rank[f]) \/ (Write(g) /\ Rank[pc[g]] = Rank[f])
        /\ Rank[f] > 1 => Complete(g)
        /\ ~ Write(g) => dir' = dir /\ (Rank[f] > 1 => work' = work)
    BY <1>1, <2>1, OwnPast
  <2>3. f = "plan" \/ Rank[f] > 1
    BY RequiredIs, RankOf
  <2>4. pc[g] # "idle"
    BY <2>2 DEF Stopped
  <2>5. \A s \in DOMAIN Rank : Rank[s] \in Nat
    BY DEF Rank
  <2>6. f = "attestation" => seen'[g] = seen[g]
    <3>1. ASSUME f = "attestation"
          PROVE  Past(g, 11)' /\ Past(g, 11)
      <4>1. Rank' = Rank
        BY DEF Rank
      <4>2. Past(g, 11)'
        BY <1>1, <2>5, <3>1, <4>1, RankOf, CallsNext DEF Past, CallTypes
      <4>3. Past(g, 11)
        BY <2>2, <2>5, <3>1, RankOf, Ranks DEF Past, Write
      <4> QED
        BY <4>2, <4>3
    <3> QED
      BY <3>1, SeenNext
  <2>7. CASE Write(g)
    <3>1. pc[g] \in Required /\ Rank[pc[g]] >= Rank[f]
      BY <2>1, <2>2, <2>5, <2>7, Ranks DEF Past, Write
    <3>2. dir' = [dir EXCEPT ![pc[g]] = Written(g, pc[g])] /\ work' = work
      BY <2>7 DEF Write
    <3>3. \A k \in Required \ {pc[g]} : dir'[k] = dir[k]
      BY <3>1, <3>2 DEF Types
    <3>4. f = "manifest" => \A k \in Described : dir'[k] = dir[k]
      <4>1. f = "manifest" => pc[g] \notin Described
        BY <3>1, RequiredIs, RankOf
      <4> QED
        BY <3>3, <4>1 DEF Described
    <3>5. f = "checksums" => \A k \in Required \ {"checksums"} : dir'[k] = dir[k]
      <4>1. f = "checksums" => pc[g] = "checksums"
        BY <3>1, RequiredIs, RankOf
      <4> QED
        BY <3>3, <4>1
    <3>6. Written(g, f)' = Written(g, f)
      BY <2>2, <2>3, <2>4, <2>6, <3>2, <3>4, <3>5, WrittenStays
    <3>7. CASE pc[g] = f
      BY <3>2, <3>6, <3>7, <2>1 DEF Types
    <3>8. CASE pc[g] # f
      <4>1. Rank[pc[g]] # Rank[f]
        BY <2>1, <3>1, <3>8, Ranks
      <4>2. dir[f] = Written(g, f)
        BY <2>2, <4>1 DEF Untouched
      <4> QED
        BY <2>1, <3>3, <3>6, <3>8, <4>2
    <3> QED
      BY <3>7, <3>8
  <2>8. CASE ~ Write(g)
    <3>1. dir[f] = Written(g, f)
      BY <2>2, <2>8 DEF Untouched
    <3>2. dir' = dir /\ (f # "plan" => work' = work)
      BY <2>2, <2>3, <2>8
    <3>3. Written(g, f)' = Written(g, f)
      BY <2>2, <2>3, <2>4, <2>6, <3>2, WrittenStays
    <3> QED
      BY <3>1, <3>2, <3>3
  <2> QED
    BY <2>7, <2>8
<1>2. Past(g, 3)' => HasSources(g)'
  BY SourcesNext
<1>3. Past(g, 11)' => seen'[g] = dir'["manifest"]
  BY SeenNext
<1>4. Required' = Required /\ Rank' = Rank
  BY DEF Required, Writes, Rank
<1> QED
  BY <1>1, <1>2, <1>3, <1>4 DEF Untouched

\* Links without a handler in common are as many as their handlers.
LEMMA LinksCounted ==
  ASSUME NEW o, ~ \E t, u \in Compared(o) : t # u /\ HandlersOf[t] \cap HandlersOf[u] # {}
  PROVE  Cardinality(RawLinks(o)) = Cardinality(Linked(o))
<1>1. RawLinks(o) \subseteq Task \X Handler
  BY TasksAssumption DEF RawLinks, Compared
<1>2. IsFiniteSet(RawLinks(o))
  <2>1. IsFiniteSet(Task \X Handler)
    BY FiniteAssumption, FS_Product
  <2> QED
    BY <1>1, <2>1, FS_Subset
<1> DEFINE Names == {l[2] : l \in RawLinks(o)}
           F == [l \in RawLinks(o) |-> l[2]]
<1>3. ASSUME NEW l \in RawLinks(o), NEW k \in RawLinks(o), l[2] = k[2]
      PROVE  l = k
  <2>1. PICK t \in Compared(o) : \E h \in HandlersOf[t] : l = <<t, h>>
    BY DEF RawLinks
  <2>2. PICK u \in Compared(o) : \E h \in HandlersOf[u] : k = <<u, h>>
    BY DEF RawLinks
  <2>3. l[2] \in HandlersOf[t] \cap HandlersOf[u]
    BY <1>3, <2>1, <2>2
  <2>4. t = u
    BY <2>3
  <2> QED
    BY <1>3, <2>1, <2>2, <2>4
<1>4. F \in [RawLinks(o) -> Names]
  OBVIOUS
<1>5. \A l, k \in RawLinks(o) : F[l] = F[k] => l = k
  BY <1>3
<1>6. \A h \in Names : \E l \in RawLinks(o) : F[l] = h
  OBVIOUS
<1> HIDE DEF F, Names
<1>7. F \in Bijection(RawLinks(o), Names)
  BY <1>4, <1>5, <1>6, Fun_IsBij
<1>8. ExistsBijection(RawLinks(o), Names)
  BY <1>7, Fun_ExistsBij
<1>9. Cardinality(Names) = Cardinality(RawLinks(o))
  BY <1>2, <1>8, FS_Bijection
<1> QED
  BY <1>9 DEF Names, Linked

\* A directory that has nothing but what call g writes, but for older sources.
OwnFiles(g) ==
  /\ \A f \in Required \ {"sources"} : dir[f] = Written(g, f)
  /\ HasSources(g) /\ seen[g] = dir["manifest"]

LEMMA OwnFilesWhole ==
  ASSUME NEW g, OwnFiles(g)
  PROVE  /\ \A f \in Required : dir[f] \notin {NoFile, Torn}
         /\ Whole(dir, work)
<1>1. \A f \in Required : dir[f] \notin {NoFile, Torn}
  BY WrittenWhole DEF OwnFiles, HasSources
<1>2. dir["checksums"] = Sums(dir, work) /\ dir["manifest"] = Manifest(g)
  BY WrittenIs, RequiredIs DEF OwnFiles
<1>3. dir["manifest"].content = Content(dir["manifest"].inputs, dir, work)
  BY <1>2, ManifestIs
<1> QED
  BY <1>1, <1>2, <1>3, RequiredIs DEF Whole

\* The evidence of some pairs is that of the results.
LEMMA EvidenceRests ==
  ASSUME NEW d, NEW g, NEW pairs, pairs \subseteq d["plan"].pairs, d["results"].rows = got[g]
  PROVE  Rests(d, pairs, Evidence(g, pairs))
<1>1. /\ DOMAIN Evidence(g, pairs) = pairs \cap DOMAIN got[g]
      /\ \A p \in pairs \cap DOMAIN got[g] : Evidence(g, pairs)[p] = got[g][p].run
  BY DEF Evidence
<1> QED
  BY <1>1 DEF Rests

LEMMA OwnFilesConsistent ==
  ASSUME NEW g \in Gate, Complete(g), OwnFiles(g), ~ Excused(call[g].outcome), CallTypes
  PROVE  Consistent(dir, seen[g])
<1> DEFINE o == call[g].outcome
<1>1. \A f \in Required : dir[f] \notin {NoFile, Torn}
  BY OwnFilesWhole
<1>2. /\ dir["plan"] = Plan(g) /\ dir["results"] = [rows |-> got[g]]
      /\ dir["lineage"] = [rows |-> got[g]]
      /\ dir["links"] = [rows |-> [h \in Linked(o) |-> Evidence(g, {PairOf[h]})]]
  BY RequiredIs, WrittenIs DEF OwnFiles
<1>3. /\ dir["tasks"] = [rows |-> Tasks(g)] /\ dir["classes"] = [rows |-> Classes(g)]
      /\ dir["decisions"] = DecisionsOf(g) /\ dir["manifest"] = Manifest(g)
      /\ dir["attestation"] = Attestation(g)
  BY RequiredIs, WrittenIs DEF OwnFiles
<1>4. seen[g] = Manifest(g)
  BY <1>3 DEF OwnFiles
<1>5. /\ dir["plan"].pairs = Planned(o) /\ dir["plan"].obliged = Obliged(o)
      /\ dir["plan"].links = Cardinality(RawLinks(o))
  BY <1>2 DEF Plan
<1>6. dir["results"].rows = got[g] /\ dir["lineage"].rows = got[g]
  BY <1>2
<1>7. dir["tasks"].rows = Tasks(g) /\ dir["classes"].rows = Classes(g)
  BY <1>3
<1>8. dir["links"].rows = [h \in Linked(o) |-> Evidence(g, {PairOf[h]})]
  BY <1>2
<1>9. DOMAIN got[g] = Obliged(o)
  BY DEF Complete, ObligedOf
<1>10. o \in [Task -> Outcome]
  BY CallsAssumption DEF CallTypes, Complete
<1> HIDE DEF o
<1>11. ManifestSound(seen[g])
  <2>1. seen[g].inputs.clean = clean
    BY <1>4 DEF Manifest
  <2> QED
    BY <2>1 DEF ManifestSound
<1>12. PlanSound(dir)
  BY <1>5 DEF PlanSound, Obliged
<1>13. ResultsSound(dir)
  BY <1>5, <1>6, <1>9 DEF ResultsSound, OwnFiles, HasSources
<1>14. LineageSound(dir)
  BY <1>6 DEF LineageSound
<1>15. LinksSound(dir)
  <2>1. Cardinality(RawLinks(o)) = Cardinality(Linked(o))
    BY LinksCounted DEF Excused, o
  <2>2. ASSUME NEW h \in Linked(o)
        PROVE  Rests(dir, {PairOf[h]}, Evidence(g, {PairOf[h]}))
    <3>1. PICK t \in Compared(o) : h \in HandlersOf[t]
      BY DEF Linked, RawLinks
    <3>2. t \in Task
      BY TasksAssumption DEF Compared
    <3>3. PairOf[h] \in PairSet(t)
      BY <3>1, <3>2, TasksAssumption
    <3>4. PairOf[h] \in Planned(o)
      BY <3>1, <3>3 DEF Planned
    <3> QED
      BY <1>5, <1>6, <3>4, EvidenceRests
  <2> QED
    BY <1>5, <1>8, <2>1, <2>2 DEF LinksSound
<1>16. ClassesSound(dir)
  <2>1. [p \in DOMAIN dir["results"].rows |-> dir["results"].rows[p].run] = Runs(g)
    BY <1>6 DEF Runs
  <2>2. dir["classes"].rows = Classify(dir["plan"].pairs, Runs(g))
    BY <1>5, <1>7 DEF Classes, o
  <2>3. ASSUME NEW t \in Task
        PROVE  /\ Rests(dir, TaskRow(g, t).pairs, TaskRow(g, t).evidence)
               /\ TaskRow(g, t).class = TaskClass(t, TaskRow(g, t).how, Classes(g))
               /\ TaskRow(g, t).verified = HashesAgree(TaskRow(g, t).how)
    <3> DEFINE pairs == IF t \in Compared(o) THEN PairSet(t) ELSE {}
    <3>1. TaskRow(g, t) = [how |-> o[t], pairs |-> pairs, evidence |-> Evidence(g, pairs),
                           class |-> TaskClass(t, o[t], Classes(g)),
                           verified |-> InputsVerified(o[t])]
      BY DEF TaskRow, o
    <3>2. pairs \subseteq Planned(o)
      BY DEF Planned
    <3> HIDE DEF pairs
    <3>3. Rests(dir, pairs, Evidence(g, pairs))
      BY <1>5, <1>6, <3>2, EvidenceRests
    <3>4. InputsVerified(o[t]) = HashesAgree(o[t])
      <4>1. o[t] \in {"ran", "build_failed", "mutated"}
        BY <1>10 DEF Excused, Outcome, o
      <4> QED
        BY <4>1 DEF InputsVerified, HashesAgree
    <3> QED
      BY <3>1, <3>3, <3>4
  <2>4. \A t \in Task : dir["tasks"].rows[t] = TaskRow(g, t)
    BY <1>7 DEF Tasks
  <2>5. ASSUME NEW t \in Task
        PROVE  LET row == dir["tasks"].rows[t] IN
               /\ Rests(dir, row.pairs, row.evidence)
               /\ row.class = TaskClass(t, row.how, dir["classes"].rows)
               /\ row.verified = HashesAgree(row.how)
    BY <1>7, <2>3, <2>4
  <2>6. dir["classes"].rows =
          Classify(dir["plan"].pairs,
                   [p \in DOMAIN dir["results"].rows |-> dir["results"].rows[p].run])
    BY <2>1, <2>2
  <2> QED
    BY <2>5, <2>6 DEF ClassesSound
<1>17. seen[g].inputs.counts = CountsOf(g) /\ seen[g].inputs.policy = call[g].policy
  BY <1>4 DEF Manifest
<1>18. CountsSound(dir, seen[g])
  <2>1. dir["plan"] = Plan(g)
    BY <1>2
  <2> QED
    BY <1>6, <1>7, <1>17, <2>1 DEF CountsSound, CountsOf
<1>19. DecisionsSound(dir, seen[g])
  <2>1. dir["attestation"].parent = seen[g].content
    BY <1>3 DEF Attestation
  <2>2. dir["decisions"] = Decisions(call[g].policy, Classes(g), Tasks(g), CountsOf(g))
    BY <1>3 DEF DecisionsOf
  <2> QED
    BY <1>7, <1>17, <2>1, <2>2 DEF DecisionsSound
<1>20. \A f \in Required : dir[f] # Torn
  BY <1>1
<1> QED
  BY <1>11, <1>12, <1>13, <1>14, <1>15, <1>16, <1>18, <1>19, <1>20 DEF Consistent

LEMMA RaisesNext ==
  ASSUME Types, CallTypes, Holding, AtOnce = 1, \A g \in Gate : Untouched(g), RaisesExcused,
         [Next]_vars
  PROVE  RaisesExcused'
<1>1. ASSUME NEW g \in Gate, pc'[g] = "raised"
      PROVE  Excused(call'[g].outcome)
  <2>1. CASE pc[g] = "raised"
    <3>1. call'[g] = call[g]
      BY <2>1, CallStays
    <3> QED
      BY <2>1, <3>1 DEF RaisesExcused
  <2>2. CASE pc[g] # "raised"
    <3>1. Call(g) \/ Step(g) \/ Crash(g)
      BY <1>1, <2>2, Acting DEF Next, Pack, Damage, vars, OthersStay
    <3>2. ~ Write(g)
      <4>1. pc[g] \in Required => After(pc[g]) # "raised"
        BY AfterIs, RequiredIs
      <4> QED
        BY <1>1, <4>1 DEF Write, To, CallTypes
    <3>3. Verify(g) \/ Judge(g)
      <4>1. ~ Call(g) /\ ~ Crash(g)
        BY <1>1 DEF Call, Crash, To, CallTypes
      <4>2. ~ Check(g) /\ ~ Open(g) /\ ~ Obtained(g)
        BY <1>1, AfterIs, Places DEF Check, Open, Obtained, To, CallTypes
      <4>3. \A p \in Pair : ~ Reuse(g, p) /\ ~ Execute(g, p)
        BY <1>1, <2>2 DEF Reuse, Execute, To, CallTypes
      <4> QED
        BY <3>1, <3>2, <4>1, <4>2, <4>3 DEF Step
    <3>4. pc[g] \in {"verify", "judge"} /\ Past(g, 2) /\ Past(g, 3) /\ Past(g, 11)
      BY <3>3, Ranks DEF Verify, Judge, Past
    <3>5. \A f \in Required : Past(g, Rank[f])
      BY <3>4, Ranks DEF Past
    <3>6. OwnFiles(g)
      BY <3>4, <3>5 DEF Untouched, OwnFiles
    <3>7. Complete(g)
      BY <3>4 DEF Holding
    <3>8. ~ Verify(g)
      BY <1>1, <3>6, OwnFilesWhole DEF Verify, To, CallTypes
    <3>9. ~ Consistent(dir, seen[g]) /\ call' = call
      BY <1>1, <3>3, <3>8 DEF Judge, To, CallTypes
    <3> QED
      BY <3>6, <3>7, <3>9, OwnFilesConsistent
  <2> QED
    BY <2>1, <2>2
<1>2. \A x : Excused(x)' = Excused(x)
  BY DEF Excused, Failed, Compared
<1> QED
  BY <1>1, <1>2 DEF RaisesExcused
-----------------------------------------------------------------------------
(* The invariant *)

LEMMA Initially ==
  ASSUME Init
  PROVE  IInv /\ LInv
<1>1. Types
  <2>1. verdict \in Seq(Verdict) /\ Len(verdict) = 0
    BY DEF Init
  <2>2. store \in [Changed -> 0 .. Len(verdict)]
    BY <2>1 DEF Init
  <2>3. dir = [f \in Required |-> dir[f]] /\ work = {}
    BY DEF Init
  <2>4. clean \in BOOLEAN /\ exists \in BOOLEAN
    BY DEF Init
  <2>5. damage \in 0 .. MaxDamage
    BY BoundsAssumption DEF Init
  <2> QED
    BY <2>1, <2>2, <2>3, <2>4, <2>5 DEF Types
<1>2. CallTypes
  BY DEF Init, CallTypes, Stopped, Place
<1>3. ASSUME NEW g \in Gate
      PROVE  pc[g] = "idle" /\ got[g] = <<>> /\ answer[g] = None
  BY <1>3 DEF Init
<1>4. \A g \in Gate : \A n : ~ Past(g, n)
  BY <1>3, Ranks DEF Past, Stopped
<1>5. DOMAIN <<>> = {}
  OBVIOUS
<1>6. Holding
  BY <1>3, <1>4, <1>5 DEF Holding
<1>7. Making
  BY <1>3 DEF Making
<1>8. Files(dir) /\ archive = None
  BY RequiredIs DEF Init, Files, LineageSays, TasksSay, ManifestSays, AttestationSays
<1>9. Alone
  BY <1>3 DEF Alone, Alive, Stopped
<1>10. \A g \in Gate : Untouched(g)
  BY <1>3, <1>4 DEF Untouched
<1>11. RaisesExcused
  BY <1>3 DEF RaisesExcused
<1> QED
  BY <1>1, <1>2, <1>6, <1>7, <1>8, <1>9, <1>10, <1>11 DEF IInv, LInv

LEMMA Preserved ==
  ASSUME IInv, LInv, [Next]_vars
  PROVE  IInv' /\ LInv'
<1> USE DEF IInv, LInv
<1>1. Types' /\ CallTypes' /\ Holding' /\ Making'
  BY TypesNext, CallsNext, HoldingNext, MakingNext
<1>2. Files(dir)'
  BY FilesNext
<1>3. (archive # None => Files(archive.dir))'
  <2>1. archive' # None => Files(archive.dir)'
    BY ArchiveNext
  <2> QED
    BY <2>1 DEF None
<1>4. AtOnce = 1 => Alone'
  BY AloneNext
<1>5. AtOnce = 1 => \A g \in Gate : Untouched(g)'
  BY UntouchedNext
<1>6. AtOnce = 1 => RaisesExcused'
  BY RaisesNext
<1> QED
  BY <1>1, <1>2, <1>3, <1>4, <1>5, <1>6

(* The inductive invariant of the gate calls over one directory: what      *)
(* every file there says, when it is whole, some call wrote from evidence  *)
(* that was complete.                                                      *)
THEOREM Invariant == Spec => [](IInv /\ LInv)
<1>1. Init => IInv /\ LInv
  BY Initially
<1>2. (IInv /\ LInv) /\ [Next]_vars => (IInv /\ LInv)'
  BY Preserved
<1> QED
  BY <1>1, <1>2, PTL DEF Spec

(* The variables have their types, a call is made once, and what was       *)
(* answered stays answered for.                                            *)
THEOREM TypeCorrect == Spec => []TypeOK
<1>1. IInv => TypeOK
  <2> SUFFICES ASSUME IInv
               PROVE  TypeOK
    OBVIOUS
  <2>1. DOMAIN dir = Required
    BY DEF IInv, Types
  <2>2. {Writes[i] : i \in DOMAIN Writes} \cup {"check", "open", "judge"}
          = DOMAIN Rank \cup {"check", "open"}
    <3>1. \A i \in 1 .. 14 : i \in {1, 2, 3, 4, 5, 6, 7, 8, 9, 10, 11, 12, 13, 14}
      OBVIOUS
    <3>2. {Writes[i] : i \in 1 .. 14} = Required \cup {"obtain", "verify"}
      BY <3>1, Places, RequiredIs
    <3> QED
      BY <3>2, Places, Ranks
  <2>3. pc \in [Gate -> Stopped \cup {Writes[i] : i \in DOMAIN Writes}
                                \cup {"check", "open", "judge"}]
    BY <2>2 DEF IInv, CallTypes, Place
  <2>4. \A g \in Gate :
          /\ IF pc[g] = "idle" THEN call[g] = None /\ DOMAIN got[g] = {}
             ELSE call[g] \in MayCall /\ DOMAIN got[g] \subseteq ObligedOf(g)
          /\ pc[g] = "ended" <=> answer[g] # None
    BY DEF IInv, CallTypes, Holding
  <2> QED
    BY <2>1, <2>3, <2>4 DEF IInv, Types, TypeOK
<1> QED
  BY <1>1, Invariant, PTL
-----------------------------------------------------------------------------
(* What a bundle that verifies is made of *)

LEMMA AcceptedFiles ==
  ASSUME NEW d, NEW w, Files(d), Accepts(d, w)
  PROVE  /\ \A f \in Required : d[f] \notin {NoFile, Torn}
         /\ d["manifest"].content.manifest = d["manifest"].inputs
         /\ \A f \in Described : d["manifest"].content.files[f] = d[f]
<1>1. /\ \A f \in Required : d[f] \notin {NoFile, Torn}
      /\ d["manifest"].content = Content(d["manifest"].inputs, d, w)
  BY DEF Accepts, Whole, Consistent
<1> QED
  BY <1>1 DEF Content

\* The tasks of a call rest on the results beside which they verify.
LEMMA TasksRest ==
  ASSUME NEW d, NEW t \in Gate, Complete(t), d["tasks"] = [rows |-> Tasks(t)], ClassesSound(d),
         NEW p \in ObligedOf(t)
  PROVE  /\ p \in d["plan"].pairs /\ p \in DOMAIN d["results"].rows
         /\ d["results"].rows[p].run = got[t][p].run
<1> DEFINE o == call[t].outcome
<1>1. p \in Obliged(o) /\ p \in DOMAIN got[t]
  BY DEF ObligedOf, Complete
<1>2. PICK u \in Compared(o) : p \in PairSet(u)
  BY <1>1 DEF Obliged, Planned
<1>3. u \in Task
  BY TasksAssumption DEF Compared
<1>4. /\ TaskRow(t, u).pairs = PairSet(u) /\ TaskRow(t, u).evidence = Evidence(t, PairSet(u))
  BY DEF TaskRow
<1>5. d["tasks"].rows[u] = TaskRow(t, u)
  BY <1>3 DEF Tasks
<1>6. Rests(d, d["tasks"].rows[u].pairs, d["tasks"].rows[u].evidence)
  BY <1>3 DEF ClassesSound
<1>7. Rests(d, PairSet(u), Evidence(t, PairSet(u)))
  BY <1>4, <1>5, <1>6
<1>8. p \in DOMAIN Evidence(t, PairSet(u)) /\ Evidence(t, PairSet(u))[p] = got[t][p].run
  BY <1>1, <1>2 DEF Evidence
<1> QED
  BY <1>2, <1>7, <1>8 DEF Rests

\* Of one call g the lineage and its results, of a call t the tasks, of a call
\* h the policy.
MadeOf(d, g, t, h) ==
  LET classes == Classify(d["plan"].pairs, Runs(g)) IN
  /\ Complete(g) /\ Complete(t) /\ pc[h] # "idle"
  /\ d["lineage"] = [rows |-> got[g]]
  /\ DOMAIN d["results"].rows = DOMAIN got[g]
  /\ \A p \in DOMAIN got[g] : d["results"].rows[p].run = got[g][p].run
  /\ d["tasks"] = [rows |-> Tasks(t)]
  /\ \A p \in ObligedOf(t) : p \in DOMAIN got[g] /\ got[g][p].run = got[t][p].run
  /\ d["decisions"] = Decisions(call[h].policy, classes, Tasks(t),
                                Counts(d["plan"], got[g], classes))
  /\ AtOnce = 1 => g = t /\ t = h /\ d["environment"] = [captured |-> g]

\* Whose files they are, by the files alone.
LEMMA Writers ==
  ASSUME NEW d, NEW w, Files(d), Accepts(d, w)
  PROVE  \E g, t, h \in Gate :
           /\ Complete(g) /\ Complete(t) /\ pc[h] # "idle"
           /\ d["lineage"] = [rows |-> got[g]] /\ d["tasks"] = [rows |-> Tasks(t)]
           /\ d["manifest"].inputs.policy = call[h].policy
           /\ AtOnce = 1 => g = t /\ t = h /\ d["environment"] = [captured |-> g]
<1>1. /\ d["lineage"] \notin {NoFile, Torn} /\ d["tasks"] \notin {NoFile, Torn}
      /\ d["manifest"] \notin {NoFile, Torn}
  BY AcceptedFiles, RequiredIs
<1>2. PICK g \in Gate : Complete(g) /\ d["lineage"] = [rows |-> got[g]]
  BY <1>1 DEF Files, LineageSays
<1>3. PICK t \in Gate : Complete(t) /\ d["tasks"] = [rows |-> Tasks(t)]
  BY <1>1 DEF Files, TasksSay
<1>4. PICK h \in Gate : /\ pc[h] # "idle" /\ d["manifest"].inputs.policy = call[h].policy
                        /\ AtOnce = 1 => Own(d["manifest"].content.files, h)
  BY <1>1 DEF Files, ManifestSays
<1>5. CASE AtOnce = 1
  <2>1. /\ d["manifest"].content.files["lineage"] = d["lineage"]
        /\ d["manifest"].content.files["tasks"] = d["tasks"]
        /\ d["manifest"].content.files["environment"] = d["environment"]
    BY AcceptedFiles, RequiredIs
  <2>2. /\ Complete(h) /\ d["lineage"] = [rows |-> got[h]] /\ d["tasks"] = [rows |-> Tasks(h)]
        /\ d["environment"] = [captured |-> h]
    BY <1>4, <1>5, <2>1 DEF Own
  <2> QED
    BY <1>4, <2>2
<1>6. CASE AtOnce # 1
  BY <1>2, <1>3, <1>4, <1>6
<1> QED
  BY <1>5, <1>6

LEMMA WholeBundle ==
  ASSUME NEW d, NEW w, Files(d), Accepts(d, w)
  PROVE  \E g, t, h \in Gate : MadeOf(d, g, t, h)
<1>1. PICK g \in Gate, t \in Gate, h \in Gate :
        /\ Complete(g) /\ Complete(t) /\ pc[h] # "idle"
        /\ d["lineage"] = [rows |-> got[g]] /\ d["tasks"] = [rows |-> Tasks(t)]
        /\ d["manifest"].inputs.policy = call[h].policy
        /\ AtOnce = 1 => g = t /\ t = h /\ d["environment"] = [captured |-> g]
  BY Writers
<1>2. /\ LineageSound(d) /\ ClassesSound(d) /\ CountsSound(d, d["manifest"])
      /\ DecisionsSound(d, d["manifest"])
  BY DEF Accepts, Consistent
<1> DEFINE classes == Classify(d["plan"].pairs, Runs(g))
<1>3. d["lineage"].rows = got[g] /\ d["tasks"].rows = Tasks(t)
  BY <1>1
<1>4. /\ DOMAIN d["results"].rows = DOMAIN got[g]
      /\ \A p \in DOMAIN got[g] : d["results"].rows[p].run = got[g][p].run
  BY <1>2, <1>3 DEF LineageSound
<1>5. d["classes"].rows = classes
  <2>1. [p \in DOMAIN d["results"].rows |-> d["results"].rows[p].run] = Runs(g)
    BY <1>4 DEF Runs
  <2> QED
    BY <1>2, <2>1 DEF ClassesSound
<1>6. \A p \in ObligedOf(t) : p \in DOMAIN got[g] /\ got[g][p].run = got[t][p].run
  <2>1. \A p \in ObligedOf(t) : /\ p \in DOMAIN d["results"].rows
                                /\ d["results"].rows[p].run = got[t][p].run
    BY <1>1, <1>2, TasksRest
  <2> QED
    BY <1>4, <2>1
<1>7. d["decisions"] = Decisions(call[h].policy, classes, Tasks(t),
                                 Counts(d["plan"], got[g], classes))
  BY <1>1, <1>2, <1>3, <1>5 DEF CountsSound, DecisionsSound
<1> QED
  BY <1>1, <1>4, <1>6, <1>7 DEF MadeOf

(* A bundle that verifies has the lineage and results of one call, tasks   *)
(* as one call found them, resting on these, and the decisions the two     *)
(* deserve, whatever calls wrote into the directory, died there or ran at  *)
(* the same time.                                                          *)
THEOREM BundleWhole == Spec => []AcceptedWhole
<1>1. IInv => AcceptedWhole
  BY WholeBundle DEF IInv, AcceptedWhole, MadeOf
<1> QED
  BY <1>1, Invariant, PTL
-----------------------------------------------------------------------------
(* What strict lets pass *)

LEMMA TasksRan ==
  ASSUME NEW t, NEW classes, Passes(StrictAccepted, classes, Tasks(t)), NEW u \in Task
  PROVE  call[t].outcome[u] = "ran"
<1> DEFINE how == call[t].outcome[u]
<1>1. TaskRow(t, u).class \in TaskPasses /\ TaskRow(t, u).verified
  BY DEF Passes, Tasks
<1>2. TaskClass(u, how, Classes(t)) \in TaskPasses /\ InputsVerified(how)
  BY <1>1 DEF TaskRow
<1>3. how \in {"ran", "build_failed"}
  BY <1>2 DEF InputsVerified
<1>4. ASSUME how = "build_failed"
      PROVE  FALSE
  <2>1. TaskClass(u, how, Classes(t)) = "old_build_failed"
    BY <1>4 DEF TaskClass, HashesAgree
  <2> QED
    BY <1>2, <2>1 DEF TaskPasses
<1> QED
  BY <1>3, <1>4

\* The one classification of a changed pair that strict accepts.
LEMMA AcceptedVerdict ==
  ASSUME NEW v \in Verdict, v \in StrictAccepted
  PROVE  v = "equivalent_under_raw_model"
<1>1. PICK rows \in Rows, missing \in BOOLEAN, complete \in BOOLEAN :
        v = FinalClassification(RawClassification(rows, missing), complete)
  BY VerdictAssumption
<1>2. RawClassification(rows, missing) \in
        {"missing_evidence", "confirmed_non_equivalent", "blaster_falsified_unreplayed",
         "bounded_equivalent", "equivalent_under_raw_model", "unsupported", "timeout",
         "inconclusive"}
  BY DEF RawClassification
<1>3. v \in
        {"missing_evidence", "confirmed_non_equivalent", "blaster_falsified_unreplayed",
         "bounded_equivalent", "equivalent_under_raw_model", "unsupported", "timeout",
         "inconclusive", "off_ledger_difference"}
  BY <1>1, <1>2 DEF FinalClassification
<1> QED
  BY <1>3 DEF StrictAccepted

\* What strict decides for in a bundle that verifies, its results deserve.
LEMMA StrictBundle ==
  ASSUME Types, Holding, NEW d, NEW w, Accepts(d, w), d["decisions"].strict,
         NEW t \in Gate, Complete(t), d["tasks"] = [rows |-> Tasks(t)]
  PROVE  Deserves(call[t].outcome, Found(d))
<1>1. ClassesSound(d) /\ DecisionsSound(d, d["manifest"])
  BY DEF Accepts, Consistent
<1>2. Passes(StrictAccepted, d["classes"].rows, Tasks(t))
  BY <1>1 DEF DecisionsSound, Decisions
<1>3. \A u \in Task : call[t].outcome[u] = "ran"
  BY <1>2, TasksRan
<1>4. ASSUME NEW p \in Obliged(call[t].outcome)
      PROVE  p \in DOMAIN Found(d) /\ verdict[Found(d)[p]] = "equivalent_under_raw_model"
  <2>1. p \in ObligedOf(t) /\ p \in Changed /\ p \in DOMAIN got[t]
    BY DEF ObligedOf, Obliged, Complete
  <2>2. /\ p \in d["plan"].pairs /\ p \in DOMAIN d["results"].rows
        /\ d["results"].rows[p].run = got[t][p].run
    BY <1>1, <2>1, TasksRest
  <2>3. p \in DOMAIN Found(d) /\ Found(d)[p] = got[t][p].run
    BY <2>2 DEF Found
  <2>4. got[t][p].run \in 1 .. Len(verdict)
    BY <2>1 DEF Holding
  <2>5. d["classes"].rows = Classify(d["plan"].pairs, Found(d))
    BY <1>1 DEF ClassesSound, Found
  <2>6. p \in DOMAIN d["classes"].rows /\ d["classes"].rows[p] = verdict[Found(d)[p]]
    BY <2>1, <2>2, <2>5 DEF Classify
  <2>7. verdict[Found(d)[p]] \in StrictAccepted
    BY <1>2, <2>6 DEF Passes
  <2>8. verdict[Found(d)[p]] \in Verdict
    BY <2>3, <2>4 DEF Types
  <2> QED
    BY <2>3, <2>7, <2>8, AcceptedVerdict
<1> QED
  BY <1>3, <1>4 DEF Deserves

\* And what a call answers, its evidence.
LEMMA StrictAnswer ==
  ASSUME Types, Holding, NEW g \in Gate, answer[g] # None, answer[g].decisions.strict
  PROVE  Deserves(call[g].outcome, Runs(g))
<1>1. Complete(g) /\ answer[g].decisions = DecisionsOf(g)
  BY DEF Holding
<1>2. Passes(StrictAccepted, Classes(g), Tasks(g))
  BY <1>1 DEF DecisionsOf, Decisions
<1>3. \A u \in Task : call[g].outcome[u] = "ran"
  BY <1>2, TasksRan
<1>4. ASSUME NEW p \in Obliged(call[g].outcome)
      PROVE  p \in DOMAIN Runs(g) /\ verdict[Runs(g)[p]] = "equivalent_under_raw_model"
  <2>1. p \in Planned(call[g].outcome) /\ p \in Changed /\ p \in DOMAIN got[g]
    BY <1>1 DEF ObligedOf, Obliged, Complete
  <2>2. p \in DOMAIN Runs(g) /\ Runs(g)[p] \in 1 .. Len(verdict)
    BY <2>1 DEF Holding, Runs
  <2>3. p \in DOMAIN Classes(g) /\ Classes(g)[p] = verdict[Runs(g)[p]]
    BY <2>1 DEF Classes, Classify
  <2>4. verdict[Runs(g)[p]] \in StrictAccepted
    BY <1>2, <2>3 DEF Passes
  <2>5. verdict[Runs(g)[p]] \in Verdict
    BY <2>2 DEF Types
  <2> QED
    BY <2>2, <2>4, <2>5, AcceptedVerdict
<1> QED
  BY <1>3, <1>4 DEF Deserves

(* Strict passes, in a bundle that verifies and in an answer, only when    *)
(* every task ran to its end on unchanged inputs and a solver run proved   *)
(* every changed pair equivalent.                                          *)
THEOREM StrictSound == Spec => []StrictEarned
<1>1. ASSUME IInv, Accepts(dir, work), dir["decisions"].strict
      PROVE  \E t \in Gate : pc[t] # "idle" /\ Deserves(call[t].outcome, Found(dir))
  <2>1. PICK t \in Gate : Complete(t) /\ dir["tasks"] = [rows |-> Tasks(t)]
    BY <1>1, Writers DEF IInv
  <2> QED
    BY <1>1, <2>1, StrictBundle DEF IInv, Complete
<1>2. ASSUME IInv, NEW g \in Gate, answer[g] # None, answer[g].decisions.strict
      PROVE  Deserves(call[g].outcome, Runs(g))
  BY <1>2, StrictAnswer DEF IInv
<1>3. IInv => StrictEarned
  BY <1>1, <1>2 DEF StrictEarned
<1> QED
  BY <1>3, Invariant, PTL

(* A lone call raises only over a task of its own that failed or over two  *)
(* children with a handler in common, whatever earlier calls left behind.  *)
THEOREM RaisesSound == Spec => []RaisesExcused
<1>1. LInv => RaisesExcused
  BY DEF LInv, RaisesExcused
<1> QED
  BY <1>1, Invariant, PTL

(* What is publishable is clean, a call of trusted CI attested it under    *)
(* the strict policy, and strict accepts what a call found; one call, when *)
(* calls do not overlap.                                                   *)
THEOREM PublishedSound == Spec => []PublishedEarned
<1>1. ASSUME IInv, Publishable(archive)
      PROVE  /\ clean
             /\ \E g, t \in Gate :
                  /\ pc[g] # "idle" /\ call[g].trusted /\ call[g].policy = "strict"
                  /\ pc[t] # "idle" /\ Deserves(call[t].outcome, Found(archive.dir))
                  /\ AtOnce = 1 => g = t /\ archive.dir["environment"] = [captured |-> g]
  <2> DEFINE d == archive.dir
             w == archive.work
  <2>1. Types /\ Holding /\ Files(d) /\ Accepts(d, w)
    BY <1>1 DEF IInv, Publishable
  <2>2. /\ d["attestation"].trusted /\ d["manifest"].inputs.policy = "strict"
        /\ d["manifest"].inputs.clean /\ d["decisions"].strict
    BY <1>1 DEF Publishable
  <2> HIDE DEF d, w
  <2>3. d["manifest"].inputs.clean = clean /\ d["attestation"].parent = d["manifest"].content
    BY <2>1 DEF Accepts, Consistent, ManifestSound, DecisionsSound
  <2>4. d["attestation"] \notin {NoFile, Torn}
    BY <2>1, AcceptedFiles, RequiredIs
  <2>5. PICK g \in Gate : /\ pc[g] # "idle" /\ d["attestation"].trusted = call[g].trusted
                          /\ d["attestation"].parent.manifest.policy = call[g].policy
                          /\ AtOnce = 1 => Own(d["attestation"].parent.files, g)
    BY <2>1, <2>4 DEF Files, AttestationSays
  <2>6. call[g].trusted /\ call[g].policy = "strict"
    <3>1. d["attestation"].parent.manifest = d["manifest"].inputs
      BY <2>1, <2>3, AcceptedFiles
    <3> QED
      BY <2>2, <2>5, <3>1
  <2>7. CASE AtOnce = 1
    <3>1. \A f \in Described : d["attestation"].parent.files[f] = d[f]
      BY <2>1, <2>3, AcceptedFiles
    <3>2. Complete(g) /\ d["tasks"] = [rows |-> Tasks(g)] /\ d["environment"] = [captured |-> g]
      BY <2>5, <2>7, <3>1, RequiredIs DEF Own
    <3>3. Deserves(call[g].outcome, Found(d))
      BY <2>1, <2>2, <3>2, StrictBundle
    <3> QED
      BY <2>2, <2>3, <2>5, <2>6, <3>2, <3>3 DEF d
  <2>8. CASE AtOnce # 1
    <3>1. PICK t \in Gate : Complete(t) /\ d["tasks"] = [rows |-> Tasks(t)]
      BY <2>1, Writers
    <3>2. pc[t] # "idle" /\ Deserves(call[t].outcome, Found(d))
      BY <2>1, <2>2, <3>1, StrictBundle DEF Complete
    <3> QED
      BY <2>2, <2>3, <2>5, <2>6, <2>8, <3>2 DEF d
  <2> QED
    BY <2>7, <2>8
<1>2. IInv => PublishedEarned
  BY <1>1 DEF PublishedEarned
<1> QED
  BY <1>2, Invariant, PTL
=============================================================================
