-------------------------- MODULE PackageRun_proofs --------------------------
(***************************************************************************)
(* Safety of PackageRun for any package, any builds and any number of      *)
(* calls and faults: no report passes a pair that differs, no call takes   *)
(* evidence away, and a call that resumes or selects pairs reports the     *)
(* backend runs that are there.                                            *)
(***************************************************************************)
EXTENDS PackageRun, TLAPS

Before == {"idle", "open", "prepare", "build"}
Writing == {"rows", "summary", "run", "validate", "run again", "summary again"}

\* A row that passes is about a pair that does not differ.
Honest(p, row) == row # NoRow /\ row.status \in Passing => p \notin differs

\* The reports of a bundle: its sealed rows and its aggregate are honest, and
\* a summary that passes judged at least one pair, and only passing ones.
Judged(b) == {p \in DOMAIN b.aggregate : b.aggregate[p] # NoRow}
Sound(b) ==
  /\ \A p \in Pair : b.rows[p] # NoRow /\ b.rows[p].sealed => Honest(p, b.rows[p])
  /\ \A p \in Judged(b) : Honest(p, b.aggregate[p])
  /\ b.summary = "pass" =>
       Judged(b) # {} /\ \A p \in Judged(b) : b.aggregate[p].status \in Passing

\* What a call holds in memory is sealed and honest.
Held ==
  /\ \A p \in Pair : cached[p] # NoRow => cached[p].sealed /\ Honest(p, cached[p])
  /\ \A p \in Pair : results[p] # NoRow => results[p].sealed /\ Honest(p, results[p])

\* The place of a call: what it has found and judged, and what of its bundle
\* is written.
Placed ==
  /\ pc \in Before => found = {} /\ todo = {} /\ results = NoRows
  /\ pc = "prepare" => bundle = Absent
  /\ pc \notin {"idle", "open", "prepare"} => bundle # Absent
  /\ pc = "pairs" => todo \subseteq found /\ \A p \in Pair : results[p] # NoRow <=> p \in found \ todo
  /\ pc = "aggregate" => todo = {} /\ found = {} /\ results = NoRows
  /\ pc \in {"build", "pairs", "aggregate"} => bundle.rows = NoRows /\ bundle.summary = "none"
  /\ pc \in Writing =>
       bundle.aggregate = results /\ \A p \in Pair : results[p] # NoRow <=> p \in found
  /\ pc = "rows" =>
       /\ bundle.summary = "none"
       /\ \A p \in todo : results[p] # NoRow /\ bundle.rows[p] = NoRow
  /\ pc = "run" => bundle.summary # "none"
  /\ pc # "idle" => calls # 0
  /\ answer # "none" => pc = "idle"
  /\ answer = "pass" => bundle # Absent /\ bundle.summary = "pass"

IInv ==
  /\ TypeOK /\ Placed /\ Held
  /\ bundle # Absent => Sound(bundle)
  /\ \A n \in DOMAIN attempts : Sound(attempts[n])
-----------------------------------------------------------------------------
\* No placeholder is taken for what it stands for, and a new bundle is one.
LEMMA Placeholders ==
  /\ Absent \notin Bundle /\ NoRow \notin Row
  /\ NoRows \in Rows /\ Empty \in Bundle /\ Empty.rows = NoRows
  /\ Empty.summary = "none" /\ Judged(Empty) = {}
<1>1. Absent \notin Bundle /\ NoRow \notin Row
  BY DEF Absent, Bundle, NoRow, Row, Status
<1>2. NoRows \in Rows
  BY DEF NoRows, Rows
<1>3. Empty \in Bundle
  BY <1>2 DEF Empty, Bundle
<1>4. Empty.rows = NoRows /\ Empty.summary = "none" /\ Judged(Empty) = {}
  BY DEF Empty, Judged, NoAggregate
<1> QED
  BY <1>1, <1>2, <1>3, <1>4

\* Nothing is in memory between two calls.
LEMMA Forgotten ==
  NoRows \in Rows /\ NoCall \in [resume: BOOLEAN, force: BOOLEAN, only: SUBSET Pair]
BY DEF NoRows, Rows, NoCall

\* One more, up to a bound.
LEMMA OneMore ==
  ASSUME NEW max \in Nat, NEW n \in 0 .. max, n < max PROVE n + 1 \in 0 .. max
OBVIOUS

\* What the last attempt can be: there is one, and it is a bundle.
LEMMA LastAttempt ==
  ASSUME TypeOK, attempts # <<>>
  PROVE  attempts[Len(attempts)] \in Bundle /\ Len(attempts) \in DOMAIN attempts
BY DEF TypeOK

\* What the end of a call leaves has its type.
LEMMA EndTypes ==
  ASSUME NEW value \in {"none", "raised", "pass", "fail"}, End(value)
  PROVE  /\ pc' \in Place /\ moved' \in BOOLEAN /\ seq' \in Nat \ {0}
         /\ call' \in [resume: BOOLEAN, force: BOOLEAN, only: SUBSET Pair]
         /\ cached' \in Rows /\ results' \in Rows /\ found' \subseteq Pair /\ todo' \subseteq Pair
         /\ answer' \in {"none", "raised", "pass", "fail"}
<1>1. pc' \in Place /\ seq' \in Nat \ {0}
  BY DEF End, Forget, Goto, Place
<1>2. moved' \in BOOLEAN
  BY DEF End, Forget
<1>3. /\ call' \in [resume: BOOLEAN, force: BOOLEAN, only: SUBSET Pair]
      /\ cached' \in Rows /\ results' \in Rows
  BY Forgotten DEF End, Forget
<1>4. found' \subseteq Pair /\ todo' \subseteq Pair
  BY DEF End, Forget
<1>5. answer' \in {"none", "raised", "pass", "fail"}
  BY DEF End
<1> QED
  BY <1>1, <1>2, <1>3, <1>4, <1>5

\* A call that ends, with any answer but a passing one that is not written.
LEMMA EndKeeps ==
  ASSUME IInv, NEW value \in {"none", "raised", "pass", "fail"}, End(value),
         value = "pass" => bundle # Absent /\ bundle.summary = "pass",
         UNCHANGED <<differs, bundle, attempts, calls, faults>>
  PROVE  IInv'
<1>1. /\ pc' = "idle" /\ call' = NoCall /\ answer' = value /\ moved' = FALSE
      /\ seq' = 1 /\ cached' = NoRows /\ found' = {} /\ todo' = {} /\ results' = NoRows
  BY DEF End, Forget, Goto
<1>2. TypeOK'
  <2>1. /\ differs' \subseteq Changed /\ bundle' \in Bundle \cup {Absent}
        /\ attempts' \in Seq(Bundle) /\ calls' \in 0 .. MaxCalls /\ faults' \in 0 .. MaxFaults
    BY DEF IInv, TypeOK
  <2> QED
    BY <2>1, EndTypes DEF TypeOK
<1>3. Placed'
  BY <1>1 DEF Placed, Before, Writing
<1>4. Held'
  BY <1>1 DEF Held, NoRows
<1> QED
  BY <1>2, <1>3, <1>4 DEF IInv, Sound, Honest

LEMMA RaiseKeeps ==
  ASSUME IInv, Raise, UNCHANGED <<differs, calls, faults>> PROVE IInv'
BY EndKeeps DEF Raise

\* What an earlier bundle is worth to a call.
LEMMA LoadedHeld ==
  ASSUME IInv, bundle # Absent
  PROVE  /\ Loaded(bundle) \in Rows
         /\ \A p \in Pair : Loaded(bundle)[p] # NoRow =>
              Loaded(bundle)[p].sealed /\ Honest(p, Loaded(bundle)[p])
<1>1. bundle \in Bundle /\ bundle.rows \in Rows
  BY DEF IInv, TypeOK, Bundle
<1> QED
  BY <1>1 DEF IInv, Loaded, Rows, Sound
-----------------------------------------------------------------------------
LEMMA InitInv == Init => IInv
<1> SUFFICES ASSUME Init PROVE IInv
  OBVIOUS
<1>1. TypeOK
  <2>1. calls \in 0 .. MaxCalls /\ faults \in 0 .. MaxFaults
    BY PackageAssumption DEF Init
  <2>2. attempts \in Seq(Bundle) /\ bundle \in Bundle \cup {Absent}
    BY DEF Init
  <2>3. pc \in Place /\ seq \in Nat \ {0} /\ found \subseteq Pair /\ todo \subseteq Pair
    BY DEF Init, Place
  <2> QED
    BY <2>1, <2>2, <2>3, Forgotten DEF Init, TypeOK
<1>2. Placed
  BY DEF Init, Placed, Before, Writing
<1>3. Held
  BY DEF Init, Held, NoRows
<1> QED
  BY <1>1, <1>2, <1>3 DEF Init, IInv

LEMMA CallInv == IInv /\ Call => IInv'
<1> SUFFICES ASSUME IInv, Call PROVE IInv'
  OBVIOUS
<1>1. TypeOK'
  <2>1. calls' \in 0 .. MaxCalls
    BY OneMore, PackageAssumption DEF IInv, TypeOK, Call
  <2>2. call' \in [resume: BOOLEAN, force: BOOLEAN, only: SUBSET Pair]
    BY DEF Call
  <2> QED
    BY <2>1, <2>2 DEF IInv, TypeOK, Call, Goto, Place, local
<1>2. calls' # 0
  BY PackageAssumption DEF IInv, TypeOK, Call
<1>3. Placed'
  BY <1>2 DEF IInv, Placed, Call, Goto, Before, Writing, local
<1> QED
  BY <1>1, <1>3 DEF IInv, Call, Held, Sound, Honest, local

LEMMA OpenInv == IInv /\ (OpenFresh \/ ReturnReused \/ Refuse) => IInv'
<1> SUFFICES ASSUME IInv, OpenFresh \/ ReturnReused \/ Refuse PROVE IInv'
  OBVIOUS
<1>1. CASE OpenFresh
  <2>1. TypeOK' /\ Placed'
    BY <1>1 DEF IInv, TypeOK, Placed, OpenFresh, Goto, Before, Writing, Place, local
  <2> QED
    BY <1>1, <2>1 DEF IInv, OpenFresh, Held, Sound, Honest, local
<1>2. CASE ReturnReused
  <2>1. bundle.summary \in {"pass", "fail"} /\ bundle # Absent
    BY <1>2 DEF IInv, TypeOK, ReturnReused, Reusable, Bundle
  <2> QED
    BY <1>2, <2>1, EndKeeps DEF ReturnReused
<1>3. CASE Refuse
  BY <1>3, RaiseKeeps DEF Refuse
<1> QED
  BY <1>1, <1>2, <1>3

LEMMA MoveAsideInv == IInv /\ MoveAside => IInv'
<1> SUFFICES ASSUME IInv, MoveAside PROVE IInv'
  OBVIOUS
<1>1. /\ bundle \in Bundle /\ bundle # Absent /\ attempts' = Append(attempts, bundle)
      /\ bundle' = Absent /\ moved' = TRUE /\ seq' = Len(attempts) + 2 /\ pc' = "prepare"
      /\ cached' = Loaded(bundle) \/ cached' = NoRows
      /\ UNCHANGED <<differs, call, found, todo, results, answer, calls, faults>>
  BY DEF IInv, TypeOK, MoveAside, MoveTo, Goto
<1>2. /\ attempts \in Seq(Bundle) /\ attempts' \in Seq(Bundle) /\ attempts' # <<>>
      /\ seq' \in Nat \ {0}
      /\ \A n \in DOMAIN attempts' :
           attempts'[n] = bundle \/ (n \in DOMAIN attempts /\ attempts'[n] = attempts[n])
  BY <1>1 DEF IInv, TypeOK
<1>3. TypeOK'
  BY <1>1, <1>2, Placeholders, LoadedHeld DEF IInv, TypeOK, Place
<1>4. Placed'
  BY <1>1, <1>2 DEF IInv, Placed, MoveAside, MoveTo, Before, Writing
<1>5. Held'
  BY <1>1, LoadedHeld DEF IInv, Held, Honest, NoRows
<1>6. \A n \in DOMAIN attempts' : Sound(attempts[n])'
  BY <1>1, <1>2 DEF IInv, Sound, Honest
<1> QED
  BY <1>1, <1>3, <1>4, <1>5, <1>6 DEF IInv

LEMMA PrepareInv == IInv /\ Prepare => IInv'
<1> SUFFICES ASSUME IInv, Prepare PROVE IInv'
  OBVIOUS
<1>1. /\ bundle' = Empty /\ pc' = "build" /\ bundle' # Absent
      /\ UNCHANGED <<differs, attempts, call, answer, calls, faults, local>>
  BY Placeholders DEF Prepare, Goto
<1>2. TypeOK'
  BY <1>1, Placeholders DEF IInv, TypeOK, Place, local
<1>3. Placed'
  BY <1>1, Placeholders DEF IInv, Placed, Prepare, Before, Writing, local
<1>4. Sound(bundle)'
  BY <1>1, Placeholders DEF Sound, NoRows
<1> QED
  BY <1>1, <1>2, <1>3, <1>4 DEF IInv, Held, Sound, Honest, local

LEMMA BuildInv == IInv /\ (Build \/ BuildFails \/ BuildRaises) => IInv'
<1> SUFFICES ASSUME IInv, Build \/ BuildFails \/ BuildRaises PROVE IInv'
  OBVIOUS
<1>1. CASE Raise /\ UNCHANGED <<differs, calls, faults>>
  BY <1>1, RaiseKeeps
<1>2. CASE BuildFails
  <2>1. TypeOK' /\ Placed'
    BY <1>2 DEF IInv, TypeOK, Placed, BuildFails, Goto, Before, Writing, Place, local
  <2> QED
    BY <1>2, <2>1 DEF IInv, BuildFails, Held, Sound, Honest, local
<1>3. ASSUME NEW f \in Builds, found' = f, todo' = f, Goto("pairs"), pc = "build",
             UNCHANGED <<bundle, attempts, call, moved, cached, seq, results, answer>>,
             UNCHANGED <<differs, calls, faults>>
      PROVE  IInv'
  <2>1. f \subseteq Pair
    BY PackageAssumption
  <2>2. TypeOK'
    BY <1>3, <2>1 DEF IInv, TypeOK, Goto, Place
  <2>3. Placed'
    BY <1>3 DEF IInv, Placed, Goto, Before, Writing, NoRows
  <2> QED
    BY <1>3, <2>2, <2>3 DEF IInv, Held, Sound, Honest
<1> QED
  BY <1>1, <1>2, <1>3 DEF Build, BuildRaises
-----------------------------------------------------------------------------
\* A result of one pair, with new sources beside it at most.
LEMMA ResultKeeps ==
  ASSUME IInv, NEW p \in Pair, Turn(p), NEW row \in Row, row.sealed, Honest(p, row),
         Result(p, row), NEW lean \in SUBSET Pair,
         bundle' = [bundle EXCEPT !.lean = lean]
  PROVE  IInv'
<1>1. /\ pc = "pairs" /\ p \in todo /\ todo \subseteq found /\ bundle \in Bundle
      /\ results' = [results EXCEPT ![p] = row] /\ todo' = todo \ {p}
      /\ UNCHANGED <<differs, attempts, pc, call, moved, cached, seq, found, answer,
                     calls, faults>>
  <2>1. pc = "pairs" /\ p \in todo
    BY DEF Turn, First
  <2> QED
    BY <2>1 DEF IInv, TypeOK, Placed, Result
<1>2. /\ bundle' \in Bundle /\ bundle' # Absent /\ bundle # Absent /\ bundle'.rows = bundle.rows
      /\ bundle'.summary = bundle.summary /\ bundle'.aggregate = bundle.aggregate
  BY <1>1, Placeholders DEF Bundle
<1>3. row # NoRow
  BY Placeholders
<1>4. TypeOK'
  BY <1>1, <1>2 DEF IInv, TypeOK, Rows
<1>5. Placed'
  BY <1>1, <1>2, <1>3 DEF IInv, TypeOK, Placed, Before, Writing, Rows
<1>6. Held'
  BY <1>1 DEF IInv, TypeOK, Held, Honest, Rows
<1>7. Sound(bundle)'
  BY <1>1, <1>2 DEF IInv, Sound, Judged, Honest
<1> QED
  BY <1>1, <1>4, <1>5, <1>6, <1>7 DEF IInv, Sound, Honest

LEMMA ReusePairInv == ASSUME IInv, NEW p \in Pair, ReusePair(p) PROVE IInv'
<1>1. PICK confirmed \in BOOLEAN :
        Result(p, [cached[p] EXCEPT
                     !.attempt = seq,
                     !.status = IF confirmed THEN "confirmed_non_equivalent" ELSE @])
  BY DEF ReusePair
<1> DEFINE row == [cached[p] EXCEPT
                     !.attempt = seq,
                     !.status = IF confirmed THEN "confirmed_non_equivalent" ELSE @]
<1>2. /\ cached[p] \in Row /\ cached[p].sealed /\ Honest(p, cached[p]) /\ cached[p] # NoRow
      /\ seq \in Nat \ {0}
  BY DEF IInv, TypeOK, Held, Rows, ReusePair, Reuses, Matches
<1>3. row \in Row /\ row.sealed
  BY <1>2 DEF Row, Status
<1>4. Honest(p, row)
  BY <1>2 DEF Honest, Row, Passing
<1>5. PICK lean \in SUBSET Pair : bundle' = [bundle EXCEPT !.lean = lean]
  <2>1. bundle' = [bundle EXCEPT !.lean = @ \cup ({p} \cap attempts[Len(attempts)].lean)]
    BY DEF ReusePair
  <2>2. bundle.lean \subseteq Pair
    BY DEF IInv, TypeOK, Placed, Bundle, ReusePair, Turn
  <2> QED
    BY <2>1, <2>2
<1> HIDE DEF row
<1> QED
  BY <1>1, <1>3, <1>4, <1>5, ResultKeeps DEF ReusePair, row

\* Both scripts are the same, or the solver's answer is sound.
LEMMA NewPairInv ==
  ASSUME IInv, NEW p \in Pair, IdenticalPair(p) \/ ComparePair(p) PROVE IInv'
<1>1. /\ bundle \in Bundle /\ seq \in Nat \ {0} /\ calls \in Nat
      /\ differs \subseteq Changed /\ Turn(p)
  BY PackageAssumption DEF IInv, TypeOK, Placed, IdenticalPair, ComparePair, Turn
<1>2. calls # 0 => \A s \in Status : SealedRow(s) \in Row /\ SealedRow(s).sealed
  BY <1>1 DEF SealedRow, Row
<1>3. calls # 0
  BY DEF IInv, Placed, IdenticalPair, ComparePair, Turn
<1>4. CASE IdenticalPair(p)
  <2>1. Honest(p, SealedRow("identical"))
    BY <1>1, <1>4 DEF Honest, IdenticalPair, Changed
  <2>2. bundle' = [bundle EXCEPT !.lean = bundle.lean] /\ bundle.lean \in SUBSET Pair
    BY <1>1, <1>4 DEF IdenticalPair, Bundle
  <2> QED
    BY <1>1, <1>2, <1>3, <1>4, <2>1, <2>2, ResultKeeps DEF IdenticalPair, Status
<1>5. CASE ComparePair(p)
  <2>1. PICK s \in Verdicts(p) : Result(p, SealedRow(s))
    BY <1>5 DEF ComparePair
  <2>2. s \in Status /\ (s \in Passing => p \notin differs)
    BY <2>1 DEF Verdicts, Verdict, Status, Passing
  <2>3. Honest(p, SealedRow(s))
    BY <2>2 DEF Honest, SealedRow
  <2>4. bundle' = [bundle EXCEPT !.lean = bundle.lean \cup {p}]
    BY <1>5 DEF ComparePair
  <2>5. bundle.lean \cup {p} \in SUBSET Pair
    BY <1>1 DEF Bundle
  <2> QED
    BY <1>1, <1>2, <1>3, <2>1, <2>2, <2>3, <2>4, <2>5, ResultKeeps
<1> QED
  BY <1>4, <1>5
-----------------------------------------------------------------------------
\* A report is written: what the bundle has then, and where the call goes on.
LEMMA WrittenKeeps ==
  ASSUME IInv, NEW b \in Bundle, NEW place \in Writing, Written(b, place),
         todo' \subseteq Pair, Placed', Sound(b)
  PROVE  IInv'
<1>1. /\ bundle' = b /\ pc' = place
      /\ UNCHANGED <<differs, attempts, call, moved, cached, seq, found, results,
                     answer, calls, faults>>
  BY DEF Written, Goto
<1>2. TypeOK'
  BY <1>1 DEF IInv, TypeOK, Writing, Place
<1> QED
  BY <1>1, <1>2 DEF IInv, Held, Sound, Honest

LEMMA WriteAggregateInv == IInv /\ WriteAggregate => IInv'
<1> SUFFICES ASSUME IInv, WriteAggregate PROVE IInv'
  OBVIOUS
<1> DEFINE b == [bundle EXCEPT !.aggregate = results]
<1>1. /\ Written(b, "rows") /\ bundle \in Bundle /\ results \in Rows
      /\ todo' = {p \in Pair : results[p] # NoRow} /\ todo = {}
      /\ bundle.rows = NoRows /\ bundle.summary = "none" /\ calls # 0 /\ answer = "none"
      /\ \A p \in Pair : results[p] # NoRow <=> p \in found
  BY DEF IInv, TypeOK, Placed, WriteAggregate, NoRows
<1>2. /\ b \in Bundle /\ b.aggregate = results /\ b.rows = NoRows /\ b.summary = "none"
      /\ b # Absent
  BY <1>1, Placeholders DEF Bundle
<1>3. Sound(b)
  BY <1>1, <1>2 DEF IInv, Sound, Judged, Held, Rows, NoRows
<1> HIDE DEF b
<1>4. Placed'
  BY <1>1, <1>2 DEF Placed, Written, Goto, Before, Writing, NoRows
<1> QED
  BY <1>1, <1>2, <1>3, <1>4, WrittenKeeps DEF Writing

LEMMA WriteRowInv == ASSUME IInv, NEW p \in Pair, WriteRow(p) PROVE IInv'
<1> DEFINE b == [bundle EXCEPT !.rows[p] = results[p]]
<1>1. /\ Written(b, "rows") /\ bundle \in Bundle /\ results \in Rows /\ pc = "rows"
      /\ todo' = todo \ {p} /\ todo \subseteq Pair
      /\ bundle.summary = "none" /\ bundle.aggregate = results
  BY DEF IInv, TypeOK, Placed, WriteRow, Writing
<1>2. /\ b \in Bundle /\ b.aggregate = results /\ b.summary = "none" /\ b # Absent
      /\ b.rows = [bundle.rows EXCEPT ![p] = results[p]]
  BY <1>1, Placeholders DEF Bundle, Rows
<1>3. bundle.rows \in Rows
  BY <1>1 DEF Bundle
<1>4. Sound(b)
  BY <1>1, <1>2, <1>3 DEF IInv, Placed, Sound, Judged, Held, Rows
<1> HIDE DEF b
<1>5. Placed'
  BY <1>1, <1>2, <1>3 DEF IInv, Placed, Written, Goto, Before, Writing, Rows
<1> QED
  BY <1>1, <1>2, <1>4, <1>5, WrittenKeeps DEF Writing

LEMMA WriteSummaryInv == IInv /\ WriteSummary => IInv'
<1> SUFFICES ASSUME IInv, WriteSummary PROVE IInv'
  OBVIOUS
<1>1. PICK clean \in BOOLEAN :
        Written([bundle EXCEPT !.summary = IF StrictPass(clean) THEN "pass" ELSE "fail"], "run")
  BY DEF WriteSummary
<1> DEFINE b == [bundle EXCEPT !.summary = IF StrictPass(clean) THEN "pass" ELSE "fail"]
<1>2. /\ bundle \in Bundle /\ results \in Rows /\ bundle.aggregate = results
      /\ todo = {} /\ UNCHANGED todo /\ found \subseteq Pair /\ pc = "rows"
      /\ bundle # Absent
      /\ \A p \in Pair : results[p] # NoRow <=> p \in found
  BY DEF IInv, TypeOK, Placed, WriteSummary, Writing
<1>3. /\ b \in Bundle /\ b.aggregate = results /\ b.rows = bundle.rows /\ b # Absent
      /\ b.summary = "pass" => StrictPass(clean)
  BY <1>2, Placeholders DEF Bundle
<1>4. Judged(b) = found
  BY <1>2, <1>3 DEF Judged, Rows
<1>5. b.summary = "pass" => found # {} /\ \A p \in found : results[p].status \in Passing
  BY <1>3 DEF StrictPass
<1>6. Sound(b)
  BY <1>2, <1>3, <1>4, <1>5 DEF IInv, Sound, Held
<1> HIDE DEF b
<1>7. Placed'
  BY <1>1, <1>2, <1>3 DEF IInv, Placed, Written, Goto, Before, Writing, b
<1> QED
  BY <1>1, <1>2, <1>3, <1>6, <1>7, WrittenKeeps DEF Writing, b

LEMMA WriteRunInv == IInv /\ WriteRun => IInv'
<1> SUFFICES ASSUME IInv, WriteRun PROVE IInv'
  OBVIOUS
<1> DEFINE b == [bundle EXCEPT !.run = bundle.summary]
<1>1. /\ Written(b, "validate") /\ bundle \in Bundle /\ UNCHANGED todo /\ todo \subseteq Pair
      /\ pc = "run" /\ bundle.summary \in {"pass", "fail"}
  BY DEF IInv, TypeOK, Placed, WriteRun, Bundle
<1>2. /\ b \in Bundle /\ b.aggregate = bundle.aggregate /\ b.rows = bundle.rows
      /\ b.summary = bundle.summary /\ b # Absent
  BY <1>1, Placeholders DEF Bundle
<1>3. Sound(b)
  BY <1>1, <1>2, Placeholders DEF IInv, Sound, Judged
<1> HIDE DEF b
<1>4. Placed'
  BY <1>1, <1>2 DEF IInv, Placed, Written, Goto, Before, Writing
<1> QED
  BY <1>1, <1>2, <1>3, <1>4, WrittenKeeps DEF Writing

LEMMA WithdrawInv == IInv /\ Withdraw => IInv'
<1> SUFFICES ASSUME IInv, Withdraw PROVE IInv'
  OBVIOUS
<1>1. PICK b \in {[bundle EXCEPT !.summary = "fail"], [bundle EXCEPT !.run = "fail"]},
           place \in {"run again", "summary again"} :
        Written(b, place) /\ UNCHANGED todo
  BY DEF Withdraw, WithdrawThen
<1>2. bundle \in Bundle /\ pc \in Writing /\ pc # "rows" /\ todo \subseteq Pair
  BY DEF IInv, TypeOK, Placed, Withdraw, WithdrawThen, Writing
<1>3. /\ b \in Bundle /\ b.aggregate = bundle.aggregate /\ b.rows = bundle.rows
      /\ b.summary \in {bundle.summary, "fail"} /\ b # Absent
  <2>1. CASE b = [bundle EXCEPT !.summary = "fail"]
    BY <1>2, <2>1, Placeholders DEF Bundle
  <2>2. CASE b = [bundle EXCEPT !.run = "fail"]
    BY <1>2, <2>2, Placeholders DEF Bundle
  <2> QED
    BY <1>1, <2>1, <2>2
<1>4. Sound(b)
  BY <1>2, <1>3, Placeholders DEF IInv, Sound, Judged
<1>5. Placed'
  BY <1>1, <1>2, <1>3 DEF IInv, Placed, Written, Goto, Before, Writing
<1> QED
  BY <1>1, <1>2, <1>3, <1>4, <1>5, WrittenKeeps DEF Writing

LEMMA ReturnInv == IInv /\ (Return \/ ReturnWithdrawn) => IInv'
<1> SUFFICES ASSUME IInv, Return \/ ReturnWithdrawn PROVE IInv'
  OBVIOUS
<1>1. CASE Return
  <2>1. bundle # Absent /\ bundle.summary \in {"pass", "fail"}
    BY <1>1 DEF IInv, TypeOK, Placed, Return, Valid, Bundle
  <2> QED
    BY <1>1, <2>1, EndKeeps DEF Return
<1>2. CASE ReturnWithdrawn
  BY <1>2, EndKeeps DEF ReturnWithdrawn
<1> QED
  BY <1>1, <1>2
-----------------------------------------------------------------------------
\* A bundle that lost one of its last reports is as good as it was.
LEMMA CrashInv == IInv /\ Crash => IInv'
<1> SUFFICES ASSUME IInv, Crash PROVE IInv'
  OBVIOUS
<1>1. /\ pc' = "idle" /\ call' = NoCall /\ answer' = "none" /\ moved' = FALSE
      /\ seq' = 1 /\ cached' = NoRows /\ found' = {} /\ todo' = {} /\ results' = NoRows
      /\ UNCHANGED <<differs, attempts, calls>>
  BY DEF Crash, End, Forget, Goto
<1>2. \/ bundle' = bundle
      \/ bundle # Absent /\ bundle' = [bundle EXCEPT !.run = "torn"]
      \/ bundle # Absent /\ bundle' = [bundle EXCEPT !.summary = "none"]
  BY DEF IInv, Placed, Crash
<1>3. \/ bundle' = bundle
      \/ /\ bundle \in Bundle /\ bundle' \in Bundle
         /\ bundle'.rows = bundle.rows /\ bundle'.aggregate = bundle.aggregate
         /\ bundle'.summary \in {"none", bundle.summary}
  BY <1>2 DEF IInv, TypeOK, Bundle
<1>4. TypeOK'
  <2>1. faults' \in 0 .. MaxFaults
    BY OneMore, PackageAssumption DEF IInv, TypeOK, Crash
  <2>2. /\ differs' \subseteq Changed /\ attempts' \in Seq(Bundle) /\ calls' \in 0 .. MaxCalls
        /\ bundle' \in Bundle \cup {Absent}
    BY <1>1, <1>3 DEF IInv, TypeOK
  <2>3. End("none")
    BY DEF Crash
  <2> QED
    BY <2>1, <2>2, <2>3, EndTypes DEF TypeOK
<1>5. Placed' /\ Held'
  BY <1>1 DEF Placed, Before, Writing, Held, NoRows
<1>6. bundle' # Absent => Sound(bundle)'
  BY <1>1, <1>3, Placeholders DEF IInv, Sound, Judged, Honest
<1> QED
  BY <1>1, <1>4, <1>5, <1>6 DEF IInv, Sound, Honest

\* What damage does to the bundle: an edited row is no longer sealed.
LEMMA Damaged ==
  ASSUME IInv, Damage
  PROVE  /\ bundle \in Bundle /\ bundle' \in Bundle
         /\ bundle'.aggregate = bundle.aggregate /\ bundle'.summary = bundle.summary
         /\ \A p \in Pair :
              \/ bundle'.rows[p] = bundle.rows[p]
              \/ /\ bundle.rows[p] # NoRow /\ bundle'.rows[p] \in Row /\ ~bundle'.rows[p].sealed
                 /\ bundle'.rows[p].made = bundle.rows[p].made
<1>1. bundle \in Bundle /\ bundle.rows \in Rows
  BY DEF IInv, TypeOK, Damage, Bundle
<1>2. PICK p \in Pair :
       \/ /\ bundle.rows[p] # NoRow
          /\ bundle' = [bundle EXCEPT
               !.rows[p].sealed = FALSE,
               !.rows[p].status = "equivalent_under_raw_model"]
       \/ bundle' = [bundle EXCEPT !.lean = @ \ {p}]
  BY DEF Damage
<1>3. CASE bundle' = [bundle EXCEPT !.lean = @ \ {p}]
  BY <1>1, <1>3 DEF Bundle
<1>4. CASE /\ bundle.rows[p] # NoRow
           /\ bundle' = [bundle EXCEPT
               !.rows[p].sealed = FALSE,
               !.rows[p].status = "equivalent_under_raw_model"]
  <2> DEFINE row == [bundle.rows[p] EXCEPT !.sealed = FALSE,
                                           !.status = "equivalent_under_raw_model"]
             rows == [bundle.rows EXCEPT ![p] = row]
  <2>1. /\ bundle.rows[p] \in Row /\ row \in Row /\ ~row.sealed
        /\ row.made = bundle.rows[p].made
    BY <1>1, <1>4 DEF Rows, Row, Status
  <2>2. bundle' = [bundle EXCEPT !.rows = rows]
    BY <1>1, <1>4, <2>1 DEF Rows, Bundle, Row
  <2>3. rows \in Rows
    BY <1>1, <2>1 DEF Rows
  <2> HIDE DEF row, rows
  <2>4. /\ bundle' \in Bundle /\ bundle'.rows = rows
        /\ bundle'.aggregate = bundle.aggregate /\ bundle'.summary = bundle.summary
    BY <1>1, <2>2, <2>3 DEF Bundle
  <2>5. \A q \in Pair : rows[q] = bundle.rows[q] \/ (q = p /\ rows[q] = row)
    BY <1>1 DEF Rows, rows
  <2> QED
    BY <1>1, <1>4, <2>1, <2>4, <2>5
<1> QED
  BY <1>2, <1>3, <1>4

LEMMA DamageInv == IInv /\ Damage => IInv'
<1> SUFFICES ASSUME IInv, Damage PROVE IInv'
  OBVIOUS
<1>1. /\ UNCHANGED <<differs, attempts, pc, call, moved, cached, seq, found, todo, results,
                     answer, calls>>
      /\ faults' = faults + 1 /\ faults < MaxFaults
  BY DEF Damage, local
<1>2. TypeOK'
  <2>1. faults' \in 0 .. MaxFaults
    BY <1>1, OneMore, PackageAssumption DEF IInv, TypeOK
  <2> QED
    BY <1>1, <2>1, Damaged DEF IInv, TypeOK
<1>3. bundle.rows = NoRows => bundle'.rows = NoRows
  BY Damaged DEF NoRows, Bundle, Rows
<1>4. Placed'
  BY <1>1, <1>3, Damaged, Placeholders DEF IInv, TypeOK, Placed, Before, Writing
<1>5. Held'
  BY <1>1 DEF IInv, Held, Honest
<1>6. Sound(bundle)'
  BY <1>1, Damaged, Placeholders DEF IInv, Sound, Judged, Honest
<1> QED
  BY <1>1, <1>2, <1>4, <1>5, <1>6 DEF IInv, Sound, Honest

LEMMA RefusePairInv == ASSUME IInv, NEW p \in Pair, RefusePair(p) PROVE IInv'
BY RaiseKeeps DEF RefusePair

LEMMA StutterInv == IInv /\ UNCHANGED vars => IInv'
<1> SUFFICES ASSUME IInv, UNCHANGED vars PROVE IInv'
  OBVIOUS
<1> QED
  BY DEF IInv, TypeOK, Placed, Held, Sound, Honest, Judged, vars

\* The invariant holds in every state of every execution.
THEOREM Invariant == Spec => []IInv
<1>1. IInv /\ [Next]_vars => IInv'
  BY CallInv, OpenInv, MoveAsideInv, PrepareInv, BuildInv, ReusePairInv, RefusePairInv,
     NewPairInv, WriteAggregateInv, WriteRowInv, WriteSummaryInv, WriteRunInv, WithdrawInv,
     ReturnInv, CrashInv, DamageInv, StutterInv DEF Next, Step
<1> QED
  BY InitInv, <1>1, PTL DEF Spec
-----------------------------------------------------------------------------
\* The variables of compare_package have their types.
THEOREM TypesCorrect == Spec => []TypeOK
BY Invariant, PTL DEF IInv

\* No report that passes, on disk, moved aside or returned, is about a pair
\* that differs, after any calls, crashes and damage (compare_package).
THEOREM PassesAreTrue == Spec => []StrictTrue
<1>1. ASSUME IInv PROVE StrictTrue
  <2>1. ASSUME NEW b \in Reports, b.summary = "pass"
        PROVE  Judged(b) # {} /\ Judged(b) \cap differs = {}
               /\ \A p \in Judged(b) : b.aggregate[p].status \in Passing
    <3>1. Sound(b)
      BY <1>1 DEF IInv, Reports
    <3> QED
      BY <2>1, <3>1 DEF Sound, Honest, Judged
  <2> QED
    BY <1>1, <2>1 DEF StrictTrue, Judged, IInv, Placed
<1> QED
  BY Invariant, <1>1, PTL
-----------------------------------------------------------------------------
\* Evidence stays when every report has a successor that has its rows.
LEMMA EvidenceGrows ==
  ASSUME \A b \in Reports : \E c \in Reports' : \A p \in Pair :
           b.rows[p] # NoRow /\ b.rows[p].sealed => c.rows[p] = b.rows[p]
  PROVE  Evidence \subseteq Evidence'
<1> SUFFICES ASSUME NEW e \in Evidence PROVE e \in Evidence'
  OBVIOUS
<1>1. PICK b \in Reports, p \in Pair :
        b.rows[p] # NoRow /\ b.rows[p].sealed /\ e = <<p, b.rows[p].made>>
  BY DEF Evidence
<1>2. PICK c \in Reports' : c.rows[p] = b.rows[p]
  BY <1>1
<1> QED
  BY <1>1, <1>2 DEF Evidence

\* The bundle gets more rows, or is moved aside; the attempts stay.
LEMMA StepKeepsRows ==
  ASSUME IInv, Next, faults' = faults
  PROVE  \/ UNCHANGED <<bundle, attempts>>
         \/ bundle = Absent /\ UNCHANGED attempts
         \/ bundle # Absent /\ attempts' = Append(attempts, bundle)
         \/ /\ bundle \in Bundle /\ bundle' \in Bundle /\ UNCHANGED attempts
            /\ \A p \in Pair : bundle.rows[p] # NoRow => bundle'.rows[p] = bundle.rows[p]
<1>1. faults \in Nat
  BY PackageAssumption DEF IInv, TypeOK
<1>2. ~Crash /\ ~Damage
  <2>1. Crash \/ Damage => faults' = faults + 1
    BY DEF Crash, Damage
  <2> QED
    BY <1>1, <2>1
<1>3. CASE \/ Call \/ OpenFresh \/ ReturnReused \/ Refuse \/ Build \/ BuildFails
           \/ BuildRaises \/ Return \/ ReturnWithdrawn \/ \E p \in Pair : RefusePair(p)
  BY <1>3 DEF Call, OpenFresh, ReturnReused, Refuse, Build, BuildFails, BuildRaises, Return,
              ReturnWithdrawn, RefusePair, Raise
<1>4. CASE MoveAside
  BY <1>4 DEF MoveAside, MoveTo
<1>5. CASE Prepare
  BY <1>5 DEF IInv, Placed, Prepare
<1>6. CASE \E p \in Pair : ReusePair(p) \/ IdenticalPair(p) \/ ComparePair(p)
  <2>1. PICK p \in Pair : ReusePair(p) \/ IdenticalPair(p) \/ ComparePair(p)
    BY <1>6
  <2>2. bundle \in Bundle /\ UNCHANGED attempts
    BY <2>1 DEF IInv, TypeOK, Placed, ReusePair, IdenticalPair, ComparePair, Turn, Result
  <2>3. bundle' = bundle \/ \E lean : bundle' = [bundle EXCEPT !.lean = lean]
    BY <2>1, <2>2 DEF ReusePair, IdenticalPair, ComparePair
  <2>4. bundle' \in Bundle
    BY <2>1, ReusePairInv, NewPairInv, Placeholders, <2>2, <2>3 DEF IInv, TypeOK, Placed, ReusePair,
       IdenticalPair, ComparePair, Turn, Result
  <2> QED
    BY <2>2, <2>3, <2>4 DEF Bundle
<1>7. CASE WriteAggregate \/ WriteSummary \/ WriteRun \/ Withdraw
  <2>1. /\ UNCHANGED attempts /\ bundle \in Bundle
        /\ \/ \E v : bundle' = [bundle EXCEPT !.aggregate = v]
           \/ \E v : bundle' = [bundle EXCEPT !.summary = v]
           \/ \E v : bundle' = [bundle EXCEPT !.run = v]
    BY <1>7 DEF IInv, TypeOK, Placed, WriteAggregate, WriteSummary, WriteRun, Withdraw,
                WithdrawThen, Written
  <2>2. bundle'.rows = bundle.rows
    BY <2>1 DEF Bundle
  <2>3. bundle' \in Bundle
    BY <1>7, <2>1, WriteAggregateInv, WriteSummaryInv, WriteRunInv, WithdrawInv
       DEF IInv, TypeOK, Placed, WriteAggregate, WriteSummary, WriteRun, Withdraw, WithdrawThen,
           Written, Goto
  <2> QED
    BY <2>1, <2>2, <2>3
<1>8. CASE \E p \in Pair : WriteRow(p)
  <2>1. PICK p \in Pair : WriteRow(p)
    BY <1>8
  <2>2. /\ bundle' = [bundle EXCEPT !.rows[p] = results[p]] /\ UNCHANGED attempts
        /\ bundle \in Bundle /\ bundle.rows[p] = NoRow /\ pc' = "rows"
    BY <2>1 DEF IInv, TypeOK, Placed, WriteRow, First, Written, Goto
  <2>3. bundle' \in Bundle
    BY <2>1, <2>2, WriteRowInv DEF IInv, TypeOK, Placed
  <2> QED
    BY <2>2, <2>3 DEF Bundle, Rows
<1> QED
  BY <1>2, <1>3, <1>4, <1>5, <1>6, <1>7, <1>8 DEF Next, Step

\* Only a fault takes evidence away: no call writes over an earlier report
\* (compare_package).
THEOREM EvidenceIsKept == Spec => EvidenceKept
<1>1. ASSUME IInv, Next, faults' = faults PROVE Evidence \subseteq Evidence'
  <2>1. ASSUME NEW n \in DOMAIN attempts
        PROVE  n \in DOMAIN attempts' /\ attempts'[n] = attempts[n]
    BY <1>1, StepKeepsRows DEF IInv, TypeOK
  <2>2. ASSUME NEW n \in DOMAIN attempts PROVE attempts[n] \in Bundle
    BY <1>1 DEF IInv, TypeOK
  <2>3. ASSUME NEW b \in Reports
        PROVE  \E c \in Reports' : \A p \in Pair :
                 b.rows[p] # NoRow /\ b.rows[p].sealed => c.rows[p] = b.rows[p]
    <3>1. CASE \E n \in DOMAIN attempts : b = attempts[n]
      BY <2>1, <2>2, <2>3, <3>1, Placeholders DEF Reports
    <3>2. CASE b = bundle /\ attempts' = Append(attempts, bundle)
      <4>1. Len(attempts) + 1 \in DOMAIN attempts' /\ attempts'[Len(attempts) + 1] = bundle
        BY <1>1, <3>2 DEF IInv, TypeOK, Reports
      <4> QED
        BY <2>3, <3>2, <4>1 DEF Reports
    <3>3. CASE b = bundle /\ attempts' # Append(attempts, bundle)
      BY <1>1, <2>3, <3>3, StepKeepsRows, Placeholders DEF Reports
    <3> QED
      BY <2>3, <3>1, <3>2, <3>3 DEF Reports
  <2> QED
    BY <2>3, EvidenceGrows
<1>2. ASSUME IInv, [Next]_vars
      PROVE  [faults' = faults => Evidence \subseteq Evidence']_vars
  BY <1>1, <1>2
<1> QED
  BY Invariant, <1>2, PTL DEF Spec, EvidenceKept
-----------------------------------------------------------------------------
(* What a call takes over from earlier ones *)

\* What a call took over: the rows it loaded from the bundle it moved aside,
\* and with --only-pair the backend runs of the pairs that were not selected.
Last == attempts[Len(attempts)]
Taken ==
  /\ pc \in {"idle", "open"} => ~moved
  /\ ~moved => cached = NoRows
  /\ moved => attempts # <<>> /\ (call.resume \/ call.only # {} => cached = Loaded(Last))
  /\ \A p \in Pair : call.only # {} /\ p \notin call.only /\ results[p] # NoRow =>
       moved /\ results[p].made = Last.rows[p].made

\* Backend runs are of this call or an earlier one; those that were loaded, or
\* lie in a bundle that is about to be loaded, are of an earlier one.
Dated ==
  /\ \A p \in Pair : cached[p] # NoRow => cached[p].made < calls
  /\ \A p \in Pair : results[p] # NoRow => results[p].made <= calls
  /\ bundle # Absent => \A p \in Pair : bundle.rows[p] # NoRow =>
       bundle.rows[p].made <= calls /\ (pc = "open" => bundle.rows[p].made < calls)

\* Five kinds of steps: a call, a bundle moved aside, a result, the end of a
\* call, and those that leave alone what a call took over.
LEMMA StepKinds ==
  ASSUME IInv, [Next]_vars
  PROVE  \/ Call \/ MoveAside
         \/ \E p \in Pair : ReusePair(p) \/ IdenticalPair(p) \/ ComparePair(p)
         \/ \E v : End(v) /\ UNCHANGED <<attempts, calls>>
         \/ /\ UNCHANGED <<attempts, call, moved, cached, results, calls>>
            /\ pc' = pc \/ pc' \notin {"idle", "open"}
<1>1. CASE OpenFresh \/ Prepare \/ Build \/ BuildFails \/ BuildRaises
  BY <1>1 DEF OpenFresh, Prepare, Build, BuildFails, BuildRaises, Raise, Goto, local
<1>2. CASE ReturnReused \/ Refuse \/ Return \/ ReturnWithdrawn \/ Crash
  BY <1>2 DEF ReturnReused, Refuse, Return, ReturnWithdrawn, Crash, Raise
<1>3. CASE \E p \in Pair : RefusePair(p)
  BY <1>3 DEF RefusePair, Raise
<1>4. CASE WriteAggregate \/ (\E p \in Pair : WriteRow(p)) \/ WriteSummary \/ WriteRun \/ Withdraw
  BY <1>4 DEF WriteAggregate, WriteRow, WriteSummary, WriteRun, Withdraw, WithdrawThen, Written,
              Goto
<1>5. CASE Damage \/ UNCHANGED vars
  BY <1>5 DEF Damage, local, vars
<1> QED
  BY <1>1, <1>2, <1>3, <1>4, <1>5 DEF Next, Step

\* The row a pair of the build gets, and where it is from.
LEMMA ResultOf ==
  ASSUME IInv, Taken, NEW p \in Pair, ReusePair(p) \/ IdenticalPair(p) \/ ComparePair(p)
  PROVE  /\ pc = "pairs"
         /\ UNCHANGED <<attempts, pc, call, moved, cached, calls>>
         /\ \A q \in Pair \ {p} : results'[q] = results[q]
         /\ \/ /\ ReusePair(p) /\ moved /\ cached[p] # NoRow /\ cached[p] = Loaded(Last)[p]
               /\ Last.rows[p] = cached[p] /\ results'[p].made = cached[p].made
            \/ ~Reuses(p) /\ ~Unselected(p) /\ results'[p].made = calls
<1>1. results \in Rows /\ pc = "pairs"
  BY DEF IInv, TypeOK, ReusePair, IdenticalPair, ComparePair, Turn
<1>2. UNCHANGED <<attempts, pc, call, moved, cached, calls>>
  BY DEF ReusePair, IdenticalPair, ComparePair, Result
<1>3. \E row : results' = [results EXCEPT ![p] = row]
  BY DEF ReusePair, IdenticalPair, ComparePair, Result
<1>4. \A q \in Pair \ {p} : results'[q] = results[q]
  BY <1>1, <1>3 DEF Rows
<1>5. CASE ReusePair(p)
  <2>1. Reuses(p) /\ cached[p] # NoRow /\ (call.resume \/ call.only # {})
    BY <1>5 DEF ReusePair, Reuses, Matches, Unselected
  <2>2. cached[p] \in Row
    BY <2>1 DEF IInv, TypeOK, Rows
  <2>3. moved /\ cached = Loaded(Last)
    BY <2>1 DEF Taken, NoRows
  <2>4. Last.rows[p] = cached[p]
    BY <2>1, <2>3 DEF Loaded
  <2>5. \E a, s : results' = [results EXCEPT ![p] = [cached[p] EXCEPT !.attempt = a, !.status = s]]
    BY <1>5 DEF ReusePair, Result
  <2>6. results'[p].made = cached[p].made
    BY <1>1, <2>2, <2>5 DEF Rows, Row
  <2> QED
    BY <1>1, <1>2, <1>4, <1>5, <2>1, <2>3, <2>4, <2>6
<1>6. CASE IdenticalPair(p) \/ ComparePair(p)
  <2>1. \E s : results' = [results EXCEPT ![p] = SealedRow(s)]
    BY <1>6 DEF IdenticalPair, ComparePair, Result
  <2>2. results'[p].made = calls
    BY <1>1, <2>1 DEF Rows, SealedRow
  <2> QED
    BY <1>1, <1>2, <1>4, <1>6, <2>2 DEF IdenticalPair, ComparePair
<1> QED
  BY <1>5, <1>6

LEMMA TakenNext == IInv /\ Taken /\ [Next]_vars => Taken'
<1> SUFFICES ASSUME IInv, Taken, [Next]_vars PROVE Taken'
  OBVIOUS
<1>1. CASE Call
  <2>1. results = NoRows /\ ~moved
    BY <1>1 DEF IInv, Placed, Before, Taken, Call
  <2>2. UNCHANGED <<attempts, moved, cached, results>>
    BY <1>1 DEF Call, local
  <2> QED
    BY <2>1, <2>2 DEF Taken, NoRows
<1>2. CASE MoveAside
  <2>1. /\ results = NoRows /\ results' = results /\ moved' = TRUE /\ pc' = "prepare"
        /\ attempts' = Append(attempts, bundle) /\ call' = call
        /\ cached' = IF call.resume \/ call.only # {} THEN Loaded(bundle) ELSE NoRows
    BY <1>2 DEF IInv, Placed, Before, MoveAside, MoveTo, Goto
  <2>2. Last' = bundle /\ attempts' # <<>>
    <3>1. bundle \in Bundle /\ attempts \in Seq(Bundle)
      BY <1>2 DEF IInv, TypeOK, MoveAside, MoveTo
    <3> QED
      BY <2>1, <3>1 DEF Last
  <2>3. Loaded(Last)' = Loaded(bundle)
    BY <2>2 DEF Loaded
  <2> QED
    BY <2>1, <2>2, <2>3 DEF Taken, NoRows
<1>3. ASSUME NEW p \in Pair, ReusePair(p) \/ IdenticalPair(p) \/ ComparePair(p)
      PROVE  Taken'
  <2>1. Last' = Last /\ Loaded(Last)' = Loaded(Last)
    BY <1>3, ResultOf DEF Last, Loaded
  <2>2. ASSUME NEW q \in Pair, call.only # {}, q \notin call.only, results'[q] # NoRow
        PROVE  moved /\ results'[q].made = Last.rows[q].made
    <3>1. CASE q = p
      BY <1>3, <2>2, <3>1, ResultOf DEF Unselected
    <3>2. CASE q # p
      BY <1>3, <2>2, <3>2, ResultOf DEF Taken
    <3> QED
      BY <3>1, <3>2
  <2>3. UNCHANGED <<attempts, pc, call, moved, cached>>
    BY <1>3, ResultOf
  <2> QED
    BY <2>1, <2>2, <2>3 DEF Taken
<1>4. ASSUME NEW v, End(v)
      PROVE  Taken'
  BY <1>4 DEF End, Forget, Goto, Taken, NoRows
<1>5. CASE /\ UNCHANGED <<attempts, call, moved, cached, results, calls>>
           /\ pc' = pc \/ pc' \notin {"idle", "open"}
  <2>1. Last' = Last /\ Loaded(Last)' = Loaded(Last)
    BY <1>5 DEF Last, Loaded
  <2> QED
    BY <1>5, <2>1 DEF Taken
<1> QED
  BY <1>1, <1>2, <1>3, <1>4, <1>5, StepKinds

\* The rows of a bundle stay, but for those that are written from the results.
LEMMA RowsNext ==
  ASSUME IInv, [Next]_vars, bundle' # Absent, NEW p \in Pair, bundle'.rows[p] # NoRow
  PROVE  \/ /\ bundle # Absent /\ bundle.rows[p] # NoRow
            /\ bundle'.rows[p].made = bundle.rows[p].made
         \/ pc = "rows" /\ pc' = "rows" /\ results[p] # NoRow /\ bundle'.rows[p] = results[p]
<1>1. CASE UNCHANGED bundle
  BY <1>1
<1>2. CASE MoveAside
  BY <1>2 DEF MoveAside, MoveTo
<1>3. CASE Prepare
  BY <1>3, Placeholders DEF Prepare, NoRows
<1>4. ASSUME bundle \in Bundle, NEW x,
             \/ bundle' = [bundle EXCEPT !.lean = x] \/ bundle' = [bundle EXCEPT !.aggregate = x]
             \/ bundle' = [bundle EXCEPT !.summary = x] \/ bundle' = [bundle EXCEPT !.run = x]
      PROVE  bundle # Absent /\ bundle'.rows = bundle.rows
  BY <1>4, Placeholders DEF Bundle
<1>5. CASE \E q \in Pair : ReusePair(q) \/ IdenticalPair(q) \/ ComparePair(q)
  <2>1. bundle \in Bundle
    BY <1>5 DEF IInv, TypeOK, Placed, ReusePair, IdenticalPair, ComparePair, Turn
  <2>2. UNCHANGED bundle \/ \E x : bundle' = [bundle EXCEPT !.lean = x]
    BY <1>5 DEF ReusePair, IdenticalPair, ComparePair
  <2> QED
    BY <1>4, <2>1, <2>2
<1>6. CASE WriteAggregate \/ WriteSummary \/ WriteRun \/ Withdraw
  <2>1. bundle \in Bundle
    BY <1>6 DEF IInv, TypeOK, Placed, WriteAggregate, WriteSummary, WriteRun, Withdraw, WithdrawThen
  <2>2. \E x : \/ bundle' = [bundle EXCEPT !.aggregate = x]
               \/ bundle' = [bundle EXCEPT !.summary = x] \/ bundle' = [bundle EXCEPT !.run = x]
    BY <1>6 DEF WriteAggregate, WriteSummary, WriteRun, Withdraw, WithdrawThen, Written
  <2> QED
    BY <1>4, <2>1, <2>2
<1>7. CASE \E q \in Pair : WriteRow(q)
  <2>1. PICK q \in Pair : WriteRow(q)
    BY <1>7
  <2>2. /\ bundle \in Bundle /\ bundle # Absent /\ pc = "rows" /\ pc' = "rows"
        /\ bundle' = [bundle EXCEPT !.rows[q] = results[q]]
    BY <2>1 DEF IInv, TypeOK, Placed, WriteRow, Written, Goto
  <2>3. bundle'.rows[p] = IF p = q THEN results[q] ELSE bundle.rows[p]
    BY <2>2 DEF Bundle, Rows
  <2> QED
    BY <2>2, <2>3
<1>8. CASE Crash
  <2>1. \/ bundle' = bundle
        \/ bundle # Absent /\ bundle' = [bundle EXCEPT !.run = "torn"]
        \/ bundle # Absent /\ bundle' = [bundle EXCEPT !.summary = "none"]
    BY <1>8 DEF IInv, Placed, Crash
  <2> QED
    BY <1>1, <1>4, <2>1 DEF IInv, TypeOK
<1>9. CASE Damage
  <2>1. bundle # Absent
    BY <1>9 DEF Damage
  <2> QED
    BY <1>9, <2>1, Damaged
<1>10. CASE \/ Call \/ OpenFresh \/ ReturnReused \/ Refuse \/ Build \/ BuildFails
            \/ BuildRaises \/ Return \/ ReturnWithdrawn \/ \E q \in Pair : RefusePair(q)
  BY <1>1, <1>10 DEF Call, OpenFresh, ReturnReused, Refuse, Build, BuildFails, BuildRaises, Return,
              ReturnWithdrawn, RefusePair, Raise
<1> QED
  BY <1>1, <1>2, <1>3, <1>5, <1>6, <1>7, <1>8, <1>9, <1>10 DEF Next, Step, vars

LEMMA DatedNext == IInv /\ Taken /\ Dated /\ [Next]_vars => Dated'
<1> SUFFICES ASSUME IInv, Taken, Dated, [Next]_vars PROVE Dated'
  OBVIOUS
<1>0. calls \in Nat /\ results \in Rows /\ cached \in Rows
  BY PackageAssumption DEF IInv, TypeOK
<1>1. /\ bundle # Absent => \A p \in Pair : bundle.rows[p] # NoRow => bundle.rows[p].made \in Nat
      /\ \A p \in Pair : results[p] # NoRow => results[p].made \in Nat
      /\ \A p \in Pair : cached[p] # NoRow => cached[p].made \in Nat
  BY DEF IInv, TypeOK, Bundle, Rows, Row
<1>2. calls' = calls \/ (Call /\ calls' = calls + 1)
  BY StepKinds, ResultOf DEF Call, MoveAside, MoveTo
<1>3. bundle' # Absent => \A p \in Pair : bundle'.rows[p] # NoRow => bundle'.rows[p].made <= calls'
  BY <1>0, <1>1, <1>2, RowsNext DEF Dated
<1>4. ASSUME pc' = "open", bundle' # Absent, NEW p \in Pair, bundle'.rows[p] # NoRow
      PROVE  bundle'.rows[p].made < calls'
  <2>1. /\ bundle # Absent /\ bundle.rows[p] # NoRow
        /\ bundle'.rows[p].made = bundle.rows[p].made
    BY <1>4, RowsNext
  <2>2. CASE Call
    BY <1>0, <1>1, <2>1, <2>2 DEF Dated, Call
  <2>3. CASE ~Call
    <3>1. pc = "open"
      BY <1>4, <2>3, StepKinds, ResultOf DEF MoveAside, MoveTo, End, Goto
    <3> QED
      BY <1>2, <2>1, <2>3, <3>1 DEF Dated
  <2> QED
    BY <2>2, <2>3
<1>5. CASE Call
  BY <1>0, <1>1, <1>3, <1>4, <1>5 DEF Dated, Call, local
<1>6. CASE MoveAside
  <2>1. pc = "open" /\ bundle # Absent /\ UNCHANGED <<results, calls>>
        /\ (cached' = Loaded(bundle) \/ cached' = NoRows)
    BY <1>6 DEF MoveAside, MoveTo
  <2>2. \A p \in Pair : Loaded(bundle)[p] # NoRow =>
          bundle.rows[p] # NoRow /\ Loaded(bundle)[p] = bundle.rows[p]
    BY DEF Loaded
  <2>3. \A p \in Pair : cached'[p] # NoRow => cached'[p].made < calls'
    BY <2>1, <2>2 DEF Dated, NoRows
  <2> QED
    BY <1>3, <1>4, <2>1, <2>3 DEF Dated
<1>7. ASSUME NEW p \in Pair, ReusePair(p) \/ IdenticalPair(p) \/ ComparePair(p)
      PROVE  Dated'
  <2>1. results'[p].made <= calls
    BY <1>0, <1>1, <1>7, ResultOf DEF Dated
  <2>2. \A q \in Pair : results'[q] # NoRow => results'[q].made <= calls
    BY <1>7, <2>1, ResultOf DEF Dated
  <2> QED
    BY <1>3, <1>4, <1>7, <2>2, ResultOf DEF Dated
<1>8. ASSUME NEW v, End(v), UNCHANGED calls
      PROVE  Dated'
  BY <1>3, <1>4, <1>8 DEF End, Forget, Dated, NoRows
<1>9. CASE UNCHANGED <<cached, results, calls>>
  BY <1>3, <1>4, <1>9 DEF Dated
<1> QED
  BY <1>5, <1>6, <1>7, <1>8, <1>9, StepKinds

LEMMA TakenInvariant == Spec => [](IInv /\ Taken /\ Dated)
<1>1. Init => Taken /\ Dated
  BY DEF Init, Taken, Dated, NoRows
<1> QED
  BY <1>1, TakenNext, DatedNext, Invariant, PTL DEF Spec

\* A resumed call runs the backend again for no pair whose evidence survived,
\* unless a ledger model of a changed pair is unsupported (compare_package).
THEOREM ResumesReuse == Spec => ResumeReuses
<1>1. ASSUME IInv, Taken, Dated, [Next]_vars, NEW p \in Pair, p \in Fallback => p \in Same,
             Reruns(p)
      PROVE  FALSE
  <2>1. /\ pc = "pairs" /\ results'[p] # results[p] /\ results'[p].made = calls /\ calls \in Nat
        /\ call.resume /\ ~call.force /\ moved /\ Loaded(Last)[p] # NoRow
    BY <1>1, PackageAssumption DEF Reruns, Last, IInv, TypeOK
  <2>2. cached[p] = Loaded(Last)[p]
    BY <1>1, <2>1 DEF Taken
  <2>3. Reuses(p)
    BY <1>1, <2>1, <2>2 DEF Reuses, Matches
  <2>4. ASSUME NEW v
        PROVE  ~End(v)
    <3>1. End(v) => results'[p] = NoRow
      BY DEF End, Forget, NoRows
    <3> QED
      BY <1>1, <3>1 DEF Reruns
  <2>5. PICK q \in Pair : ReusePair(q) \/ IdenticalPair(q) \/ ComparePair(q)
    BY <1>1, <2>1, <2>4, StepKinds DEF Call, MoveAside, MoveTo
  <2>6. q = p
    BY <1>1, <2>1, <2>5, ResultOf
  <2>7. results'[p].made = cached[p].made /\ cached[p] # NoRow
    BY <1>1, <2>3, <2>5, <2>6, ResultOf
  <2>8. cached[p].made < calls
    BY <1>1, <2>7 DEF Dated
  <2> QED
    BY <2>1, <2>7, <2>8
<1>2. ASSUME IInv, Taken, Dated, [Next]_vars
      PROVE  [\A p \in Pair : (p \in Fallback => p \in Same) => ~Reruns(p)]_vars
  BY <1>1, <1>2
<1> QED
  BY TakenInvariant, <1>2, PTL DEF Spec, ResumeReuses

\* What an --only-pair call returns reports for the other pairs the backend
\* runs of the bundle before it (compare_package).
THEOREM UnselectedStay == Spec => OnlyPairKeeps
<1>1. ASSUME IInv, Taken, pc = "validate", NEW p \in found \ call.only, call.only # {}
      PROVE  moved /\ results[p].made = attempts[Len(attempts)].rows[p].made
  <2>1. p \in Pair /\ results[p] # NoRow
    BY <1>1 DEF IInv, TypeOK, Placed, Writing
  <2> QED
    BY <1>1, <2>1 DEF Taken, Last
<1>2. ASSUME IInv, Taken, Dated, [Next]_vars
      PROVE  [pc = "validate" /\ pc' = "idle" /\ answer' # "none" =>
                \A p \in found \ call.only : call.only # {} =>
                  moved /\ results[p].made = attempts[Len(attempts)].rows[p].made]_vars
  BY <1>1, <1>2
<1> QED
  BY TakenInvariant, <1>2, PTL DEF Spec, OnlyPairKeeps
=============================================================================
