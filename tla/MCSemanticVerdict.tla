------------------------- MODULE MCSemanticVerdict -------------------------
(* SemanticVerdict on worlds of two inputs, one of which may be ledger      *)
(* valid.  Only whether two outcomes differ matters, so the old program     *)
(* succeeds everywhere; each program is slow on one input at most; which    *)
(* models are planned and whether the ABI is verified vary in one world.    *)
EXTENDS SemanticVerdict

CONSTANT LedgerInput

MCWorld(new, slow, domain, planned, abi) ==
  [out |-> [old |-> [i \in Input |-> "success"], new |-> new],
   slow |-> slow, domain |-> domain, planned |-> planned, abi |-> abi]

Outcomes == [Input -> {"success", "failure"}]
SlowOn  == {{}} \cup {{i} : i \in Input}
Domains == {d \in [Model -> {{}, {LedgerInput}, Input}] :
              d["ledger"] \subseteq d["raw"]}

MCWorlds ==
  {MCWorld(new, slow, domain, Model, TRUE) :
     new \in Outcomes, slow \in [Side -> SlowOn], domain \in Domains}
  \cup
  {MCWorld([i \in Input |-> "failure"], [side \in Side |-> {}],
           [m \in Model |-> Input], planned, abi) :
     planned \in SUBSET Model, abi \in BOOLEAN}
=============================================================================
