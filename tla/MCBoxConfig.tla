---------------------------- MODULE MCBoxConfig ----------------------------
(* A small fleet: one box in service and one not created yet, two           *)
(* organizations, one staff member, a factory pin and a pin of the          *)
(* operator's.                                                              *)
EXTENDS BoxConfig

CONSTANTS b1, b2, o1, o2

MCFactoryModels == [m \in {"factory"} |-> {"persona"}]
MCFactoryPicks == [p \in {"persona"} |-> "factory"]

OwnPin == [fields |-> 1, purposes |-> {"narrator"}, verified |-> TRUE, size |-> 0]

(* The store after its first open, one pin and one box: every step is a     *)
(* store operation, so the state is one the hub reaches.                    *)
InService ==
  LET d == CreateModel(openStore(EmptyStore), "own", OwnPin)
      e == EnsureSeedNarrator(InsertBox(d, b1), b1)
  IN  CreateBoxToken(SetBoxOrgs(e, b1, {o1}), "a1", b1, {})

MCInit == InitWith(InService)

MCSpec == MCInit /\ [][Next]_vars

FairSpec == MCSpec /\ Fairness

=============================================================================
