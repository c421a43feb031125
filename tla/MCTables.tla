------------------------------ MODULE MCTables ------------------------------
(***************************************************************************)
(* Parts that share no state with each other and of which only safety properties are     *)
(* checked, so that symmetry can be used; each behaviour follows one of them, `focus':    *)
(* the paged KV cache with callers of its own ("pages": every operation, rows written      *)
(* and read), the prefix manager over it ("prefixes"), the table of models ("models") and   *)
(* the lifecycle of the service ("service").                                                *)
(***************************************************************************)
EXTENDS SharedPrefixManager, ModelManager, ServiceManager

CONSTANTS Short, Long, Other

VARIABLE focus

vars == <<focus, pagedVars, managerVars, modelVars, serviceVars>>

\* Prompts by the hash of their first 64 tokens; a long one needs two pages.
MCPrompt ==
  {[hash |-> Short, pages |-> 1], [hash |-> Long, pages |-> 2], [hash |-> Other, pages |-> 1]}

Init ==
  /\ focus \in {"pages", "prefixes", "models", "service"}
  /\ PagedInit /\ ManagerInit /\ ModelsInit /\ ServiceInit

Next ==
  /\ UNCHANGED focus
  /\ \/ /\ focus = "pages" /\ PagedNext
        /\ UNCHANGED <<managerVars, modelVars, serviceVars>>
     \/ /\ focus = "prefixes" /\ ManagerNext
        /\ UNCHANGED <<modelVars, serviceVars>>
     \/ /\ focus = "models" /\ ModelsNext
        /\ UNCHANGED <<pagedVars, managerVars, serviceVars>>
     \/ /\ focus = "service" /\ ServiceNext
        /\ UNCHANGED <<pagedVars, managerVars, modelVars>>

Spec == Init /\ [][Next]_vars

TypeOK == PagedTypeOK /\ ManagerTypeOK /\ ModelsTypeOK /\ ServiceTypeOK

\* Blocks are interchangeable.
Symmetry == Permutations(Block)
=============================================================================
