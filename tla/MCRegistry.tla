----------------------------- MODULE MCRegistry -----------------------------
(* One executor of one app: rows are found, written and deleted per address, *)
(* and a list is compared with each address by itself.  What other executors  *)
(* of the app come to, that there is one for the app's list, is in Others.    *)
EXTENDS RegistryInv

MCAppOf == [n \in Nodes |-> CHOOSE a \in Apps : TRUE]
=============================================================================
