------------------------------ MODULE MCTracer ------------------------------
(***************************************************************************)
(* Tracer on a contract with storage and an address that is not in use.    *)
(***************************************************************************)
EXTENDS Tracer

MCAddresses == {<<0, 1>>, <<1, 0>>}
MCSlots == {<<0, 1>>, <<1, 0>>}
MCInitialWorld ==
  [a \in MCAddresses |->
     IF a = <<0, 1>> THEN [fields |-> [f \in HeaderFields |-> 1], storage |-> [s \in Slots |-> 1]]
     ELSE Absent]
=============================================================================
